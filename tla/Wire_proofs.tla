---------------------------- MODULE Wire_proofs -----------------------------
(***************************************************************************)
(* Theorems about Wire, for any devices and either size of a long: a       *)
(* description is read field by field as it was written, and the device    *)
(* made is the one described.  The inductive invariant places both ends in *)
(* the sequence of all fields: k are read, m are written, and what the     *)
(* reader wants next are the fields behind the k-th, as far as it can know *)
(* them.                                                                   *)
(***************************************************************************)
EXTENDS Wire, Filters_proofs

-----------------------------------------------------------------------------
(* The fields of a description, one after the other.                       *)

(* All the fields that are sent for d.                                     *)
Plan(p, d, longbits) == IF p = "NE2" THEN NE2Writes(d, longbits) ELSE NE1Writes(d)

(* Tuples are sequences of their elements.                                 *)
LEMMA ShortTuples ==
    /\ \A x : <<x>> \in Seq(Elements(<<x>>)) /\ Len(<<x>>) = 1
    /\ \A x, y : <<x, y>> \in Seq(Elements(<<x, y>>)) /\ Len(<<x, y>>) = 2
    /\ \A x, y, z : <<x, y, z>> \in Seq(Elements(<<x, y, z>>)) /\ Len(<<x, y, z>>) = 3
    /\ \A x, y, z, u : /\ <<x, y, z, u>> \in Seq(Elements(<<x, y, z, u>>))
                       /\ Len(<<x, y, z, u>>) = 4
  BY DEF Elements

(* A concatenation of four parts, place by place.                          *)
Consists(s, a, b, c, e) ==
    /\ s \in Seq(Elements(s)) /\ Len(s) = Len(a) + Len(b) + Len(c) + Len(e)
    /\ \A i \in 1..Len(a) : s[i] = a[i]
    /\ \A i \in 1..Len(b) : s[Len(a) + i] = b[i]
    /\ \A i \in 1..Len(c) : s[Len(a) + Len(b) + i] = c[i]
    /\ \A i \in 1..Len(e) : s[Len(a) + Len(b) + Len(c) + i] = e[i]

(* Such a sequence is the concatenation of its parts, part by part.        *)
LEMMA FourParts ==
    ASSUME NEW a, NEW b, NEW c, NEW e, NEW s, s = a \o b \o c \o e,
           a \in Seq(Elements(a)), b \in Seq(Elements(b)),
           c \in Seq(Elements(c)), e \in Seq(Elements(e))
    PROVE  Consists(s, a, b, c, e)
  <1>. DEFINE S  == Elements(a) \cup Elements(b) \cup Elements(c) \cup Elements(e)
              ab == a \o b
              abc == ab \o c
              la == Len(a)
              lb == Len(b)
              lc == Len(c)
              le == Len(e)
  <1>1. a \in Seq(S) /\ b \in Seq(S) /\ c \in Seq(S) /\ e \in Seq(S)
    BY SeqOfElements DEF Elements
  <1>2. la \in Nat /\ lb \in Nat /\ lc \in Nat /\ le \in Nat
    BY LenProperties
  <1>. HIDE DEF S, la, lb, lc, le
  <1>3. /\ ab \in Seq(S) /\ Len(ab) = la + lb
        /\ \A i \in 1..la : ab[i] = a[i]
        /\ \A i \in 1..lb : ab[la + i] = b[i]
    BY <1>1, ConcatParts DEF la, lb
  <1>. HIDE DEF ab
  <1>4. /\ abc \in Seq(S) /\ Len(abc) = la + lb + lc
        /\ \A i \in 1..(la + lb) : abc[i] = ab[i]
        /\ \A i \in 1..lc : abc[(la + lb) + i] = c[i]
    <2>1. /\ abc \in Seq(S) /\ Len(abc) = Len(ab) + lc
          /\ \A i \in 1..Len(ab) : abc[i] = ab[i]
          /\ \A i \in 1..lc : abc[Len(ab) + i] = c[i]
      <3>1. ab \o c \in Seq(S) /\ Len(ab \o c) = Len(ab) + Len(c)
        BY <1>1, <1>3, ConcatParts
      <3>2. \A i \in 1..Len(ab) : (ab \o c)[i] = ab[i]
        BY <1>1, <1>3, ConcatParts
      <3>3. \A i \in 1..Len(c) : (ab \o c)[Len(ab) + i] = c[i]
        BY <1>1, <1>3, ConcatParts
      <3>. QED BY <3>1, <3>2, <3>3 DEF lc
    <2>. QED BY <1>3, <2>1
  <1>. HIDE DEF abc
  <1>5. /\ s \in Seq(S) /\ Len(s) = la + lb + lc + le
        /\ \A i \in 1..(la + lb + lc) : s[i] = abc[i]
        /\ \A i \in 1..le : s[(la + lb + lc) + i] = e[i]
    <2>1. s = abc \o e
      BY DEF ab, abc
    <2>2. /\ s \in Seq(S) /\ Len(s) = Len(abc) + le
          /\ \A i \in 1..Len(abc) : s[i] = abc[i]
          /\ \A i \in 1..le : s[Len(abc) + i] = e[i]
      <3>1. abc \o e \in Seq(S) /\ Len(abc \o e) = Len(abc) + Len(e)
        BY <1>1, <1>4, ConcatParts
      <3>2. \A i \in 1..Len(abc) : (abc \o e)[i] = abc[i]
        BY <1>1, <1>4, ConcatParts
      <3>3. \A i \in 1..Len(e) : (abc \o e)[Len(abc) + i] = e[i]
        BY <1>1, <1>4, ConcatParts
      <3>. QED BY <2>1, <3>1, <3>2, <3>3 DEF le
    <2>. QED BY <1>4, <2>2
  <1>6. \A i \in 1..la : s[i] = a[i]
    <2>. SUFFICES ASSUME NEW i \in 1..la PROVE s[i] = a[i]
      OBVIOUS
    <2>1. i \in 1..(la + lb) /\ i \in 1..(la + lb + lc)
      BY <1>2
    <2>. QED BY <1>3, <1>4, <1>5, <2>1
  <1>7. \A i \in 1..lb : s[la + i] = b[i]
    <2>. SUFFICES ASSUME NEW i \in 1..lb PROVE s[la + i] = b[i]
      OBVIOUS
    <2>1. la + i \in 1..(la + lb) /\ la + i \in 1..(la + lb + lc)
      BY <1>2
    <2>. QED BY <1>3, <1>4, <1>5, <2>1
  <1>8. \A i \in 1..lc : s[la + lb + i] = c[i]
    <2>. SUFFICES ASSUME NEW i \in 1..lc PROVE s[la + lb + i] = c[i]
      OBVIOUS
    <2>1. (la + lb) + i \in 1..(la + lb + lc)
      BY <1>2
    <2>. QED BY <1>4, <1>5, <2>1
  <1>9. s \in Seq(Elements(s))
    BY <1>5, SeqOfElements DEF Elements
  <1>. QED BY <1>5, <1>6, <1>7, <1>8, <1>9 DEF Consists, la, lb, lc, le

-----------------------------------------------------------------------------
(* Types, codes and their numbers.                                         *)

(* The orders in which types are sent name each type once.                 *)
LEMMA TypeOrders ==
    /\ TypeOrder \in Seq(Types) /\ Elements(TypeOrder) = Types /\ Distinct(TypeOrder)
    /\ EntryOrder \in Seq(HasUISetBitIOC) /\ Distinct(EntryOrder)
    /\ Elements(EntryOrder) = Range(EntryOrder)
    /\ StateOrder \in Seq(HasUISetBitIOC)
    /\ HasUISetBitIOC \subseteq Types
    /\ HasUISetBitIOC = {"KEY", "REL", "ABS", "MSC", "SW", "LED", "SND", "FF"}
  <1>1. HasUISetBitIOC = {"KEY", "REL", "ABS", "MSC", "SW", "LED", "SND", "FF"}
    BY DEF HasUISetBitIOC, MaxCode
  <1>2. Types = {"SYN", "KEY", "REL", "ABS", "MSC", "SW", "LED", "SND", "REP", "FF"}
        /\ Elements(TypeOrder) = Types /\ TypeOrder \in Seq(Types)
    BY DEF Types, TypeOrder, Elements, Range
  <1>3. Distinct(TypeOrder)
    BY DEF TypeOrder, Distinct
  <1>4. Distinct(EntryOrder) /\ Elements(EntryOrder) = Range(EntryOrder)
    BY DEF EntryOrder, Distinct, Elements, Range
  <1>5. EntryOrder \in Seq(HasUISetBitIOC) /\ StateOrder \in Seq(HasUISetBitIOC)
    BY <1>1 DEF EntryOrder, StateOrder
  <1>. QED BY <1>1, <1>2, <1>3, <1>4, <1>5

(* The types that have codes, and how many they have at most.              *)
LEMMA CodeNumbers ==
    ASSUME NEW t \in HasUISetBitIOC
    PROVE  MaxCode[t] \in 7..767 /\ MaxCode["ABS"] = 63
  <1>1. /\ MaxCode["KEY"] = 767 /\ MaxCode["REL"] = 15 /\ MaxCode["ABS"] = 63
        /\ MaxCode["MSC"] = 7 /\ MaxCode["SW"] = 16 /\ MaxCode["LED"] = 15
        /\ MaxCode["SND"] = 7 /\ MaxCode["FF"] = 127
    BY DEF MaxCode
  <1>2. t \in {"KEY", "REL", "ABS", "MSC", "SW", "LED", "SND", "FF"}
    BY TypeOrders
  <1>. QED BY <1>1, <1>2

(* The numbers of bits that are counted.                                   *)
BitCounts == 1..831

(* So many bits take few bytes.                                            *)
LEMMA SmallBytes ==
    ASSUME NEW q \in BitCounts
    PROVE  byte_size(q) \in FieldSizes
  <1>1. q \in Int /\ 1 <= q /\ q <= 831
    BY DEF BitCounts
  <1>2. \A x \in Int : 1 <= x /\ x <= 831 => (x + 7) \div 8 \in FieldSizes
    BY DEF FieldSizes
  <1>. QED BY <1>1, <1>2 DEF byte_size

(* Whole longs hold every code of a type, in either size, and their number *)
(* of bits fits 16.                                                        *)
LEMMA LongsHoldAll ==
    ASSUME NEW t \in HasUISetBitIOC, NEW L \in LongBits
    PROVE  /\ BitLength(t, L) \in BitCounts /\ MaxCode[t] < BitLength(t, L)
           /\ byte_size(BitLength(t, L)) \in FieldSizes
  <1>. DEFINE n == MaxCode[t]
  <1>1. n \in 7..767 /\ (L = 32 \/ L = 64)
    BY CodeNumbers, WireAssumption
  <1>. HIDE DEF n
  <1>2. \A l \in {32, 64} : /\ ((n + l) \div l) * l \in BitCounts
                           /\ n < ((n + l) \div l) * l
    BY <1>1 DEF BitCounts
  <1>3. BitLength(t, L) \in BitCounts /\ n < BitLength(t, L)
    BY <1>1, <1>2 DEF BitLength, n
  <1>. QED BY <1>3, SmallBytes, Zenon DEF n

(* In netevent 1 a field has room for every code.                          *)
LEMMA BytesByMax ==
    ASSUME NEW t \in HasUISetBitIOC
    PROVE  NE1Size(t) = SizeByMax(t) /\ NE1Size(t) \in FieldSizes
  <1>1. PICK n \in 7..767 : n = MaxCode[t]
    BY CodeNumbers
  <1>2. 8 * (1 + n \div 8) \in BitCounts
    BY DEF BitCounts
  <1>3. NE1Size(t) = byte_size(8 * (1 + n \div 8))
    BY <1>1, Zenon DEF NE1Size, resizeNE1Compat
  <1>4. NE1Size(t) \in FieldSizes
    BY <1>2, <1>3, SmallBytes, Zenon
  <1>5. NE1Size(t) = SizeByMax(t)
    BY DEF NE1Size, SizeByMax
  <1>. QED BY <1>4, <1>5, Zenon

(* The event types take four bytes, in either protocol.                    *)
LEMMA EventTypeBytes == byte_size(EV_MAX) = 4 /\ byte_size(resizeNE1Compat(EV_MAX)) = 4
  BY DEF byte_size, resizeNE1Compat, EV_MAX

(* The types that have bits, and the axes, in their orders.                *)
LEMMA BitTypes ==
    ASSUME NEW types
    PROVE  /\ WithBits(types) \in Seq(HasUISetBitIOC) /\ Distinct(WithBits(types))
           /\ Elements(WithBits(types)) = types \cap HasUISetBitIOC
  <1>. DEFINE T == types \cap HasUISetBitIOC
  <1>1. WithBits(types) \in Seq(Types \cap T)
    BY TypeOrders, FilterType DEF WithBits
  <1>2. Types \cap T \subseteq HasUISetBitIOC /\ Types \cap T = T
    BY TypeOrders
  <1>3. Distinct(WithBits(types)) /\ Elements(WithBits(types)) = Types \cap T
    BY TypeOrders, FilterDistinct, FilterElements DEF WithBits
  <1>. HIDE DEF T
  <1>4. WithBits(types) \in Seq(HasUISetBitIOC)
    BY <1>1, <1>2
  <1>. QED BY <1>2, <1>3, <1>4 DEF T

(* The loop over the axes runs from 0 to 63.                               *)
LEMMA AxisNumbers ==
    /\ Axes \in Seq(0..63) /\ Elements(Axes) = 0..63 /\ Len(Axes) = 64
    /\ \A i \in 1..64 : Axes[i] = i - 1
  <1>1. Axes = [i \in 1..64 |-> i - 1]
    <2>1. MaxCode["ABS"] = 63
      BY DEF MaxCode
    <2>. QED BY <2>1 DEF Axes
  <1>2. Axes \in Seq(0..63) /\ Len(Axes) = 64 /\ \A i \in 1..64 : Axes[i] = i - 1
    BY <1>1
  <1>3. Elements(Axes) = {i - 1 : i \in 1..64}
    BY <1>2 DEF Elements
  <1>4. ASSUME NEW c \in 0..63 PROVE c \in {i - 1 : i \in 1..64}
    <2>1. c + 1 \in 1..64 /\ c = (c + 1) - 1
      OBVIOUS
    <2>. QED BY <2>1
  <1>. QED BY <1>2, <1>3, <1>4

(* The loop over the axes of a device takes all of them.                   *)
LEMMA AxesInOrder ==
    ASSUME NEW codes
    PROVE  Filter(Axes, codes) \in Seq(0..63) /\ Elements(Filter(Axes, codes)) = codes \cap 0..63
  <1>1. Filter(Axes, codes) \in Seq((0..63) \cap codes)
    BY AxisNumbers, FilterType
  <1>2. (0..63) \cap codes \subseteq 0..63
    OBVIOUS
  <1>3. Elements(Filter(Axes, codes)) = 0..63 \cap codes
    BY AxisNumbers, FilterElements
  <1>. QED BY <1>1, <1>2, <1>3

-----------------------------------------------------------------------------
(* Where each field is.                                                    *)

(* The places of pairs.                                                    *)
LEMMA PairPlaces ==
    ASSUME NEW n \in Nat
    PROVE  /\ \A j \in 1..n : /\ 2 * j - 1 \in 1..(2 * n) /\ 2 * j \in 1..(2 * n)
                              /\ (2 * j - 1) % 2 = 1 /\ ((2 * j - 1) + 1) \div 2 = j
                              /\ (2 * j) % 2 = 0 /\ (2 * j) \div 2 = j
           /\ \A i \in 1..(2 * n) : \E j \in 1..n : i = 2 * j - 1 \/ i = 2 * j
           /\ \A i \in 1..(2 * n) : /\ i % 2 = 1 => (i + 1) \div 2 \in 1..n
                                    /\ i % 2 # 1 => i \div 2 \in 1..n
  <1>1. ASSUME NEW j \in 1..n
        PROVE  /\ 2 * j - 1 \in 1..(2 * n) /\ 2 * j \in 1..(2 * n)
               /\ (2 * j - 1) % 2 = 1 /\ ((2 * j - 1) + 1) \div 2 = j
               /\ (2 * j) % 2 = 0 /\ (2 * j) \div 2 = j
    OBVIOUS
  <1>2. ASSUME NEW i \in 1..(2 * n)
        PROVE  \E j \in 1..n : i = 2 * j - 1 \/ i = 2 * j
    <2>1. (i + 1) \div 2 \in 1..n /\ (i = 2 * ((i + 1) \div 2) - 1 \/ i = 2 * ((i + 1) \div 2))
      OBVIOUS
    <2>. QED BY <2>1
  <1>3. ASSUME NEW i \in 1..(2 * n)
        PROVE  /\ i % 2 = 1 => (i + 1) \div 2 \in 1..n
               /\ i % 2 # 1 => i \div 2 \in 1..n
    OBVIOUS
  <1>. QED BY <1>1, <1>2, <1>3

(* AddDevice and the packet that follows.                                  *)
NE2Places(p, d, L, ts, ax) ==
    /\ p \in Seq(Elements(p)) /\ Len(p) = 4 + 2 * Len(ts) + Len(ax) + 2
    /\ p[1] = Plain("packet", 28) /\ p[2] = Field("name", "", 80 + 8, d.terminated)
    /\ p[3] = Field("evbitsize", "", 2, EV_MAX)
    /\ p[4] = Field("evbits", "", byte_size(EV_MAX), DOMAIN d.codes)
    /\ \A j \in 1..Len(ts) : /\ p[4 + (2 * j - 1)] = CountField(ts[j], L)
                             /\ p[4 + 2 * j] = BitsField(d, ts[j], L)
    /\ \A j \in 1..Len(ax) : p[4 + 2 * Len(ts) + j] = AxisField(ax[j])
    /\ p[4 + 2 * Len(ts) + Len(ax) + 1] = Plain("state", byte_size(EV_MAX))
    /\ p[4 + 2 * Len(ts) + Len(ax) + 2] = Plain("packet", 28)

(* What writeNE2AddDevice writes is placed like that.                      *)
LEMMA NE2IsPlaced ==
    ASSUME NEW d \in Devices, NEW L \in LongBits
    PROVE  NE2Places(NE2Writes(d, L), d, L, WithBits(DOMAIN d.codes), Filter(Axes, AxesOf(d)))
  <1>. DEFINE ts == WithBits(DOMAIN d.codes)
              ax == Filter(Axes, AxesOf(d))
              n  == Len(ts)
              m  == Len(ax)
              a  == NE2Head(d)
              b  == [i \in 1..(2 * n) |-> IF i % 2 = 1 THEN CountField(ts[(i + 1) \div 2], L)
                                          ELSE BitsField(d, ts[i \div 2], L)]
              c  == [i \in 1..m |-> AxisField(ax[i])]
              e  == <<Plain("state", byte_size(EV_MAX)), Plain("packet", 28)>>
              p  == NE2Writes(d, L)
  <1>1. n \in Nat /\ m \in Nat
    BY BitTypes, AxesInOrder, LenProperties
  <1>2. p = a \o b \o c \o e
    BY DEF NE2Writes, InPairs, ForEach
  <1>3. a \in Seq(Elements(a)) /\ Len(a) = 4
        /\ a[1] = Plain("packet", 28) /\ a[2] = Field("name", "", 80 + 8, d.terminated)
        /\ a[3] = Field("evbitsize", "", 2, EV_MAX)
        /\ a[4] = Field("evbits", "", byte_size(EV_MAX), DOMAIN d.codes)
    BY ShortTuples DEF NE2Head
  <1>4. /\ b \in Seq(Elements(b)) /\ Len(b) = 2 * n
        /\ \A j \in 1..n : /\ b[2 * j - 1] = CountField(ts[j], L)
                           /\ b[2 * j] = BitsField(d, ts[j], L)
    <2>. HIDE DEF ts, n
    <2>1. b \in Seq(Elements(b)) /\ Len(b) = 2 * n
      <3>1. 2 * n \in Nat /\ b = [i \in 1..(2 * n) |-> b[i]]
        BY <1>1
      <3>. HIDE DEF b
      <3>. QED BY <3>1, FunctionIsSeq
    <2>2. ASSUME NEW j \in 1..n
          PROVE  b[2 * j - 1] = CountField(ts[j], L) /\ b[2 * j] = BitsField(d, ts[j], L)
      BY <1>1, PairPlaces
    <2>. QED BY <2>1, <2>2
  <1>5. /\ c \in Seq(Elements(c)) /\ Len(c) = m
        /\ \A j \in 1..m : c[j] = AxisField(ax[j])
    <2>. HIDE DEF ax, m
    <2>1. c = [i \in 1..m |-> c[i]]
      OBVIOUS
    <2>2. \A j \in 1..m : c[j] = AxisField(ax[j])
      OBVIOUS
    <2>. HIDE DEF c
    <2>. QED BY <1>1, <2>1, <2>2, FunctionIsSeq
  <1>6. /\ e \in Seq(Elements(e)) /\ Len(e) = 2
        /\ e[1] = Plain("state", byte_size(EV_MAX)) /\ e[2] = Plain("packet", 28)
    BY ShortTuples
  <1>. HIDE DEF a, b, c, e, n, m, ts, ax, p
  <1>7. /\ p \in Seq(Elements(p)) /\ Len(p) = 4 + 2 * n + m + 2
        /\ \A i \in 1..4 : p[i] = a[i]
        /\ \A i \in 1..(2 * n) : p[4 + i] = b[i]
        /\ \A i \in 1..m : p[4 + 2 * n + i] = c[i]
        /\ \A i \in 1..2 : p[4 + 2 * n + m + i] = e[i]
    <2>1. Consists(p, a, b, c, e)
      BY <1>2, <1>3, <1>4, <1>5, <1>6, FourParts
    <2>. QED BY <1>3, <1>4, <1>5, <1>6, <2>1 DEF Consists
  <1>8. \A j \in 1..n : /\ p[4 + (2 * j - 1)] = CountField(ts[j], L)
                        /\ p[4 + 2 * j] = BitsField(d, ts[j], L)
    <2>. SUFFICES ASSUME NEW j \in 1..n
                  PROVE  /\ p[4 + (2 * j - 1)] = CountField(ts[j], L)
                         /\ p[4 + 2 * j] = BitsField(d, ts[j], L)
      OBVIOUS
    <2>1. 2 * j - 1 \in 1..(2 * n) /\ 2 * j \in 1..(2 * n)
      BY <1>1
    <2>. QED BY <1>4, <1>7, <2>1
  <1>9. p[1] = a[1] /\ p[2] = a[2] /\ p[3] = a[3] /\ p[4] = a[4]
        /\ p[4 + 2 * n + m + 1] = e[1] /\ p[4 + 2 * n + m + 2] = e[2]
    BY <1>7
  <1>. QED BY <1>3, <1>5, <1>6, <1>7, <1>8, <1>9 DEF NE2Places, n, m, ts, ax, p

(* The header of netevent 1 and the packet that follows.                   *)
LEMMA NE1Types ==
    ASSUME NEW types
    PROVE  /\ Filter(EntryOrder, types) \in Seq(HasUISetBitIOC)
           /\ Elements(Filter(EntryOrder, types)) = types \cap Range(EntryOrder)
           /\ Filter(StateOrder, types) \in Seq(HasUISetBitIOC)
  <1>1. \A T : HasUISetBitIOC \cap T \subseteq HasUISetBitIOC
    OBVIOUS
  <1>2. /\ Filter(EntryOrder, types) \in Seq(HasUISetBitIOC \cap types)
        /\ Filter(StateOrder, types) \in Seq(HasUISetBitIOC \cap types)
    BY TypeOrders, FilterType
  <1>3. Elements(Filter(EntryOrder, types)) = Elements(EntryOrder) \cap types
    BY TypeOrders, FilterElements
  <1>4. \A s : s \in Seq(HasUISetBitIOC \cap types) => s \in Seq(HasUISetBitIOC)
    BY <1>1
  <1>. QED BY <1>2, <1>3, <1>4, TypeOrders

(* writeNeteventHeader sends all axes but the last, if there are any.      *)
LEMMA NE1AxisNumbers ==
    ASSUME NEW types
    PROVE  /\ NE1Axes(types) \in Seq(0..62)
           /\ Elements(NE1Axes(types)) = IF "ABS" \in types THEN 0..62 ELSE {}
  <1>. DEFINE s == SubSeq(Axes, 1, 63)
  <1>1. NE1Axes(types) = IF "ABS" \in types THEN s ELSE <<>>
    BY DEF NE1Axes, MaxCode
  <1>2. s \in Seq(0..63) /\ Len(s) = 63 /\ \A i \in 1..63 : s[i] = i - 1
    BY AxisNumbers
  <1>. HIDE DEF s
  <1>3. s \in Seq(0..62)
    <2>1. ASSUME NEW i \in 1..63 PROVE s[i] \in 0..62
      <3>1. s[i] = i - 1
        BY <1>2, Zenon
      <3>2. i - 1 \in 0..62
        OBVIOUS
      <3>. QED BY <3>1, <3>2, Zenon
    <2>2. \A i \in 1..Len(s) : s[i] \in 0..62
      BY <1>2, <2>1
    <2>3. s \in Seq(0..63)
      BY <1>2
    <2>. QED BY <2>2, <2>3, SeqOfElements, Zenon
  <1>4. Elements(s) = {i - 1 : i \in 1..63}
    BY <1>2 DEF Elements
  <1>5. ASSUME NEW c \in 0..62 PROVE c \in {i - 1 : i \in 1..63}
    <2>1. c + 1 \in 1..63 /\ c = (c + 1) - 1
      OBVIOUS
    <2>. QED BY <2>1
  <1>6. Elements(s) = 0..62
    BY <1>4, <1>5
  <1>7. <<>> \in Seq(0..62) /\ Elements(<<>>) = {}
    BY DEF Elements
  <1>. QED BY <1>1, <1>3, <1>6, <1>7

NE1Bits(d, t) == Field("bits", t, NE1Size(t), d.codes[t])
NE1State(t) == Field("statebits", t, NE1Size(t), {})

NE1Places(p, d, es, ss, ax) ==
    /\ p \in Seq(Elements(p)) /\ Len(p) = 3 + Len(es) + Len(ss) + Len(ax) + 1
    /\ p[1] = Plain("size", 2) /\ p[2] = Field("name", "", 80 + 8, d.terminated)
    /\ p[3] = Field("evbits", "", byte_size(EV_MAX), DOMAIN d.codes)
    /\ \A j \in 1..Len(es) : p[3 + j] = NE1Bits(d, es[j])
    /\ \A j \in 1..Len(ss) : p[3 + Len(es) + j] = NE1State(ss[j])
    /\ \A j \in 1..Len(ax) : p[3 + Len(es) + Len(ss) + j] = AxisField(ax[j])
    /\ p[3 + Len(es) + Len(ss) + Len(ax) + 1] = Plain("packet", 24)

(* What writeNeteventHeader writes is placed like that.                    *)
LEMMA NE1IsPlaced ==
    ASSUME NEW d \in Devices
    PROVE  NE1Places(NE1Writes(d), d, Filter(EntryOrder, DOMAIN d.codes),
                     Filter(StateOrder, DOMAIN d.codes), NE1Axes(DOMAIN d.codes))
  <1>. DEFINE es == Filter(EntryOrder, DOMAIN d.codes)
              ss == Filter(StateOrder, DOMAIN d.codes)
              ax == NE1Axes(DOMAIN d.codes)
              n  == Len(es)
              l  == Len(ss)
              m  == Len(ax)
              a  == NE1Head(d)
              b  == [i \in 1..n |-> NE1Bits(d, es[i])]
              c  == [i \in 1..l |-> NE1State(ss[i])]
              e  == [i \in 1..m |-> AxisField(ax[i])]
              f  == <<Plain("packet", 24)>>
              q  == a \o b \o c \o e
              p  == NE1Writes(d)
  <1>1. n \in Nat /\ l \in Nat /\ m \in Nat
    BY NE1Types, NE1AxisNumbers, LenProperties
  <1>2. p = q \o f
    BY DEF NE1Writes, ForEach, NE1Bits, NE1State
  <1>3. a \in Seq(Elements(a)) /\ Len(a) = 3
        /\ a[1] = Plain("size", 2) /\ a[2] = Field("name", "", 80 + 8, d.terminated)
        /\ a[3] = Field("evbits", "", byte_size(EV_MAX), DOMAIN d.codes)
    BY ShortTuples DEF NE1Head
  <1>4. b \in Seq(Elements(b)) /\ Len(b) = n /\ \A j \in 1..n : b[j] = NE1Bits(d, es[j])
    <2>. HIDE DEF es, n
    <2>1. b = [i \in 1..n |-> b[i]] /\ \A j \in 1..n : b[j] = NE1Bits(d, es[j])
      OBVIOUS
    <2>. HIDE DEF b
    <2>. QED BY <1>1, <2>1, FunctionIsSeq
  <1>5. c \in Seq(Elements(c)) /\ Len(c) = l /\ \A j \in 1..l : c[j] = NE1State(ss[j])
    <2>. HIDE DEF ss, l
    <2>1. c = [i \in 1..l |-> c[i]] /\ \A j \in 1..l : c[j] = NE1State(ss[j])
      OBVIOUS
    <2>. HIDE DEF c
    <2>. QED BY <1>1, <2>1, FunctionIsSeq
  <1>6. e \in Seq(Elements(e)) /\ Len(e) = m /\ \A j \in 1..m : e[j] = AxisField(ax[j])
    <2>. HIDE DEF ax, m
    <2>1. e = [i \in 1..m |-> e[i]] /\ \A j \in 1..m : e[j] = AxisField(ax[j])
      OBVIOUS
    <2>. HIDE DEF e
    <2>. QED BY <1>1, <2>1, FunctionIsSeq
  <1>7. f \in Seq(Elements(f)) /\ Len(f) = 1 /\ f[1] = Plain("packet", 24)
    BY ShortTuples
  <1>8. Consists(q, a, b, c, e)
    <2>. HIDE DEF a, b, c, e
    <2>. QED BY <1>3, <1>4, <1>5, <1>6, FourParts
  <1>. HIDE DEF a, b, c, e, f, n, l, m, es, ss, ax, p, q
  <1>9. /\ q \in Seq(Elements(q)) /\ Len(q) = 3 + n + l + m
        /\ \A i \in 1..3 : q[i] = a[i]
        /\ \A i \in 1..n : q[3 + i] = b[i]
        /\ \A i \in 1..l : q[3 + n + i] = c[i]
        /\ \A i \in 1..m : q[3 + n + l + i] = e[i]
    BY <1>3, <1>4, <1>5, <1>6, <1>8 DEF Consists
  <1>10. /\ p \in Seq(Elements(p)) /\ Len(p) = 3 + n + l + m + 1
         /\ \A i \in 1..(3 + n + l + m) : p[i] = q[i]
         /\ p[3 + n + l + m + 1] = f[1]
    <2>. DEFINE S == Elements(q) \cup Elements(f)
                k == Len(q)
    <2>1. q \in Seq(S) /\ f \in Seq(S)
      BY <1>7, <1>9
    <2>. HIDE DEF S
    <2>2. /\ q \o f \in Seq(S) /\ Len(q \o f) = Len(q) + Len(f)
          /\ \A i \in 1..Len(q) : (q \o f)[i] = q[i]
          /\ \A i \in 1..Len(f) : (q \o f)[Len(q) + i] = f[i]
      BY <2>1, ConcatParts
    <2>3. p \in Seq(Elements(p))
      BY <1>2, <2>2, SeqOfElements DEF Elements
    <2>. QED BY <1>1, <1>2, <1>7, <1>9, <2>2, <2>3
  <1>11. \A j \in 1..n : p[3 + j] = NE1Bits(d, es[j])
    <2>. SUFFICES ASSUME NEW j \in 1..n PROVE p[3 + j] = NE1Bits(d, es[j])
      OBVIOUS
    <2>1. 3 + j \in 1..(3 + n + l + m)
      BY <1>1
    <2>. QED BY <1>4, <1>9, <1>10, <2>1
  <1>12. \A j \in 1..l : p[3 + n + j] = NE1State(ss[j])
    <2>. SUFFICES ASSUME NEW j \in 1..l PROVE p[3 + n + j] = NE1State(ss[j])
      OBVIOUS
    <2>1. 3 + n + j \in 1..(3 + n + l + m)
      BY <1>1
    <2>. QED BY <1>5, <1>9, <1>10, <2>1
  <1>13. \A j \in 1..m : p[3 + n + l + j] = AxisField(ax[j])
    <2>. SUFFICES ASSUME NEW j \in 1..m PROVE p[3 + n + l + j] = AxisField(ax[j])
      OBVIOUS
    <2>1. 3 + n + l + j \in 1..(3 + n + l + m)
      BY <1>1
    <2>. QED BY <1>6, <1>9, <1>10, <2>1
  <1>14. p[1] = a[1] /\ p[2] = a[2] /\ p[3] = a[3]
    <2>1. 1 \in 1..(3 + n + l + m) /\ 2 \in 1..(3 + n + l + m) /\ 3 \in 1..(3 + n + l + m)
      BY <1>1
    <2>. QED BY <1>9, <1>10, <2>1
  <1>. QED BY <1>3, <1>7, <1>10, <1>11, <1>12, <1>13, <1>14
           DEF NE1Places, es, ss, ax, n, l, m, p

-----------------------------------------------------------------------------
(* The inductive invariant.                                                *)

HeadLen(q) == IF q = "NE2" THEN 4 ELSE 3     \* the fields up to the event types
BitsEnd(d) == 4 + 2 * Len(WithBits(DOMAIN d.codes))

WantOf(f) == Want(f.what, f.of)
AllWants(p) == [i \in 1..Len(p) |-> WantOf(p[i])]
Wants(p, k, n) == SubSeq(AllWants(p), k + 1, n)

(* Of what the first k fields of a kind are.                               *)
Seen(p, k, what) == {p[i].of : i \in {j \in 1..k : p[j].what = what}}

(* The stream is what is written and not read, from the k-th to the m-th.  *)
SenderAt(p, k, m) ==
    /\ stream = SubSeq(p, k + 1, m)
    /\ ~closed => writes = SubSeq(p, m + 1, Len(p))

(* The reader wants what follows the k-th field: up to the event types; in *)
(* netevent 2 all but the axes until it has the bits of ABS; everything up *)
(* to the next packet; and after that nothing but packets.                 *)
AbsUnseen(q, d, p, k) == q = "NE2" /\ "ABS" \in DOMAIN d.codes /\ "ABS" \notin Seen(p, k, "bits")

StateWant  == Want("state", "")
PacketWant == Want("packet", "")

ReaderWants(q, d, p, k, w) ==
    \/ k < HeadLen(q) /\ w = Wants(p, k, HeadLen(q))
    \/ /\ HeadLen(q) <= k /\ AbsUnseen(q, d, p, k)
       /\ w = Wants(p, k, BitsEnd(d)) \o <<StateWant>>
    \/ /\ HeadLen(q) <= k /\ k < Len(p) /\ ~AbsUnseen(q, d, p, k)
       /\ w = Wants(p, k, Len(p) - 1)
    \/ /\ Len(p) - 1 <= k /\ ~AbsUnseen(q, d, p, k)
       /\ w \in {<<>>, <<PacketWant>>}

CountAt(p, k) ==
    /\ count \in Counts
    /\ k \in 1..Len(p) /\ p[k].what = "count" => count = p[k].value

(* What is made of the device is what the first k fields say.              *)
TypesSeen(k) == IF HeadLen(protocol) <= k THEN DOMAIN device.codes \ {"FF"} ELSE {}
CodesSeen(p, k, t) == IF t \in Seen(p, k, "bits") THEN Expected(t) ELSE {}

Thing(types, codes, axes) == [types |-> types, codes |-> codes, axes |-> axes]
Described(p, k) ==
    Thing(TypesSeen(k), [t \in HasUISetBitIOC |-> CodesSeen(p, k, t)],
          Seen(p, k, "axis") \cap Expected("ABS"))

MadeAt(p, k) == made = IF skip THEN Nobody ELSE Described(p, k)

CreatedAt(p, k) == created => ~skip /\ Len(p) - 1 <= k

At(p, k, m) ==
    /\ SenderAt(p, k, m) /\ ReaderWants(protocol, device, p, k, wanted)
    /\ CountAt(p, k) /\ MadeAt(p, k) /\ CreatedAt(p, k)

InPlan(p) == \E m \in 0..Len(p) : \E k \in 0..m : At(p, k, m)

Typed ==
    /\ protocol \in {"NE1", "NE2"} /\ skip \in BOOLEAN /\ device \in Devices
    /\ protocol = "NE1" => ~skip
    /\ closed \in BOOLEAN /\ lost \in BOOLEAN /\ created \in BOOLEAN
    /\ pc \in {"reading", "failed", "ended"}

IInv == Typed /\ misread = FALSE /\ \E L \in LongBits : InPlan(Plan(protocol, device, L))

-----------------------------------------------------------------------------
(* What is known of each field of a plan.                                  *)

Protocols == {"NE1", "NE2"}

(* A type the plan has bits of.                                            *)
SentTypes(q, d) ==
    DOMAIN d.codes \cap IF q = "NE2" THEN HasUISetBitIOC ELSE Range(EntryOrder)

NE2Kind(p, d, i) ==
    \/ i = 1 /\ p[i] = Plain("packet", 28)
    \/ i = 2 /\ p[i] = Field("name", "", 80 + 8, d.terminated)
    \/ i = 3 /\ p[i] = Field("evbitsize", "", 2, EV_MAX)
    \/ i = 4 /\ p[i] = Field("evbits", "", byte_size(EV_MAX), DOMAIN d.codes)
    \/ /\ 4 < i /\ i < Len(p) - 1
       /\ \E t \in SentTypes("NE2", d), n \in BitCounts : p[i] = Field("count", t, 2, n)
    \/ /\ 5 < i /\ i < Len(p) - 1
       /\ \E t \in SentTypes("NE2", d), n \in BitCounts, b \in FieldSizes :
             /\ b = byte_size(n) /\ p[i - 1] = Field("count", t, 2, n)
             /\ p[i] = Field("bits", t, b, d.codes[t])
    \/ /\ 4 < i /\ i < Len(p) - 1 /\ "ABS" \in Seen(p, i - 1, "bits")
       /\ \E c \in 0..63 : p[i] = AxisField(c)
    \/ i = Len(p) - 1 /\ p[i] = Plain("state", byte_size(EV_MAX))
    \/ i = Len(p) /\ p[i] = Plain("packet", 28)

NE1Kind(p, d, i) ==
    \/ i = 1 /\ p[i] = Plain("size", 2)
    \/ i = 2 /\ p[i] = Field("name", "", 80 + 8, d.terminated)
    \/ i = 3 /\ p[i] = Field("evbits", "", byte_size(EV_MAX), DOMAIN d.codes)
    \/ 3 < i /\ i < Len(p) /\ \E t \in SentTypes("NE1", d) : p[i] = NE1Bits(d, t)
    \/ 3 < i /\ i < Len(p) /\ \E t \in HasUISetBitIOC : p[i] = NE1State(t)
    \/ /\ 3 < i /\ i < Len(p) /\ "ABS" \in Seen(p, i - 1, "bits")
       /\ \E c \in 0..63 : p[i] = AxisField(c)
    \/ i = Len(p) /\ p[i] = Plain("packet", 24)

(* Devices have the codes of their types.                                  *)
LEMMA DeviceCodes ==
    ASSUME NEW d \in Devices, NEW t \in HasUISetBitIOC, t \in DOMAIN d.codes
    PROVE  d.codes[t] \subseteq 0..MaxCode[t]
  BY WireAssumption

(* Those of its axes are below 64.                                         *)
LEMMA AxisCodes ==
    ASSUME NEW d \in Devices, "ABS" \in DOMAIN d.codes
    PROVE  d.codes["ABS"] \subseteq 0..63
  <1>1. "ABS" \in HasUISetBitIOC
    BY TypeOrders
  <1>2. MaxCode["ABS"] = 63
    BY <1>1, CodeNumbers
  <1>3. d.codes["ABS"] \subseteq 0..MaxCode["ABS"]
    BY <1>1, DeviceCodes, Zenon
  <1>. QED BY <1>2, <1>3

(* So its bits are all of them.                                            *)
LEMMA AllBits ==
    ASSUME NEW d \in Devices, NEW L \in LongBits, NEW t \in SentTypes("NE2", d)
    PROVE  \E n \in BitCounts, b \in FieldSizes :
              /\ b = byte_size(n) /\ n = BitLength(t, L)
              /\ CountField(t, L) = Field("count", t, 2, n)
              /\ BitsField(d, t, L) = Field("bits", t, b, d.codes[t])
  <1>1. t \in HasUISetBitIOC /\ t \in DOMAIN d.codes
    BY DEF SentTypes
  <1>2. PICK mc \in 7..767 : mc = MaxCode[t]
    BY <1>1, CodeNumbers
  <1>3. PICK n \in BitCounts : n = BitLength(t, L) /\ mc < n
    BY <1>1, <1>2, LongsHoldAll, Zenon
  <1>4. n \in Int
    BY DEF BitCounts
  <1>5. PICK b \in FieldSizes : b = byte_size(n)
    BY <1>3, SmallBytes, Zenon
  <1>6. d.codes[t] \cap 0..(n - 1) = d.codes[t]
    <2>1. 0..mc \subseteq 0..(n - 1)
      BY <1>3, <1>4
    <2>2. d.codes[t] \subseteq 0..mc
      BY <1>1, <1>2, DeviceCodes
    <2>. QED BY <2>1, <2>2
  <1>7. n = BitLength(t, L) /\ b = byte_size(n) /\ n \in BitCounts
    BY <1>3, <1>5, Zenon
  <1>8. CountField(t, L) = Field("count", t, 2, n)
    BY <1>7, Zenon DEF CountField
  <1>9. BitsField(d, t, L) = Field("bits", t, b, d.codes[t])
    BY <1>6, <1>7, Zenon DEF BitsField
  <1>. QED BY <1>7, <1>8, <1>9, Zenon

(* A sequence has each of its elements somewhere.                          *)
LEMMA PlaceOf ==
    ASSUME NEW s, NEW x \in Elements(s)
    PROVE  \E j \in 1..Len(s) : s[j] = x
  BY DEF Elements

(* What is at a place is an element.                                       *)
LEMMA ElementAt ==
    ASSUME NEW S, NEW s \in Seq(S), NEW j \in 1..Len(s)
    PROVE  s[j] \in Elements(s)
  BY DEF Elements

(* What a field among the first k is of has been seen.                     *)
LEMMA SeenOne ==
    ASSUME NEW p, NEW k \in Nat, NEW j \in 1..k, NEW what, p[j].what = what
    PROVE  p[j].of \in Seen(p, k, what)
  BY DEF Seen

(* Of the types of netevent 2, each is counted once, before its bits, and  *)
(* all bits are before the axes.                                           *)
LEMMA NE2BitsFirst ==
    ASSUME NEW d \in Devices, NEW L \in LongBits, NEW p, p = NE2Writes(d, L)
    PROVE  /\ p \in Seq(Elements(p)) /\ Len(p) \in Nat /\ BitsEnd(d) \in 4..(Len(p) - 2)
           /\ \A t \in SentTypes("NE2", d) : \E j \in 6..BitsEnd(d) : p[j] = BitsField(d, t, L)
           /\ \A k \in Nat : BitsEnd(d) <= k => SentTypes("NE2", d) \subseteq Seen(p, k, "bits")
  <1>. DEFINE ts == WithBits(DOMAIN d.codes)
              ax == Filter(Axes, AxesOf(d))
              n  == Len(ts)
              m  == Len(ax)
  <1>1. n \in Nat /\ m \in Nat /\ Elements(ts) = SentTypes("NE2", d)
    BY BitTypes, AxesInOrder, LenProperties DEF SentTypes
  <1>2. NE2Places(p, d, L, ts, ax)
    BY NE2IsPlaced
  <1>. HIDE DEF ts, ax
  <1>3. p \in Seq(Elements(p)) /\ Len(p) = 4 + 2 * n + m + 2 /\ BitsEnd(d) = 4 + 2 * n
    BY <1>2 DEF NE2Places, BitsEnd, ts
  <1>4. ASSUME NEW t \in SentTypes("NE2", d)
        PROVE  \E j \in 6..BitsEnd(d) : p[j] = BitsField(d, t, L)
    <2>1. PICK j \in 1..n : ts[j] = t
      BY <1>1, PlaceOf
    <2>2. p[4 + 2 * j] = BitsField(d, t, L)
      BY <1>2, <2>1 DEF NE2Places
    <2>3. 4 + 2 * j \in 6..BitsEnd(d)
      BY <1>1, <1>3
    <2>. QED BY <2>2, <2>3
  <1>5. ASSUME NEW k \in Nat, BitsEnd(d) <= k, NEW t \in SentTypes("NE2", d)
        PROVE  t \in Seen(p, k, "bits")
    <2>1. PICK j \in 6..BitsEnd(d) : p[j] = BitsField(d, t, L)
      BY <1>4
    <2>2. j \in 1..k
      BY <1>1, <1>3, <1>5
    <2>3. p[j].what = "bits" /\ p[j].of = t
      BY <2>1 DEF BitsField, Field
    <2>. QED BY <2>2, <2>3, SeenOne
  <1>. QED BY <1>1, <1>3, <1>4, <1>5

(* Each field of netevent 2 is of one of these kinds.                      *)
LEMMA NE2Kinds ==
    ASSUME NEW d \in Devices, NEW L \in LongBits, NEW p, p = NE2Writes(d, L),
           NEW i \in 1..Len(p)
    PROVE  NE2Kind(p, d, i)
  <1>. DEFINE ts == WithBits(DOMAIN d.codes)
              ax == Filter(Axes, AxesOf(d))
              n  == Len(ts)
              m  == Len(ax)
  <1>1. /\ n \in Nat /\ m \in Nat /\ ts \in Seq(HasUISetBitIOC) /\ ax \in Seq(0..63)
        /\ Elements(ts) = SentTypes("NE2", d) /\ Elements(ax) = AxesOf(d) \cap 0..63
    BY BitTypes, AxesInOrder, LenProperties DEF SentTypes
  <1>2. NE2Places(p, d, L, ts, ax)
    BY NE2IsPlaced
  <1>. HIDE DEF ts, ax
  <1>3. Len(p) = 4 + 2 * n + m + 2 /\ BitsEnd(d) = 4 + 2 * n
    BY <1>2 DEF NE2Places, BitsEnd, ts
  <1>4. CASE i \in 1..4
    <2>1. i = 1 \/ i = 2 \/ i = 3 \/ i = 4
      BY <1>4
    <2>. QED BY <1>2, <2>1, Zenon DEF NE2Places, NE2Kind
  <1>5. ASSUME NEW j \in 1..n, i = 4 + (2 * j - 1) \/ i = 4 + 2 * j PROVE NE2Kind(p, d, i)
    <2>1. ts[j] \in SentTypes("NE2", d)
      BY <1>1, ElementAt
    <2>2. PICK c \in BitCounts, b \in FieldSizes :
              /\ b = byte_size(c) /\ CountField(ts[j], L) = Field("count", ts[j], 2, c)
              /\ BitsField(d, ts[j], L) = Field("bits", ts[j], b, d.codes[ts[j]])
      BY <2>1, AllBits, Zenon
    <2>3. /\ p[4 + (2 * j - 1)] = Field("count", ts[j], 2, c)
          /\ p[4 + 2 * j] = Field("bits", ts[j], b, d.codes[ts[j]])
      BY <1>2, <2>2, Zenon DEF NE2Places
    <2>4. CASE i = 4 + (2 * j - 1)
      <3>1. 4 < i /\ i < Len(p) - 1
        BY <1>1, <1>3, <2>4
      <3>. QED BY <2>1, <2>3, <2>4, <3>1, Zenon DEF NE2Kind
    <2>5. CASE i = 4 + 2 * j
      <3>1. 5 < i /\ i < Len(p) - 1 /\ i - 1 = 4 + (2 * j - 1)
        BY <1>1, <1>3, <2>5
      <3>. QED BY <2>1, <2>2, <2>3, <2>5, <3>1, Zenon DEF NE2Kind
    <2>. QED BY <1>5, <2>4, <2>5
  <1>6. ASSUME NEW j \in 1..m, i = 4 + 2 * n + j PROVE NE2Kind(p, d, i)
    <2>1. p[i] = AxisField(ax[j]) /\ ax[j] \in 0..63 /\ ax[j] \in AxesOf(d)
      <3>1. ax[j] \in Elements(ax)
        BY <1>1, ElementAt
      <3>. QED BY <1>1, <1>2, <1>6, <3>1 DEF NE2Places
    <2>2. "ABS" \in SentTypes("NE2", d)
      BY <2>1, TypeOrders DEF AxesOf, SentTypes
    <2>3. i - 1 \in Nat /\ BitsEnd(d) <= i - 1 /\ 4 < i /\ i < Len(p) - 1
      BY <1>1, <1>3, <1>6
    <2>4. "ABS" \in Seen(p, i - 1, "bits")
      BY <2>2, <2>3, NE2BitsFirst
    <2>. QED BY <2>1, <2>3, <2>4, Zenon DEF NE2Kind
  <1>7. CASE i = 4 + 2 * n + m + 1
    <2>1. i = Len(p) - 1
      BY <1>1, <1>3, <1>7
    <2>. QED BY <1>2, <1>7, <2>1, Zenon DEF NE2Places, NE2Kind
  <1>8. CASE i = 4 + 2 * n + m + 2
    <2>1. i = Len(p)
      BY <1>3, <1>8
    <2>. QED BY <1>2, <1>8, <2>1, Zenon DEF NE2Places, NE2Kind
  <1>9. CASE i \in 5..(4 + 2 * n)
    <2>1. i - 4 \in 1..(2 * n)
      BY <1>1, <1>9
    <2>2. PICK j \in 1..n : i - 4 = 2 * j - 1 \/ i - 4 = 2 * j
      BY <1>1, <2>1, PairPlaces
    <2>. QED BY <1>1, <1>5, <2>2
  <1>10. CASE i \in (4 + 2 * n + 1)..(4 + 2 * n + m)
    <2>1. i - (4 + 2 * n) \in 1..m /\ i = 4 + 2 * n + (i - (4 + 2 * n))
      BY <1>1, <1>10
    <2>. QED BY <1>6, <2>1
  <1>11. \/ i \in 1..4 \/ i \in 5..(4 + 2 * n) \/ i \in (4 + 2 * n + 1)..(4 + 2 * n + m)
         \/ i = 4 + 2 * n + m + 1 \/ i = 4 + 2 * n + m + 2
    <2>. DEFINE x == 2 * n
    <2>1. x \in Nat
      BY <1>1
    <2>. HIDE DEF x
    <2>2. i \in Int /\ 1 <= i /\ i <= 4 + x + m + 2
      BY <1>1, <1>3, <2>1 DEF x
    <2>3. \/ i \in 1..4 \/ i \in 5..(4 + x) \/ i \in (4 + x + 1)..(4 + x + m)
          \/ i = 4 + x + m + 1 \/ i = 4 + x + m + 2
      BY <1>1, <2>1, <2>2
    <2>. QED BY <2>3, Zenon DEF x
  <1>. QED BY <1>4, <1>7, <1>8, <1>9, <1>10, <1>11

(* The same of netevent 1: all bits are before the states and the axes.    *)
LEMMA NE1BitsFirst ==
    ASSUME NEW d \in Devices, NEW p, p = NE1Writes(d),
           NEW es, es = Filter(EntryOrder, DOMAIN d.codes)
    PROVE  /\ p \in Seq(Elements(p)) /\ Len(p) \in Nat /\ 3 + Len(es) \in 3..(Len(p) - 1)
           /\ \A k \in Nat : 3 + Len(es) <= k => SentTypes("NE1", d) \subseteq Seen(p, k, "bits")
  <1>. DEFINE ss == Filter(StateOrder, DOMAIN d.codes)
              ax == NE1Axes(DOMAIN d.codes)
              n  == Len(es)
              l  == Len(ss)
              m  == Len(ax)
  <1>1. n \in Nat /\ l \in Nat /\ m \in Nat /\ Elements(es) = SentTypes("NE1", d)
    BY NE1Types, NE1AxisNumbers, LenProperties DEF SentTypes
  <1>2. NE1Places(p, d, es, ss, ax)
    BY NE1IsPlaced
  <1>. HIDE DEF ss, ax
  <1>3. p \in Seq(Elements(p)) /\ Len(p) = 3 + n + l + m + 1
    BY <1>2 DEF NE1Places
  <1>4. ASSUME NEW k \in Nat, 3 + n <= k, NEW t \in SentTypes("NE1", d)
        PROVE  t \in Seen(p, k, "bits")
    <2>1. PICK j \in 1..n : es[j] = t
      BY <1>1, PlaceOf
    <2>2. p[3 + j] = NE1Bits(d, t)
      BY <1>2, <2>1 DEF NE1Places
    <2>3. 3 + j \in 1..k
      BY <1>1, <1>4
    <2>4. p[3 + j].what = "bits" /\ p[3 + j].of = t
      BY <2>2 DEF NE1Bits, Field
    <2>. QED BY <2>3, <2>4, SeenOne
  <1>5. Len(p) \in Nat /\ 3 + n \in 3..(Len(p) - 1)
    BY <1>1, <1>3
  <1>. QED BY <1>3, <1>4, <1>5

(* Each field of netevent 1 is of one of these kinds.                      *)
LEMMA NE1Kinds ==
    ASSUME NEW d \in Devices, NEW p, p = NE1Writes(d), NEW i \in 1..Len(p)
    PROVE  NE1Kind(p, d, i)
  <1>. DEFINE es == Filter(EntryOrder, DOMAIN d.codes)
              ss == Filter(StateOrder, DOMAIN d.codes)
              ax == NE1Axes(DOMAIN d.codes)
              n  == Len(es)
              l  == Len(ss)
              m  == Len(ax)
  <1>1. /\ n \in Nat /\ l \in Nat /\ m \in Nat
        /\ es \in Seq(HasUISetBitIOC) /\ ss \in Seq(HasUISetBitIOC) /\ ax \in Seq(0..62)
        /\ Elements(es) = SentTypes("NE1", d)
        /\ Elements(ax) = IF "ABS" \in DOMAIN d.codes THEN 0..62 ELSE {}
    BY NE1Types, NE1AxisNumbers, LenProperties DEF SentTypes
  <1>2. NE1Places(p, d, es, ss, ax)
    BY NE1IsPlaced
  <1>3. \A k \in Nat : 3 + n <= k => SentTypes("NE1", d) \subseteq Seen(p, k, "bits")
    <2>. HIDE DEF ss, ax
    <2>. QED BY NE1BitsFirst
  <1>. HIDE DEF es, ss, ax
  <1>4. Len(p) = 3 + n + l + m + 1
    BY <1>2 DEF NE1Places
  <1>5. CASE i \in 1..3
    <2>1. i = 1 \/ i = 2 \/ i = 3
      BY <1>5
    <2>. QED BY <1>2, <2>1, Zenon DEF NE1Places, NE1Kind
  <1>6. CASE i \in 4..(3 + n)
    <2>1. PICK j \in 1..n : i = 3 + j
      <3>1. i - 3 \in 1..n /\ i = 3 + (i - 3)
        BY <1>1, <1>6
      <3>. QED BY <3>1
    <2>2. es[j] \in SentTypes("NE1", d) /\ p[i] = NE1Bits(d, es[j])
      <3>1. es[j] \in Elements(es)
        BY <1>1, ElementAt
      <3>. QED BY <1>1, <1>2, <2>1, <3>1 DEF NE1Places
    <2>3. 3 < i /\ i < Len(p)
      BY <1>1, <1>4, <2>1
    <2>. QED BY <2>2, <2>3, Zenon DEF NE1Kind
  <1>7. CASE i \in (3 + n + 1)..(3 + n + l)
    <2>1. PICK j \in 1..l : i = 3 + n + j
      <3>1. i - (3 + n) \in 1..l /\ i = 3 + n + (i - (3 + n))
        BY <1>1, <1>7
      <3>. QED BY <3>1
    <2>2. ss[j] \in HasUISetBitIOC /\ p[i] = NE1State(ss[j])
      <3>1. ss[j] \in HasUISetBitIOC
        BY <1>1, ElementOfSeq
      <3>. QED BY <1>2, <2>1, <3>1 DEF NE1Places
    <2>3. 3 < i /\ i < Len(p)
      BY <1>1, <1>4, <2>1
    <2>. QED BY <2>2, <2>3, Zenon DEF NE1Kind
  <1>8. CASE i \in (3 + n + l + 1)..(3 + n + l + m)
    <2>1. PICK j \in 1..m : i = 3 + n + l + j
      <3>1. i - (3 + n + l) \in 1..m /\ i = 3 + n + l + (i - (3 + n + l))
        BY <1>1, <1>8
      <3>. QED BY <3>1
    <2>2. p[i] = AxisField(ax[j])
      BY <1>2, <2>1 DEF NE1Places
    <2>3. ax[j] \in 0..63 /\ "ABS" \in DOMAIN d.codes
      <3>1. ax[j] \in Elements(ax) /\ ax[j] \in 0..62
        BY <1>1, ElementAt, ElementOfSeq
      <3>. QED BY <1>1, <3>1
    <2>4. "ABS" \in SentTypes("NE1", d)
      BY <2>3, TypeOrders DEF SentTypes, EntryOrder, Elements, Range
    <2>5. i - 1 \in Nat /\ 3 + n <= i - 1 /\ 3 < i /\ i < Len(p)
      BY <1>1, <1>4, <2>1
    <2>6. "ABS" \in Seen(p, i - 1, "bits")
      BY <1>3, <2>4, <2>5
    <2>. QED BY <2>2, <2>3, <2>5, <2>6, Zenon DEF NE1Kind
  <1>9. CASE i = 3 + n + l + m + 1
    <2>1. i = Len(p)
      BY <1>4, <1>9
    <2>. QED BY <1>2, <1>9, <2>1, Zenon DEF NE1Places, NE1Kind
  <1>10. \/ i \in 1..3 \/ i \in 4..(3 + n) \/ i \in (3 + n + 1)..(3 + n + l)
         \/ i \in (3 + n + l + 1)..(3 + n + l + m) \/ i = 3 + n + l + m + 1
    BY <1>1, <1>4
  <1>. QED BY <1>5, <1>6, <1>7, <1>8, <1>9, <1>10

(* What a reader can rely on in the i-th field, in either protocol.        *)
Known(q, p, d, i) ==
    /\ p[i].size \in FieldSizes
    /\ p[i].what = "evbits" <=> i = HeadLen(q)
    /\ p[i].what = "evbits" => p[i].of = "" /\ p[i].value = DOMAIN d.codes
    /\ p[i].what = "count" => p[i].value \in BitCounts
    /\ p[i].what = "bits" => p[i].of \in SentTypes(q, d) /\ p[i].value = d.codes[p[i].of]
    /\ p[i].what = "axis" => p[i].of \in 0..63 /\ "ABS" \in Seen(p, i - 1, "bits")
    /\ p[i].what \in {"count", "bits", "axis"} => HeadLen(q) < i
    /\ i = Len(p) => p[i].what = "packet" /\ p[i].of = ""

(* The parts of a field.                                                   *)
HasParts(f, what, of, size, value) ==
    f.what = what /\ f.of = of /\ f.size = size /\ f.value = value

(* A field has the parts it is made of.                                    *)
LEMMA FieldParts ==
    ASSUME NEW what, NEW of, NEW size, NEW value
    PROVE  HasParts(Field(what, of, size, value), what, of, size, value)
  BY DEF Field, HasParts

(* So has one that has only a size.                                        *)
LEMMA PlainParts ==
    ASSUME NEW what, NEW size
    PROVE  HasParts(Plain(what, size), what, "", size, {})
  BY FieldParts, Zenon DEF Plain

(* Bits are sent only for types that have codes.                           *)
LEMMA SentTypesKnown ==
    ASSUME NEW q \in Protocols, NEW d
    PROVE  SentTypes(q, d) \subseteq HasUISetBitIOC
  <1>1. ASSUME NEW t \in Elements(EntryOrder) PROVE t \in HasUISetBitIOC
    <2>1. PICK j \in 1..Len(EntryOrder) : EntryOrder[j] = t
      BY PlaceOf
    <2>2. EntryOrder[j] \in HasUISetBitIOC
      BY TypeOrders, ElementOfSeq
    <2>. QED BY <2>1, <2>2
  <1>. QED BY <1>1, TypeOrders DEF SentTypes

(* The sizes of fields are small.                                          *)
LEMMA SmallSizes ==
    /\ 2 \in FieldSizes /\ 24 \in FieldSizes /\ 28 \in FieldSizes /\ 80 + 8 \in FieldSizes
    /\ byte_size(EV_MAX) \in FieldSizes
    /\ \A t \in HasUISetBitIOC : NE1Size(t) \in FieldSizes
  <1>1. /\ 2 \in FieldSizes /\ 24 \in FieldSizes /\ 28 \in FieldSizes
        /\ 80 + 8 \in FieldSizes /\ 4 \in FieldSizes
    BY DEF FieldSizes
  <1>2. byte_size(EV_MAX) = 4
    BY EventTypeBytes
  <1>3. \A t \in HasUISetBitIOC : NE1Size(t) \in FieldSizes
    BY BytesByMax, Zenon
  <1>. QED BY <1>1, <1>2, <1>3

(* A field that nothing depends on.                                        *)
LEMMA PlainKnown ==
    ASSUME NEW q, NEW p, NEW d, NEW i, p[i].size \in FieldSizes, i # HeadLen(q),
           p[i].what \in {"packet", "size", "name", "evbitsize", "state", "statebits"},
           i = Len(p) => p[i].what = "packet" /\ p[i].of = ""
    PROVE  Known(q, p, d, i)
  BY Zenon DEF Known

(* What is known of the fields of netevent 2.                              *)
LEMMA NE2Known ==
    ASSUME NEW d, NEW p, Len(p) \in Nat, 4 < Len(p) - 1, NEW i \in 1..Len(p)
    PROVE  NE2Kind(p, d, i) => Known("NE2", p, d, i)
  <1>1. HeadLen("NE2") = 4
    BY DEF HeadLen
  <1>2. /\ i \in {1, 2, 3} => i # 4 /\ i # Len(p)
        /\ i = 4 => i # Len(p)
        /\ 4 < i => i # 4
        /\ 5 < i => 4 < i /\ i # 4
        /\ i < Len(p) - 1 => i # Len(p)
        /\ i = Len(p) - 1 => i # 4 /\ i # Len(p)
        /\ i = Len(p) => i # 4
    OBVIOUS
  <1>3. CASE i = 1 /\ p[i] = Plain("packet", 28)
    <2>0. HasParts(p[i], "packet", "", 28, {})
      BY <1>3, PlainParts, Zenon
    <2>1. p[i].what = "packet" /\ p[i].size = 28
      BY <2>0, Zenon DEF HasParts
    <2>. QED BY <1>1, <1>2, <1>3, <2>1, PlainKnown, SmallSizes, Zenon
  <1>4. CASE i = 2 /\ p[i] = Field("name", "", 80 + 8, d.terminated)
    <2>0. HasParts(p[i], "name", "", 80 + 8, d.terminated)
      BY <1>4, FieldParts, Zenon
    <2>1. p[i].what = "name" /\ p[i].size = 80 + 8
      BY <2>0, Zenon DEF HasParts
    <2>. QED BY <1>1, <1>2, <1>4, <2>1, PlainKnown, SmallSizes, Zenon
  <1>5. CASE i = 3 /\ p[i] = Field("evbitsize", "", 2, EV_MAX)
    <2>0. HasParts(p[i], "evbitsize", "", 2, EV_MAX)
      BY <1>5, FieldParts, Zenon
    <2>1. p[i].what = "evbitsize" /\ p[i].size = 2
      BY <2>0, Zenon DEF HasParts
    <2>. QED BY <1>1, <1>2, <1>5, <2>1, PlainKnown, SmallSizes, Zenon
  <1>6. CASE i = 4 /\ p[i] = Field("evbits", "", byte_size(EV_MAX), DOMAIN d.codes)
    <2>0. HasParts(p[i], "evbits", "", byte_size(EV_MAX), DOMAIN d.codes)
      BY <1>6, FieldParts, Zenon
    <2>1. /\ p[i].what = "evbits" /\ p[i].of = "" /\ p[i].value = DOMAIN d.codes
          /\ p[i].size = byte_size(EV_MAX)
      BY <2>0, Zenon DEF HasParts
    <2>. QED BY <1>1, <1>2, <1>6, <2>1, SmallSizes, Zenon DEF Known
  <1>7. CASE /\ 4 < i /\ i < Len(p) - 1
             /\ \E t \in SentTypes("NE2", d), n \in BitCounts : p[i] = Field("count", t, 2, n)
    <2>1. PICK t \in SentTypes("NE2", d), n \in BitCounts : p[i] = Field("count", t, 2, n)
      BY <1>7
    <2>2. p[i].what = "count" /\ p[i].of = t /\ p[i].value = n /\ p[i].size = 2
      BY <2>1 DEF Field
    <2>. QED BY <1>1, <1>2, <1>7, <2>2, SmallSizes, Zenon DEF Known
  <1>8. CASE /\ 5 < i /\ i < Len(p) - 1
             /\ \E t \in SentTypes("NE2", d), n \in BitCounts, b \in FieldSizes :
                   /\ b = byte_size(n) /\ p[i - 1] = Field("count", t, 2, n)
                   /\ p[i] = Field("bits", t, b, d.codes[t])
    <2>1. PICK t \in SentTypes("NE2", d), n \in BitCounts, b \in FieldSizes :
                   p[i] = Field("bits", t, b, d.codes[t])
      BY <1>8
    <2>2. p[i].what = "bits" /\ p[i].of = t /\ p[i].value = d.codes[t] /\ p[i].size = b
      BY <2>1 DEF Field
    <2>. QED BY <1>1, <1>2, <1>8, <2>2, Zenon DEF Known
  <1>9. CASE /\ 4 < i /\ i < Len(p) - 1 /\ "ABS" \in Seen(p, i - 1, "bits")
             /\ \E c \in 0..63 : p[i] = AxisField(c)
    <2>1. PICK c \in 0..63 : p[i] = AxisField(c)
      BY <1>9
    <2>2. p[i].what = "axis" /\ p[i].of = c /\ p[i].size = 24
      BY <2>1 DEF Field, AxisField
    <2>. QED BY <1>1, <1>2, <1>9, <2>2, SmallSizes, Zenon DEF Known
  <1>10. CASE i = Len(p) - 1 /\ p[i] = Plain("state", byte_size(EV_MAX))
    <2>0. HasParts(p[i], "state", "", byte_size(EV_MAX), {})
      BY <1>10, PlainParts, Zenon
    <2>1. p[i].what = "state" /\ p[i].size = byte_size(EV_MAX)
      BY <2>0, Zenon DEF HasParts
    <2>. QED BY <1>1, <1>2, <1>10, <2>1, PlainKnown, SmallSizes, Zenon
  <1>11. CASE i = Len(p) /\ p[i] = Plain("packet", 28)
    <2>0. HasParts(p[i], "packet", "", 28, {})
      BY <1>11, PlainParts, Zenon
    <2>1. p[i].what = "packet" /\ p[i].of = "" /\ p[i].size = 28
      BY <2>0, Zenon DEF HasParts
    <2>. QED BY <1>1, <1>2, <1>11, <2>1, PlainKnown, SmallSizes, Zenon
  <1>. QED BY <1>3, <1>4, <1>5, <1>6, <1>7, <1>8, <1>9, <1>10, <1>11, Zenon DEF NE2Kind

(* And of netevent 1.                                                      *)
LEMMA NE1Known ==
    ASSUME NEW d, NEW p, Len(p) \in Nat, 3 < Len(p), NEW i \in 1..Len(p)
    PROVE  NE1Kind(p, d, i) => Known("NE1", p, d, i)
  <1>1. HeadLen("NE1") = 3
    BY DEF HeadLen
  <1>2. /\ i \in {1, 2} => i # 3 /\ i # Len(p)
        /\ i = 3 => i # Len(p)
        /\ 3 < i => i # 3
        /\ i < Len(p) => i # Len(p)
        /\ i = Len(p) => i # 3
    OBVIOUS
  <1>3. CASE i = 1 /\ p[i] = Plain("size", 2)
    <2>0. HasParts(p[i], "size", "", 2, {})
      BY <1>3, PlainParts, Zenon
    <2>1. p[i].what = "size" /\ p[i].size = 2
      BY <2>0, Zenon DEF HasParts
    <2>. QED BY <1>1, <1>2, <1>3, <2>1, PlainKnown, SmallSizes, Zenon
  <1>4. CASE i = 2 /\ p[i] = Field("name", "", 80 + 8, d.terminated)
    <2>0. HasParts(p[i], "name", "", 80 + 8, d.terminated)
      BY <1>4, FieldParts, Zenon
    <2>1. p[i].what = "name" /\ p[i].size = 80 + 8
      BY <2>0, Zenon DEF HasParts
    <2>. QED BY <1>1, <1>2, <1>4, <2>1, PlainKnown, SmallSizes, Zenon
  <1>5. CASE i = 3 /\ p[i] = Field("evbits", "", byte_size(EV_MAX), DOMAIN d.codes)
    <2>0. HasParts(p[i], "evbits", "", byte_size(EV_MAX), DOMAIN d.codes)
      BY <1>5, FieldParts, Zenon
    <2>1. /\ p[i].what = "evbits" /\ p[i].of = "" /\ p[i].value = DOMAIN d.codes
          /\ p[i].size = byte_size(EV_MAX)
      BY <2>0, Zenon DEF HasParts
    <2>. QED BY <1>1, <1>2, <1>5, <2>1, SmallSizes, Zenon DEF Known
  <1>6. CASE 3 < i /\ i < Len(p) /\ \E t \in SentTypes("NE1", d) : p[i] = NE1Bits(d, t)
    <2>1. PICK t \in SentTypes("NE1", d) : p[i] = NE1Bits(d, t)
      BY <1>6
    <2>2. /\ p[i].what = "bits" /\ p[i].of = t /\ p[i].value = d.codes[t]
          /\ p[i].size = NE1Size(t)
      BY <2>1 DEF Field, NE1Bits
    <2>3. t \in HasUISetBitIOC
      BY SentTypesKnown DEF Protocols
    <2>. QED BY <1>1, <1>2, <1>6, <2>2, <2>3, SmallSizes, Zenon DEF Known
  <1>7. CASE 3 < i /\ i < Len(p) /\ \E t \in HasUISetBitIOC : p[i] = NE1State(t)
    <2>1. PICK t \in HasUISetBitIOC : p[i] = NE1State(t)
      BY <1>7
    <2>2. p[i].what = "statebits" /\ p[i].size = NE1Size(t)
      BY <2>1 DEF Field, NE1State
    <2>. QED BY <1>1, <1>2, <1>7, <2>2, PlainKnown, SmallSizes, Zenon
  <1>8. CASE /\ 3 < i /\ i < Len(p) /\ "ABS" \in Seen(p, i - 1, "bits")
             /\ \E c \in 0..63 : p[i] = AxisField(c)
    <2>1. PICK c \in 0..63 : p[i] = AxisField(c)
      BY <1>8
    <2>2. p[i].what = "axis" /\ p[i].of = c /\ p[i].size = 24
      BY <2>1 DEF Field, AxisField
    <2>. QED BY <1>1, <1>2, <1>8, <2>2, SmallSizes, Zenon DEF Known
  <1>9. CASE i = Len(p) /\ p[i] = Plain("packet", 24)
    <2>0. HasParts(p[i], "packet", "", 24, {})
      BY <1>9, PlainParts, Zenon
    <2>1. p[i].what = "packet" /\ p[i].of = "" /\ p[i].size = 24
      BY <2>0, Zenon DEF HasParts
    <2>. QED BY <1>1, <1>2, <1>9, <2>1, PlainKnown, SmallSizes, Zenon
  <1>. QED BY <1>3, <1>4, <1>5, <1>6, <1>7, <1>8, <1>9, Zenon DEF NE1Kind

(* And of every field of every plan.                                       *)
LEMMA PlanKnown ==
    ASSUME NEW q \in Protocols, NEW d \in Devices, NEW L \in LongBits, NEW p, p = Plan(q, d, L)
    PROVE  /\ p \in Seq(Elements(p)) /\ Len(p) \in Nat /\ HeadLen(q) < Len(p)
           /\ \A i \in 1..Len(p) : Known(q, p, d, i)
  <1>1. CASE q = "NE2"
    <2>1. p = NE2Writes(d, L)
      BY <1>1 DEF Plan
    <2>2. p \in Seq(Elements(p)) /\ Len(p) \in Nat /\ BitsEnd(d) \in 4..(Len(p) - 2)
      BY <2>1, NE2BitsFirst
    <2>3. 4 < Len(p) - 1
      BY <2>2
    <2>4. \A i \in 1..Len(p) : Known(q, p, d, i)
      BY <1>1, <2>1, <2>2, <2>3, NE2Kinds, NE2Known
    <2>. QED BY <1>1, <2>2, <2>3, <2>4 DEF HeadLen
  <1>2. CASE q = "NE1"
    <2>. DEFINE es == Filter(EntryOrder, DOMAIN d.codes)
    <2>1. p = NE1Writes(d)
      BY <1>2 DEF Plan
    <2>2. p \in Seq(Elements(p)) /\ Len(p) \in Nat /\ 3 + Len(es) \in 3..(Len(p) - 1)
      <3>. HIDE DEF es
      <3>. QED BY <2>1, NE1BitsFirst DEF es
    <2>3. 3 < Len(p)
      BY <2>2
    <2>4. \A i \in 1..Len(p) : Known(q, p, d, i)
      BY <1>2, <2>1, <2>2, <2>3, NE1Kinds, NE1Known
    <2>. QED BY <1>2, <2>2, <2>3, <2>4 DEF HeadLen
  <1>. QED BY <1>1, <1>2 DEF Protocols

(* The field the reader takes next has the size it reads.                  *)
LEMMA SizesAgree ==
    ASSUME protocol \in Protocols, NEW d \in Devices, NEW L \in LongBits,
           NEW p, p = Plan(protocol, d, L), NEW k \in Nat, k + 1 \in 1..Len(p), CountAt(p, k)
    PROVE  p[k + 1].size = WantedSize(WantOf(p[k + 1]))
  <1>. DEFINE i == k + 1
  <1>1. Len(p) \in Nat /\ HeadLen(protocol) < Len(p)
    BY PlanKnown
  <1>2. CASE protocol = "NE2"
    <2>1. p = NE2Writes(d, L)
      BY <1>2 DEF Plan
    <2>2. NE2Kind(p, d, i)
      <3>. HIDE DEF i
      <3>. QED BY <2>1, NE2Kinds DEF i
    <2>3. CASE /\ 5 < i /\ i < Len(p) - 1
               /\ \E t \in SentTypes("NE2", d), n \in BitCounts, b \in FieldSizes :
                     /\ b = byte_size(n) /\ p[i - 1] = Field("count", t, 2, n)
                     /\ p[i] = Field("bits", t, b, d.codes[t])
      <3>1. PICK t \in SentTypes("NE2", d), n \in BitCounts, b \in FieldSizes :
                     /\ b = byte_size(n) /\ p[i - 1] = Field("count", t, 2, n)
                     /\ p[i] = Field("bits", t, b, d.codes[t])
        BY <2>3
      <3>2. i - 1 = k /\ k \in 1..Len(p)
        BY <1>1, <2>3
      <3>3. p[k].what = "count" /\ p[k].value = n
        BY <3>1, <3>2 DEF Field
      <3>4. count = n
        BY <3>2, <3>3, Zenon DEF CountAt
      <3>. QED BY <1>2, <3>1, <3>4 DEF Field, WantOf, Want, WantedSize, SizeCounted
    <2>4. CASE \/ i = 1 /\ p[i] = Plain("packet", 28)
               \/ i = 2 /\ p[i] = Field("name", "", 80 + 8, d.terminated)
               \/ i = 3 /\ p[i] = Field("evbitsize", "", 2, EV_MAX)
               \/ i = 4 /\ p[i] = Field("evbits", "", byte_size(EV_MAX), DOMAIN d.codes)
               \/ i = Len(p) - 1 /\ p[i] = Plain("state", byte_size(EV_MAX))
               \/ i = Len(p) /\ p[i] = Plain("packet", 28)
      <3>. HIDE DEF i
      <3>1. \/ HasParts(p[i], "packet", "", 28, {})
            \/ HasParts(p[i], "name", "", 80 + 8, d.terminated)
            \/ HasParts(p[i], "evbitsize", "", 2, EV_MAX)
            \/ HasParts(p[i], "evbits", "", byte_size(EV_MAX), DOMAIN d.codes)
            \/ HasParts(p[i], "state", "", byte_size(EV_MAX), {})
        BY <2>4, FieldParts, PlainParts, Zenon
      <3>2. \/ p[i].what = "packet" /\ p[i].size = 28
            \/ p[i].what = "name" /\ p[i].size = 80 + 8
            \/ p[i].what = "evbitsize" /\ p[i].size = 2
            \/ p[i].what \in {"evbits", "state"} /\ p[i].size = byte_size(EV_MAX)
        BY <3>1, Zenon DEF HasParts
      <3>3. p[i].size = WantedSize(WantOf(p[i]))
        BY <1>2, <3>2 DEF WantOf, Want, WantedSize
      <3>. QED BY <3>3 DEF i
    <2>5. CASE \E t \in SentTypes("NE2", d), n \in BitCounts : p[i] = Field("count", t, 2, n)
      BY <1>2, <2>5 DEF Field, WantOf, Want, WantedSize
    <2>6. CASE \E c \in 0..63 : p[i] = AxisField(c)
      BY <1>2, <2>6 DEF Field, AxisField, WantOf, Want, WantedSize
    <2>. QED BY <2>2, <2>3, <2>4, <2>5, <2>6 DEF NE2Kind
  <1>3. CASE protocol = "NE1"
    <2>1. p = NE1Writes(d)
      BY <1>3 DEF Plan
    <2>2. NE1Kind(p, d, i)
      <3>. HIDE DEF i
      <3>. QED BY <2>1, NE1Kinds DEF i
    <2>3. CASE \/ i = 1 /\ p[i] = Plain("size", 2)
               \/ i = 2 /\ p[i] = Field("name", "", 80 + 8, d.terminated)
               \/ i = 3 /\ p[i] = Field("evbits", "", byte_size(EV_MAX), DOMAIN d.codes)
               \/ i = Len(p) /\ p[i] = Plain("packet", 24)
      <3>. HIDE DEF i
      <3>1. \/ HasParts(p[i], "packet", "", 24, {})
            \/ HasParts(p[i], "name", "", 80 + 8, d.terminated)
            \/ HasParts(p[i], "size", "", 2, {})
            \/ HasParts(p[i], "evbits", "", byte_size(EV_MAX), DOMAIN d.codes)
        BY <2>3, FieldParts, PlainParts, Zenon
      <3>2. \/ p[i].what = "packet" /\ p[i].size = 24
            \/ p[i].what = "name" /\ p[i].size = 80 + 8
            \/ p[i].what = "size" /\ p[i].size = 2
            \/ p[i].what = "evbits" /\ p[i].size = byte_size(EV_MAX)
        BY <3>1, Zenon DEF HasParts
      <3>3. p[i].size = WantedSize(WantOf(p[i]))
        BY <1>3, <3>2, EventTypeBytes DEF WantOf, Want, WantedSize
      <3>. QED BY <3>3 DEF i
    <2>4. CASE \E t \in SentTypes("NE1", d) : p[i] = NE1Bits(d, t)
      <3>1. PICK t \in SentTypes("NE1", d) : p[i] = NE1Bits(d, t)
        BY <2>4
      <3>2. t \in HasUISetBitIOC
        BY SentTypesKnown DEF Protocols
      <3>. QED BY <1>3, <3>1, <3>2, BytesByMax
               DEF NE1Bits, Field, WantOf, Want, WantedSize
    <2>5. CASE \E t \in HasUISetBitIOC : p[i] = NE1State(t)
      BY <1>3, <2>5, BytesByMax DEF NE1State, Field, WantOf, Want, WantedSize
    <2>6. CASE \E c \in 0..63 : p[i] = AxisField(c)
      BY <1>3, <2>6 DEF Field, AxisField, WantOf, Want, WantedSize
    <2>. QED BY <2>2, <2>3, <2>4, <2>5, <2>6 DEF NE1Kind
  <1>. QED BY <1>2, <1>3 DEF Protocols

-----------------------------------------------------------------------------
(* What the reader wants.                                                  *)

(* One want for each field.                                                *)
LEMMA WantsOfAll ==
    ASSUME NEW p, Len(p) \in Nat
    PROVE  /\ AllWants(p) \in Seq(Elements(AllWants(p))) /\ Len(AllWants(p)) = Len(p)
           /\ \A i \in 1..Len(p) : AllWants(p)[i] = WantOf(p[i])
  <1>. DEFINE f == AllWants(p)
  <1>1. f = [i \in 1..Len(p) |-> f[i]] /\ \A i \in 1..Len(p) : f[i] = WantOf(p[i])
    BY DEF AllWants
  <1>. HIDE DEF f
  <1>2. f \in Seq(Elements(f)) /\ Len(f) = Len(p)
    BY <1>1, FunctionIsSeq
  <1>. QED BY <1>1, <1>2 DEF f

(* The next one, and those behind it.                                      *)
LEMMA WantsStep ==
    ASSUME NEW p, Len(p) \in Nat, NEW k \in Nat, NEW n \in Nat, k < n, n <= Len(p)
    PROVE  /\ Wants(p, k, n) # <<>> /\ Wants(p, k, n) \in Seq(Elements(AllWants(p)))
           /\ Len(Wants(p, k, n)) = n - k
           /\ Head(Wants(p, k, n)) = WantOf(p[k + 1]) /\ Tail(Wants(p, k, n)) = Wants(p, k + 1, n)
  <1>. DEFINE f == AllWants(p)
              S == Elements(f)
  <1>1. f \in Seq(S) /\ Len(f) = Len(p) /\ f[k + 1] = WantOf(p[k + 1])
    <2>1. k + 1 \in 1..Len(p)
      OBVIOUS
    <2>. QED BY <2>1, WantsOfAll
  <1>. HIDE DEF f, S
  <1>2. k + 1 \in 1..Len(f) /\ n \in (k + 1)..Len(f) /\ k \in 0..Len(f) /\ n \in k..Len(f)
    BY <1>1
  <1>3. Head(SubSeq(f, k + 1, n)) = f[k + 1] /\ Tail(SubSeq(f, k + 1, n)) = SubSeq(f, (k + 1) + 1, n)
    BY <1>1, <1>2, HeadTailOfSubSeq
  <1>4. SubSeq(f, k + 1, n) \in Seq(S) /\ Len(SubSeq(f, k + 1, n)) = n - k
    BY <1>1, <1>2, SubSeqParts
  <1>5. SubSeq(f, k + 1, n) # <<>>
    <2>1. Len(SubSeq(f, k + 1, n)) # Len(<<>>)
      BY <1>4
    <2>. QED BY <2>1
  <1>. QED BY <1>1, <1>3, <1>4, <1>5, Zenon DEF Wants, f, S

(* Between a place and itself there is nothing to want.                    *)
LEMMA WantsNothing ==
    ASSUME NEW p, NEW k \in Nat
    PROVE  Wants(p, k, k) = <<>>
  <1>1. k + 1 \in Int /\ k \in Int /\ k < k + 1
    OBVIOUS
  <1>. QED BY <1>1, SubSeqEmpty DEF Wants

(* What has these wants at their places is them.                           *)
Part(p, k, n) == Len(p) \in Nat /\ k \in Nat /\ n \in Nat /\ k <= n /\ n <= Len(p)

AreWants(s, p, k, n) ==
    /\ Part(p, k, n) /\ s \in Seq(Elements(s)) /\ Len(s) = n - k
    /\ \A i \in 1..(n - k) : s[i] = WantOf(p[k + i])

(* A sequence that agrees with the plan at each place is that part of it.  *)
LEMMA WantsAre ==
    ASSUME NEW s, NEW p, NEW k, NEW n, AreWants(s, p, k, n)
    PROVE  s = Wants(p, k, n)
  <1>. DEFINE f == AllWants(p)
              T == Elements(f) \cup Elements(s)
              w == SubSeq(f, k + 1, n)
  <1>0. /\ Len(p) \in Nat /\ k \in Nat /\ n \in Nat /\ k <= n /\ n <= Len(p)
        /\ s \in Seq(Elements(s)) /\ Len(s) = n - k
        /\ \A i \in 1..(n - k) : s[i] = WantOf(p[k + i])
    BY DEF AreWants, Part
  <1>1. f \in Seq(Elements(f)) /\ Len(f) = Len(p) /\ \A i \in 1..Len(p) : f[i] = WantOf(p[i])
    BY <1>0, WantsOfAll
  <1>2. s \in Seq(T)
    BY <1>0, SeqOfElements DEF Elements
  <1>3. f \in Seq(T)
    <2>. HIDE DEF f
    <2>. QED BY <1>1, SeqOfElements DEF Elements
  <1>. HIDE DEF f, T
  <1>4. k \in 0..Len(f) /\ n \in k..Len(f)
    BY <1>0, <1>1
  <1>5. w \in Seq(T) /\ Len(w) = n - k /\ \A i \in 1..(n - k) : w[i] = f[k + i]
    BY <1>3, <1>4, SubSeqParts
  <1>6. \A i \in 1..(n - k) : k + i \in 1..Len(p)
    BY <1>0
  <1>7. \A i \in 1..(n - k) : s[i] = w[i]
    BY <1>0, <1>1, <1>5, <1>6
  <1>. HIDE DEF w
  <1>8. s = w
    BY <1>0, <1>2, <1>5, <1>7, SeqEqual
  <1>. QED BY <1>8 DEF Wants, w, f

(* One part after the other.                                               *)
LEMMA WantsJoin ==
    ASSUME NEW p, NEW k, NEW l, NEW n, Part(p, k, l), Part(p, l, n)
    PROVE  Wants(p, k, l) \o Wants(p, l, n) = Wants(p, k, n)
  <1>. DEFINE f == AllWants(p)
              S == Elements(f)
              a == SubSeq(f, k + 1, l)
              b == SubSeq(f, l + 1, n)
              s == a \o b
  <1>0. /\ Len(p) \in Nat /\ k \in Nat /\ l \in Nat /\ n \in Nat
        /\ k <= l /\ l <= n /\ n <= Len(p)
    BY DEF Part
  <1>1. f \in Seq(S) /\ Len(f) = Len(p) /\ \A i \in 1..Len(p) : f[i] = WantOf(p[i])
    BY <1>0, WantsOfAll
  <1>. HIDE DEF f, S
  <1>2. k \in 0..Len(f) /\ l \in k..Len(f) /\ l \in 0..Len(f) /\ n \in l..Len(f)
    BY <1>0, <1>1
  <1>3. a \in Seq(S) /\ Len(a) = l - k /\ \A i \in 1..(l - k) : a[i] = f[k + i]
    BY <1>0, <1>1, <1>2, SubSeqParts
  <1>4. b \in Seq(S) /\ Len(b) = n - l /\ \A i \in 1..(n - l) : b[i] = f[l + i]
    BY <1>0, <1>1, <1>2, SubSeqParts
  <1>. HIDE DEF a, b
  <1>5. /\ s \in Seq(S) /\ Len(s) = Len(a) + Len(b)
        /\ \A i \in 1..Len(a) : s[i] = a[i]
        /\ \A i \in 1..Len(b) : s[Len(a) + i] = b[i]
    <2>1. a \o b \in Seq(S) /\ Len(a \o b) = Len(a) + Len(b)
      BY <1>3, <1>4, ConcatParts
    <2>2. \A i \in 1..Len(a) : (a \o b)[i] = a[i]
      BY <1>3, <1>4, ConcatParts
    <2>3. \A i \in 1..Len(b) : (a \o b)[Len(a) + i] = b[i]
      BY <1>3, <1>4, ConcatParts
    <2>. QED BY <2>1, <2>2, <2>3
  <1>. HIDE DEF s
  <1>6. Len(s) = n - k
    BY <1>0, <1>3, <1>4, <1>5
  <1>7. ASSUME NEW i \in 1..(n - k) PROVE s[i] = WantOf(p[k + i])
    <2>1. CASE i \in 1..(l - k)
      <3>1. s[i] = f[k + i] /\ k + i \in 1..Len(p)
        BY <1>0, <1>3, <1>5, <2>1
      <3>. QED BY <1>1, <3>1
    <2>2. CASE i \in (l - k + 1)..(n - k)
      <3>1. PICK j \in 1..(n - l) : i = (l - k) + j
        <4>1. i - (l - k) \in 1..(n - l) /\ i = (l - k) + (i - (l - k))
          BY <1>0, <2>2
        <4>. QED BY <4>1
      <3>2. s[i] = f[l + j]
        BY <1>0, <1>3, <1>4, <1>5, <3>1
      <3>3. l + j = k + i /\ k + i \in 1..Len(p)
        BY <1>0, <3>1
      <3>. QED BY <1>1, <3>2, <3>3
    <2>. QED BY <1>0, <2>1, <2>2
  <1>8. s \in Seq(Elements(s))
    BY <1>5, SeqOfElements DEF Elements
  <1>9. AreWants(s, p, k, n)
    BY <1>0, <1>6, <1>7, <1>8 DEF AreWants, Part
  <1>10. s = Wants(p, k, n)
    BY <1>9, WantsAre
  <1>. QED BY <1>10 DEF s, a, b, Wants, f

(* What the writer's loops write and what the reader's want, part by part. *)
LoopAt(w, p, k, e, what, s) ==
    /\ Part(p, k, e) /\ Len(s) \in Nat /\ e = k + Len(s)
    /\ w = [j \in 1..Len(s) |-> Want(what, s[j])]
    /\ \A j \in 1..Len(s) : WantOf(p[k + j]) = Want(what, s[j])

(* What a loop wants is what is placed there.                              *)
LEMMA LoopWants ==
    ASSUME NEW w, NEW p, NEW k, NEW e, NEW what, NEW s, LoopAt(w, p, k, e, what, s)
    PROVE  w = Wants(p, k, e)
  <1>. DEFINE n == Len(s)
  <1>1. /\ Part(p, k, e) /\ n \in Nat /\ e = k + n /\ w = [j \in 1..n |-> Want(what, s[j])]
        /\ \A j \in 1..n : WantOf(p[k + j]) = Want(what, s[j])
    BY DEF LoopAt
  <1>. HIDE DEF n
  <1>2. w \in Seq(Elements(w)) /\ Len(w) = n
    <2>1. w = [j \in 1..n |-> w[j]]
      BY <1>1
    <2>. QED BY <1>1, <2>1, FunctionIsSeq
  <1>3. \A j \in 1..n : w[j] = WantOf(p[k + j])
    BY <1>1
  <1>4. e - k = n
    BY <1>1 DEF Part
  <1>5. AreWants(w, p, k, e)
    BY <1>1, <1>2, <1>3, <1>4 DEF AreWants
  <1>. QED BY <1>5, WantsAre

(* Wants of the fields.                                                    *)
LEMMA WantOfEach ==
    /\ \A t, L : WantOf(CountField(t, L)) = Want("count", t)
    /\ \A d, t, L : WantOf(BitsField(d, t, L)) = Want("bits", t)
    /\ \A c : WantOf(AxisField(c)) = Want("axis", c)
    /\ \A d, t : WantOf(NE1Bits(d, t)) = Want("bits", t)
    /\ \A t : WantOf(NE1State(t)) = Want("statebits", t)
    /\ \A what, of, size, value : WantOf(Field(what, of, size, value)) = Want(what, of)
  BY DEF WantOf, CountField, BitsField, AxisField, NE1Bits, NE1State, Field

(* What is wanted of a field is its kind and what it is of.                *)
LEMMA WantOfField ==
    ASSUME NEW what, NEW of, NEW size, NEW value
    PROVE  WantOf(Field(what, of, size, value)) = Want(what, of)
  BY WantOfEach

(* A plain field is of nothing.                                            *)
LEMMA WantOfPlain ==
    ASSUME NEW what, NEW size
    PROVE  WantOf(Plain(what, size)) = Want(what, "")
  <1>1. HasParts(Plain(what, size), what, "", size, {})
    BY PlainParts
  <1>. QED BY <1>1, Zenon DEF WantOf, HasParts

(* In netevent 2, counts and bits behind the event types.                  *)
LEMMA NE2PairWants ==
    ASSUME NEW d \in Devices, NEW L \in LongBits, NEW p, p = NE2Writes(d, L)
    PROVE  AfterEvbitsNE2(DOMAIN d.codes) = Wants(p, 4, BitsEnd(d)) \o <<StateWant>>
  <1>. DEFINE ts == WithBits(DOMAIN d.codes)
              ax == Filter(Axes, AxesOf(d))
              n  == Len(ts)
              m  == Len(ax)
              b  == [i \in 1..(2 * n) |-> IF i % 2 = 1 THEN Want("count", ts[(i + 1) \div 2])
                                          ELSE Want("bits", ts[i \div 2])]
              st == StateWant
  <1>1. AfterEvbitsNE2(DOMAIN d.codes) = b \o <<st>>
    BY Zenon DEF AfterEvbitsNE2, InPairs, StateWant
  <1>2. n \in Nat /\ m \in Nat
    BY BitTypes, AxesInOrder, LenProperties
  <1>3. NE2Places(p, d, L, ts, ax)
    BY NE2IsPlaced
  <1>. HIDE DEF ts, ax, st
  <1>4. Len(p) = 4 + 2 * n + m + 2 /\ BitsEnd(d) = 4 + 2 * n
    BY <1>3 DEF NE2Places, BitsEnd, ts
  <1>5. b \in Seq(Elements(b)) /\ Len(b) = 2 * n
    <2>1. 2 * n \in Nat /\ b = [i \in 1..(2 * n) |-> b[i]]
      BY <1>2
    <2>. HIDE DEF b, n
    <2>. QED BY <2>1, FunctionIsSeq
  <1>6. ASSUME NEW j \in 1..n
        PROVE  /\ b[2 * j - 1] = WantOf(p[4 + (2 * j - 1)])
               /\ b[2 * j] = WantOf(p[4 + 2 * j])
    <2>1. b[2 * j - 1] = Want("count", ts[j]) /\ b[2 * j] = Want("bits", ts[j])
      <3>. HIDE DEF n
      <3>. QED BY <1>2, PairPlaces
    <2>2. p[4 + (2 * j - 1)] = CountField(ts[j], L) /\ p[4 + 2 * j] = BitsField(d, ts[j], L)
      BY <1>3, Zenon DEF NE2Places
    <2>3. /\ WantOf(CountField(ts[j], L)) = Want("count", ts[j])
          /\ WantOf(BitsField(d, ts[j], L)) = Want("bits", ts[j])
      BY WantOfEach
    <2>. HIDE DEF b
    <2>. QED BY <2>1, <2>2, <2>3
  <1>. HIDE DEF b, n, m
  <1>7. ASSUME NEW i \in 1..(2 * n) PROVE b[i] = WantOf(p[4 + i])
    <2>1. PICK j \in 1..n : i = 2 * j - 1 \/ i = 2 * j
      BY <1>2, PairPlaces
    <2>. QED BY <1>6, <2>1, Zenon
  <1>8. Part(p, 4, 4 + 2 * n) /\ (4 + 2 * n) - 4 = 2 * n
    BY <1>2, <1>4 DEF Part
  <1>9. AreWants(b, p, 4, 4 + 2 * n)
    BY <1>5, <1>7, <1>8 DEF AreWants
  <1>10. b = Wants(p, 4, 4 + 2 * n)
    BY <1>9, WantsAre
  <1>. QED BY <1>1, <1>4, <1>10 DEF st

(* Nothing is in a sequence of no elements.                                *)
LEMMA NoElements ==
    ASSUME NEW S, NEW s \in Seq(S), Elements(s) = {}
    PROVE  Len(s) = 0
  <1>1. Len(s) \in Nat /\ \A i \in 1..Len(s) : s[i] \in Elements(s)
    BY LenProperties DEF Elements
  <1>. QED BY <1>1

(* Then the axes, and the state of the buttons.                            *)
LEMMA NE2AxisWants ==
    ASSUME NEW d \in Devices, NEW L \in LongBits, NEW p, p = NE2Writes(d, L),
           NEW k \in Nat, k <= BitsEnd(d)
    PROVE  /\ Wants(p, k, BitsEnd(d)) \o AxesWanted(AxesOf(d)) \o <<StateWant>>
                = Wants(p, k, Len(p) - 1)
           /\ "ABS" \notin DOMAIN d.codes =>
                Wants(p, k, BitsEnd(d)) \o <<StateWant>> = Wants(p, k, Len(p) - 1)
  <1>. DEFINE ts == WithBits(DOMAIN d.codes)
              ax == Filter(Axes, AxesOf(d))
              n  == Len(ts)
              m  == Len(ax)
              w  == [j \in 1..m |-> Want("axis", ax[j])]
              st == StateWant
              B  == BitsEnd(d)
  <1>1. AxesWanted(AxesOf(d)) = w
    BY DEF AxesWanted, ForEach
  <1>2. n \in Nat /\ m \in Nat /\ ax \in Seq(0..63) /\ Elements(ax) = AxesOf(d) \cap 0..63
    BY BitTypes, AxesInOrder, LenProperties
  <1>3. NE2Places(p, d, L, ts, ax)
    BY NE2IsPlaced
  <1>. HIDE DEF ts, ax, st
  <1>4. Len(p) = 4 + 2 * n + m + 2 /\ B = 4 + 2 * n
    BY <1>3 DEF NE2Places, BitsEnd, ts
  <1>. HIDE DEF B
  <1>5. \A j \in 1..m : WantOf(p[B + j]) = Want("axis", ax[j])
    <2>. SUFFICES ASSUME NEW j \in 1..m PROVE WantOf(p[B + j]) = Want("axis", ax[j])
      OBVIOUS
    <2>1. p[B + j] = AxisField(ax[j])
      BY <1>3, <1>4 DEF NE2Places
    <2>2. WantOf(AxisField(ax[j])) = Want("axis", ax[j])
      BY WantOfEach
    <2>. QED BY <2>1, <2>2
  <1>6. WantOf(p[B + m + 1]) = st
    <2>1. p[B + m + 1] = Plain("state", byte_size(EV_MAX))
      BY <1>3, <1>4, Zenon DEF NE2Places
    <2>. QED BY <2>1, WantOfPlain, Zenon DEF st, StateWant
  <1>. HIDE DEF n, m
  <1>7. /\ Part(p, k, B) /\ Part(p, B, B + m) /\ Part(p, k, B + m)
        /\ Part(p, B + m, B + m + 1) /\ B + m + 1 = Len(p) - 1
    BY <1>2, <1>4 DEF B, Part
  <1>8. w = Wants(p, B, B + m)
    <2>1. LoopAt(w, p, B, B + m, "axis", ax)
      BY <1>2, <1>5, <1>7 DEF LoopAt, m
    <2>. QED BY <2>1, LoopWants
  <1>9. <<st>> = Wants(p, B + m, B + m + 1)
    <2>. DEFINE x == B + m
                s == <<st>>
    <2>1. s \in Seq(Elements(s)) /\ Len(s) = 1 /\ s[1] = st
      BY ShortTuples
    <2>2. Part(p, x, x + 1) /\ x \in Nat
      BY <1>7 DEF Part
    <2>3. s[1] = WantOf(p[x + 1])
      BY <1>6, <2>1
    <2>. HIDE DEF x, s
    <2>4. (x + 1) - x = 1
      BY <2>2
    <2>5. AreWants(s, p, x, x + 1)
      BY <2>1, <2>2, <2>3, <2>4 DEF AreWants
    <2>6. s = Wants(p, x, x + 1)
      BY <2>5, WantsAre
    <2>. QED BY <2>6 DEF s, x
  <1>. HIDE DEF w
  <1>10. Wants(p, k, B) \o w = Wants(p, k, B + m)
    <2>1. Wants(p, k, B) \o Wants(p, B, B + m) = Wants(p, k, B + m)
      BY <1>7, WantsJoin
    <2>. QED BY <1>8, <2>1
  <1>11. Wants(p, k, B + m) \o <<st>> = Wants(p, k, B + m + 1)
    <2>1. Wants(p, k, B + m) \o Wants(p, B + m, B + m + 1) = Wants(p, k, B + m + 1)
      BY <1>7, WantsJoin
    <2>. QED BY <1>9, <2>1
  <1>12. ASSUME "ABS" \notin DOMAIN d.codes
         PROVE  Wants(p, k, B) \o <<st>> = Wants(p, k, Len(p) - 1)
    <2>1. Elements(ax) = {}
      BY <1>2, <1>12 DEF AxesOf
    <2>2. m = 0
      BY <1>2, <2>1, NoElements DEF m
    <2>3. B + m = B
      BY <1>7, <2>2 DEF Part
    <2>. QED BY <1>7, <1>11, <2>3
  <1>. QED BY <1>1, <1>7, <1>10, <1>11, <1>12 DEF B, st

(* In netevent 1, everything behind the event types.                       *)
LEMMA NE1RestWants ==
    ASSUME NEW d \in Devices, NEW p, p = NE1Writes(d)
    PROVE  AfterEvbitsNE1(DOMAIN d.codes) = Wants(p, 3, Len(p) - 1)
  <1>. DEFINE es == Filter(EntryOrder, DOMAIN d.codes)
              ss == Filter(StateOrder, DOMAIN d.codes)
              ax == NE1Axes(DOMAIN d.codes)
              n  == Len(es)
              l  == Len(ss)
              m  == Len(ax)
              b  == [j \in 1..n |-> Want("bits", es[j])]
              c  == [j \in 1..l |-> Want("statebits", ss[j])]
              e  == [j \in 1..m |-> Want("axis", ax[j])]
  <1>1. AfterEvbitsNE1(DOMAIN d.codes) = b \o c \o e
    BY DEF AfterEvbitsNE1, ForEach
  <1>2. n \in Nat /\ l \in Nat /\ m \in Nat
    BY NE1Types, NE1AxisNumbers, LenProperties
  <1>3. NE1Places(p, d, es, ss, ax)
    BY NE1IsPlaced
  <1>. HIDE DEF es, ss, ax
  <1>4. PICK x \in Nat, y \in Nat, z \in Nat : x = 3 + n /\ y = x + l /\ z = y + m
    BY <1>2
  <1>5. z = Len(p) - 1 /\ Part(p, 3, x) /\ Part(p, x, y) /\ Part(p, y, z) /\ Part(p, 3, y)
    <2>1. Len(p) = 3 + n + l + m + 1
      BY <1>3, Zenon DEF NE1Places
    <2>. HIDE DEF n, l, m
    <2>. QED BY <1>2, <1>4, <2>1 DEF Part
  <1>6. b = Wants(p, 3, x)
    <2>1. ASSUME NEW j \in 1..n PROVE WantOf(p[3 + j]) = Want("bits", es[j])
      <3>1. p[3 + j] = NE1Bits(d, es[j])
        BY <1>3 DEF NE1Places
      <3>2. WantOf(NE1Bits(d, es[j])) = Want("bits", es[j])
        BY WantOfEach
      <3>. QED BY <3>1, <3>2
    <2>2. LoopAt(b, p, 3, x, "bits", es)
      BY <1>2, <1>4, <1>5, <2>1 DEF LoopAt
    <2>. QED BY <2>2, LoopWants
  <1>7. c = Wants(p, x, y)
    <2>1. ASSUME NEW j \in 1..l PROVE WantOf(p[x + j]) = Want("statebits", ss[j])
      <3>1. p[x + j] = NE1State(ss[j])
        BY <1>3, <1>4 DEF NE1Places
      <3>2. WantOf(NE1State(ss[j])) = Want("statebits", ss[j])
        BY WantOfEach
      <3>. QED BY <3>1, <3>2
    <2>2. LoopAt(c, p, x, y, "statebits", ss)
      BY <1>2, <1>4, <1>5, <2>1 DEF LoopAt
    <2>. QED BY <2>2, LoopWants
  <1>8. e = Wants(p, y, z)
    <2>1. ASSUME NEW j \in 1..m PROVE WantOf(p[y + j]) = Want("axis", ax[j])
      <3>1. p[y + j] = AxisField(ax[j])
        BY <1>3, <1>4 DEF NE1Places
      <3>2. WantOf(AxisField(ax[j])) = Want("axis", ax[j])
        BY WantOfEach
      <3>. QED BY <3>1, <3>2
    <2>2. LoopAt(e, p, y, z, "axis", ax)
      BY <1>2, <1>4, <1>5, <2>1 DEF LoopAt
    <2>. QED BY <2>2, LoopWants
  <1>. HIDE DEF b, c, e
  <1>9. b \o c = Wants(p, 3, y)
    <2>1. Wants(p, 3, x) \o Wants(p, x, y) = Wants(p, 3, y)
      BY <1>5, WantsJoin
    <2>. QED BY <1>6, <1>7, <2>1
  <1>10. (b \o c) \o e = Wants(p, 3, z)
    <2>1. Wants(p, 3, y) \o Wants(p, y, z) = Wants(p, 3, z)
      BY <1>5, WantsJoin
    <2>. QED BY <1>8, <1>9, <2>1
  <1>. QED BY <1>1, <1>5, <1>10

(* What it wants to begin with.                                            *)
FirstWants(q) ==
    IF q = "NE2"
    THEN <<Want("packet", ""), Want("name", ""), Want("evbitsize", ""), Want("evbits", "")>>
    ELSE <<Want("size", ""), Want("name", ""), Want("evbits", "")>>

(* The reader begins by wanting the fields up to the event types.          *)
LEMMA HeadWants ==
    ASSUME NEW q \in Protocols, NEW d \in Devices, NEW L \in LongBits, NEW p, p = Plan(q, d, L)
    PROVE  FirstWants(q) = Wants(p, 0, HeadLen(q))
  <1>. DEFINE s == FirstWants(q)
  <1>1. Part(p, 0, HeadLen(q))
    BY PlanKnown DEF Part, HeadLen
  <1>2. s \in Seq(Elements(s)) /\ Len(s) = HeadLen(q)
    BY ShortTuples, Zenon DEF FirstWants, HeadLen, Protocols
  <1>3. \A i \in 1..HeadLen(q) : s[i] = WantOf(p[i])
    <2>1. CASE q = "NE2"
      <3>. DEFINE ts == WithBits(DOMAIN d.codes)
                  ax == Filter(Axes, AxesOf(d))
      <3>1. p = NE2Writes(d, L)
        BY <2>1 DEF Plan
      <3>2. NE2Places(p, d, L, ts, ax)
        BY <3>1, NE2IsPlaced
      <3>. HIDE DEF ts, ax
      <3>3. /\ p[1] = Plain("packet", 28) /\ p[2] = Field("name", "", 80 + 8, d.terminated)
            /\ p[3] = Field("evbitsize", "", 2, EV_MAX)
            /\ p[4] = Field("evbits", "", byte_size(EV_MAX), DOMAIN d.codes)
        BY <3>2, Zenon DEF NE2Places
      <3>4. WantOf(p[1]) = Want("packet", "")
        BY <3>3, WantOfPlain, Zenon
      <3>5. WantOf(p[2]) = Want("name", "")
        <4>1. WantOf(Field("name", "", 80 + 8, d.terminated)) = Want("name", "")
          BY WantOfField, Zenon
        <4>2. p[2] = Field("name", "", 80 + 8, d.terminated)
          BY <3>3, Zenon
        <4>. QED BY <4>1, <4>2, Zenon
      <3>6. WantOf(p[3]) = Want("evbitsize", "")
        <4>1. WantOf(Field("evbitsize", "", 2, EV_MAX)) = Want("evbitsize", "")
          BY WantOfField, Zenon
        <4>2. p[3] = Field("evbitsize", "", 2, EV_MAX)
          BY <3>3, Zenon
        <4>. QED BY <4>1, <4>2, Zenon
      <3>7. WantOf(p[4]) = Want("evbits", "")
        <4>1. WantOf(Field("evbits", "", byte_size(EV_MAX), DOMAIN d.codes)) = Want("evbits", "")
          BY WantOfField, Zenon
        <4>2. p[4] = Field("evbits", "", byte_size(EV_MAX), DOMAIN d.codes)
          BY <3>3, Zenon
        <4>. QED BY <4>1, <4>2, Zenon
      <3>8. /\ s[1] = Want("packet", "") /\ s[2] = Want("name", "")
            /\ s[3] = Want("evbitsize", "") /\ s[4] = Want("evbits", "")
        BY <2>1, Zenon DEF FirstWants
      <3>9. s[1] = WantOf(p[1]) /\ s[2] = WantOf(p[2]) /\ s[3] = WantOf(p[3])
            /\ s[4] = WantOf(p[4])
        BY <3>4, <3>5, <3>6, <3>7, <3>8, Zenon
      <3>10. HeadLen(q) = 4
        BY <2>1 DEF HeadLen
      <3>. HIDE DEF s
      <3>. QED BY <3>9, <3>10
    <2>2. CASE q = "NE1"
      <3>. DEFINE es == Filter(EntryOrder, DOMAIN d.codes)
                  ss == Filter(StateOrder, DOMAIN d.codes)
                  ax == NE1Axes(DOMAIN d.codes)
      <3>1. p = NE1Writes(d)
        BY <2>2 DEF Plan
      <3>2. NE1Places(p, d, es, ss, ax)
        BY <3>1, NE1IsPlaced
      <3>. HIDE DEF es, ss, ax
      <3>3. /\ p[1] = Plain("size", 2) /\ p[2] = Field("name", "", 80 + 8, d.terminated)
            /\ p[3] = Field("evbits", "", byte_size(EV_MAX), DOMAIN d.codes)
        BY <3>2, Zenon DEF NE1Places
      <3>4. WantOf(p[1]) = Want("size", "")
        BY <3>3, WantOfPlain, Zenon
      <3>5. WantOf(p[2]) = Want("name", "")
        <4>1. WantOf(Field("name", "", 80 + 8, d.terminated)) = Want("name", "")
          BY WantOfField, Zenon
        <4>2. p[2] = Field("name", "", 80 + 8, d.terminated)
          BY <3>3, Zenon
        <4>. QED BY <4>1, <4>2, Zenon
      <3>6. WantOf(p[3]) = Want("evbits", "")
        <4>1. WantOf(Field("evbits", "", byte_size(EV_MAX), DOMAIN d.codes)) = Want("evbits", "")
          BY WantOfField, Zenon
        <4>2. p[3] = Field("evbits", "", byte_size(EV_MAX), DOMAIN d.codes)
          BY <3>3, Zenon
        <4>. QED BY <4>1, <4>2, Zenon
      <3>7. /\ s[1] = Want("size", "") /\ s[2] = Want("name", "") /\ s[3] = Want("evbits", "")
        BY <2>2, Zenon DEF FirstWants
      <3>8. s[1] = WantOf(p[1]) /\ s[2] = WantOf(p[2]) /\ s[3] = WantOf(p[3])
        BY <3>4, <3>5, <3>6, <3>7, Zenon
      <3>9. HeadLen(q) = 3
        BY <2>2 DEF HeadLen
      <3>. HIDE DEF s
      <3>. QED BY <3>8, <3>9
    <2>. QED BY <2>1, <2>2 DEF Protocols
  <1>. HIDE DEF s
  <1>4. PICK h \in Nat : h = HeadLen(q)
    BY DEF HeadLen
  <1>5. Len(s) = h - 0 /\ \A i \in 1..(h - 0) : s[i] = WantOf(p[0 + i])
    BY <1>2, <1>3, <1>4
  <1>6. AreWants(s, p, 0, h)
    BY <1>1, <1>2, <1>4, <1>5 DEF AreWants
  <1>7. s = Wants(p, 0, h)
    BY <1>6, WantsAre
  <1>. QED BY <1>4, <1>7 DEF s

-----------------------------------------------------------------------------
(* What has been seen.                                                     *)

(* One field more.                                                         *)
LEMMA SeenNext ==
    ASSUME NEW p, NEW k \in Nat, NEW what
    PROVE  /\ p[k + 1].what = what => Seen(p, k + 1, what) = Seen(p, k, what) \cup {p[k + 1].of}
           /\ p[k + 1].what # what => Seen(p, k + 1, what) = Seen(p, k, what)
  <1>1. 1..(k + 1) = (1..k) \cup {k + 1}
    OBVIOUS
  <1>2. CASE p[k + 1].what = what
    <2>1. {j \in 1..(k + 1) : p[j].what = what} = {j \in 1..k : p[j].what = what} \cup {k + 1}
      BY <1>1, <1>2
    <2>. QED BY <1>2, <2>1 DEF Seen
  <1>3. CASE p[k + 1].what # what
    <2>1. {j \in 1..(k + 1) : p[j].what = what} = {j \in 1..k : p[j].what = what}
      BY <1>1, <1>3
    <2>. QED BY <1>3, <2>1 DEF Seen
  <1>. QED BY <1>2, <1>3

(* Where it was seen.                                                      *)
LEMMA SeenAt ==
    ASSUME NEW p, NEW k, NEW what, NEW x \in Seen(p, k, what)
    PROVE  \E i \in 1..k : p[i].what = what /\ p[i].of = x
  BY DEF Seen

(* The bits of a type come once.                                           *)
LEMMA NE2BitsOnce ==
    ASSUME NEW d \in Devices, NEW L \in LongBits, NEW p, p = NE2Writes(d, L),
           NEW i \in 1..Len(p), p[i].what = "bits"
    PROVE  p[i].of \notin Seen(p, i - 1, "bits")
  <1>. DEFINE ts == WithBits(DOMAIN d.codes)
              ax == Filter(Axes, AxesOf(d))
              n  == Len(ts)
              m  == Len(ax)
  <1>1. n \in Nat /\ m \in Nat /\ Distinct(ts)
    BY BitTypes, AxesInOrder, LenProperties
  <1>2. NE2Places(p, d, L, ts, ax)
    BY NE2IsPlaced
  <1>. HIDE DEF ts, ax
  <1>3. Len(p) = 4 + 2 * n + m + 2
    BY <1>2, Zenon DEF NE2Places
  <1>4. ASSUME NEW a \in 1..Len(p), p[a].what = "bits"
        PROVE  \E j \in 1..n : a = 4 + 2 * j /\ p[a].of = ts[j]
    <2>1. a \notin 1..4
      <3>1. p = Plan("NE2", d, L) /\ "NE2" \in Protocols /\ HeadLen("NE2") = 4
        BY DEF Plan, Protocols, HeadLen
      <3>2. Known("NE2", p, d, a)
        BY <3>1, PlanKnown
      <3>3. HeadLen("NE2") < a
        BY <1>4, <3>2, Zenon DEF Known
      <3>. QED BY <3>1, <3>3
    <2>2. a # 4 + 2 * n + m + 1 /\ a # 4 + 2 * n + m + 2
      <3>1. /\ HasParts(p[4 + 2 * n + m + 1], "state", "", byte_size(EV_MAX), {})
            /\ HasParts(p[4 + 2 * n + m + 2], "packet", "", 28, {})
        BY <1>2, PlainParts, ZenonT(60) DEF NE2Places
      <3>2. p[4 + 2 * n + m + 1].what # "bits" /\ p[4 + 2 * n + m + 2].what # "bits"
        BY <3>1, Zenon DEF HasParts
      <3>. QED BY <1>4, <3>2, Zenon
    <2>3. a \notin (4 + 2 * n + 1)..(4 + 2 * n + m)
      <3>. SUFFICES ASSUME a \in (4 + 2 * n + 1)..(4 + 2 * n + m) PROVE FALSE
        OBVIOUS
      <3>1. PICK j \in 1..m : a = 4 + 2 * n + j
        <4>1. a - (4 + 2 * n) \in 1..m /\ a = 4 + 2 * n + (a - (4 + 2 * n))
          BY <1>1
        <4>. QED BY <4>1
      <3>2. p[a] = AxisField(ax[j])
        BY <1>2, <3>1 DEF NE2Places
      <3>3. p[a].what = "axis"
        BY <3>2 DEF AxisField, Field
      <3>. QED BY <1>4, <3>3
    <2>4. a - 4 \in 1..(2 * n)
      BY <1>1, <1>3, <2>1, <2>2, <2>3
    <2>5. PICK j \in 1..n : a - 4 = 2 * j - 1 \/ a - 4 = 2 * j
      BY <1>1, <2>4, PairPlaces
    <2>6. a = 4 + (2 * j - 1) \/ a = 4 + 2 * j
      BY <1>1, <2>5
    <2>7. a # 4 + (2 * j - 1)
      <3>1. p[4 + (2 * j - 1)] = CountField(ts[j], L)
        BY <1>2, Zenon DEF NE2Places
      <3>2. CountField(ts[j], L).what = "count"
        BY DEF CountField, Field
      <3>3. p[4 + (2 * j - 1)].what # "bits"
        BY <3>1, <3>2
      <3>. QED BY <1>4, <3>3, Zenon
    <2>8. p[4 + 2 * j].of = ts[j]
      <3>1. p[4 + 2 * j] = BitsField(d, ts[j], L)
        BY <1>2, Zenon DEF NE2Places
      <3>2. BitsField(d, ts[j], L).of = ts[j]
        BY DEF BitsField, Field
      <3>. QED BY <3>1, <3>2
    <2>. QED BY <2>6, <2>7, <2>8, Zenon
  <1>. SUFFICES ASSUME p[i].of \in Seen(p, i - 1, "bits") PROVE FALSE
    OBVIOUS
  <1>5. PICK a \in 1..(i - 1) : p[a].what = "bits" /\ p[a].of = p[i].of
    BY SeenAt
  <1>6. a \in 1..Len(p)
    BY <1>1, <1>3
  <1>7. PICK ja \in 1..n : a = 4 + 2 * ja /\ p[a].of = ts[ja]
    BY <1>4, <1>5, <1>6
  <1>8. PICK ji \in 1..n : i = 4 + 2 * ji /\ p[i].of = ts[ji]
    BY <1>4
  <1>9. ja = ji
    BY <1>1, <1>5, <1>7, <1>8 DEF Distinct
  <1>. QED BY <1>1, <1>7, <1>8, <1>9

(* Up to the event types there are neither bits nor axes, and all bits are *)
(* of types that are sent.                                                 *)
LEMMA SeenOfSent ==
    ASSUME NEW q \in Protocols, NEW d \in Devices, NEW L \in LongBits, NEW p, p = Plan(q, d, L),
           NEW k \in 0..Len(p)
    PROVE  /\ Seen(p, k, "bits") \subseteq SentTypes(q, d)
           /\ k <= HeadLen(q) => Seen(p, k, "bits") = {} /\ Seen(p, k, "axis") = {}
  <1>1. Len(p) \in Nat /\ \A i \in 1..Len(p) : Known(q, p, d, i)
    BY PlanKnown
  <1>2. ASSUME NEW x \in Seen(p, k, "bits") PROVE x \in SentTypes(q, d) /\ ~(k <= HeadLen(q))
    <2>1. PICK i \in 1..k : p[i].what = "bits" /\ p[i].of = x
      BY SeenAt
    <2>2. i \in 1..Len(p)
      BY <1>1
    <2>3. x \in SentTypes(q, d) /\ HeadLen(q) < i
      BY <1>1, <2>1, <2>2, Zenon DEF Known
    <2>4. HeadLen(q) \in Nat
      BY DEF HeadLen
    <2>. QED BY <1>1, <2>3, <2>4
  <1>3. ASSUME NEW x \in Seen(p, k, "axis") PROVE ~(k <= HeadLen(q))
    <2>1. PICK i \in 1..k : p[i].what = "axis" /\ p[i].of = x
      BY SeenAt
    <2>2. i \in 1..Len(p)
      BY <1>1
    <2>3. HeadLen(q) < i
      BY <1>1, <2>1, <2>2, Zenon DEF Known
    <2>4. HeadLen(q) \in Nat
      BY DEF HeadLen
    <2>. QED BY <1>1, <2>3, <2>4
  <1>. QED BY <1>2, <1>3

(* In front of the next packet everything has been seen.                   *)
LEMMA AllSeen ==
    ASSUME protocol \in Protocols, device \in Devices, NEW L \in LongBits,
           NEW p, p = Plan(protocol, device, L), NEW k \in Nat, Len(p) - 1 <= k
    PROVE  /\ SentTypes(protocol, device) \subseteq Seen(p, k, "bits")
           /\ Expected("ABS") \subseteq Seen(p, k, "axis")
  <1>. DEFINE d == device
  <1>1. CASE protocol = "NE2"
    <2>. DEFINE ts == WithBits(DOMAIN d.codes)
                ax == Filter(Axes, AxesOf(d))
                n  == Len(ts)
                m  == Len(ax)
    <2>1. p = NE2Writes(d, L)
      BY <1>1 DEF Plan
    <2>2. NE2Places(p, d, L, ts, ax)
      BY <2>1, NE2IsPlaced
    <2>3. n \in Nat /\ m \in Nat /\ Elements(ax) = AxesOf(d) \cap 0..63
      BY BitTypes, AxesInOrder, LenProperties
    <2>. HIDE DEF ts, ax
    <2>4. Len(p) = 4 + 2 * n + m + 2
      BY <2>2, Zenon DEF NE2Places
    <2>5. SentTypes("NE2", d) \subseteq Seen(p, k, "bits")
      <3>1. BitsEnd(d) \in 4..(Len(p) - 2) /\ Len(p) \in Nat
        BY <2>1, NE2BitsFirst
      <3>2. BitsEnd(d) <= k
        BY <3>1
      <3>. QED BY <2>1, <3>2, NE2BitsFirst
    <2>6. ASSUME NEW c \in Expected("ABS") PROVE c \in Seen(p, k, "axis")
      <3>1. "ABS" \in DOMAIN d.codes /\ c \in d.codes["ABS"]
        BY <1>1, <2>6 DEF Expected
      <3>2. c \in 0..63
        BY <3>1, AxisCodes, Zenon
      <3>3. c \in Elements(ax)
        BY <2>3, <3>1, <3>2 DEF AxesOf
      <3>4. PICK j \in 1..m : ax[j] = c
        BY <3>3, PlaceOf
      <3>5. p[4 + 2 * n + j] = AxisField(c)
        BY <2>2, <3>4 DEF NE2Places
      <3>6. 4 + 2 * n + j \in 1..k
        BY <2>3, <2>4
      <3>7. p[4 + 2 * n + j].what = "axis" /\ p[4 + 2 * n + j].of = c
        BY <3>5 DEF AxisField, Field
      <3>. QED BY <3>6, <3>7, SeenOne
    <2>. QED BY <1>1, <2>5, <2>6
  <1>2. CASE protocol = "NE1"
    <2>. DEFINE es == Filter(EntryOrder, DOMAIN d.codes)
                ss == Filter(StateOrder, DOMAIN d.codes)
                ax == NE1Axes(DOMAIN d.codes)
                n  == Len(es)
                l  == Len(ss)
                m  == Len(ax)
    <2>1. p = NE1Writes(d)
      BY <1>2 DEF Plan
    <2>2. NE1Places(p, d, es, ss, ax)
      BY <2>1, NE1IsPlaced
    <2>3. /\ n \in Nat /\ l \in Nat /\ m \in Nat
          /\ Elements(ax) = IF "ABS" \in DOMAIN d.codes THEN 0..62 ELSE {}
      BY NE1Types, NE1AxisNumbers, LenProperties
    <2>4. SentTypes("NE1", d) \subseteq Seen(p, k, "bits")
      <3>1. es = Filter(EntryOrder, DOMAIN d.codes)
        OBVIOUS
      <3>. HIDE DEF es
      <3>2. /\ Len(p) \in Nat /\ 3 + n \in 3..(Len(p) - 1)
            /\ \A x \in Nat : 3 + n <= x => SentTypes("NE1", d) \subseteq Seen(p, x, "bits")
        BY <2>1, <3>1, NE1BitsFirst
      <3>. HIDE DEF n
      <3>3. 3 + n <= k
        BY <3>2
      <3>. QED BY <3>2, <3>3
    <2>. HIDE DEF es, ss, ax
    <2>5. Len(p) = 3 + n + l + m + 1
      BY <2>2, Zenon DEF NE1Places
    <2>6. ASSUME NEW c \in Expected("ABS") PROVE c \in Seen(p, k, "axis")
      <3>1. "ABS" \in DOMAIN d.codes /\ c \in d.codes["ABS"] \ {MaxCode["ABS"]}
        BY <1>2, <2>6 DEF Expected
      <3>2. c \in 0..63 /\ c # 63
        <4>1. "ABS" \in HasUISetBitIOC
          BY TypeOrders
        <4>2. MaxCode["ABS"] = 63
          BY <4>1, CodeNumbers
        <4>3. d.codes["ABS"] \subseteq 0..63
          BY <3>1, AxisCodes, Zenon
        <4>. QED BY <3>1, <4>2, <4>3
      <3>3. c \in 0..62
        BY <3>2
      <3>4. PICK j \in 1..m : ax[j] = c
        BY <2>3, <3>1, <3>3, PlaceOf
      <3>5. p[3 + n + l + j] = AxisField(c)
        BY <2>2, <3>4 DEF NE1Places
      <3>6. 3 + n + l + j \in 1..k
        BY <2>3, <2>5
      <3>7. p[3 + n + l + j].what = "axis" /\ p[3 + n + l + j].of = c
        BY <3>5 DEF AxisField, Field
      <3>. QED BY <3>6, <3>7, SeenOne
    <2>. QED BY <1>2, <2>4, <2>6
  <1>. QED BY <1>1, <1>2 DEF Protocols

(* What is expected of a type.                                             *)
LEMMA ExpectedCodes ==
    ASSUME protocol \in Protocols, device \in Devices, NEW t \in HasUISetBitIOC
    PROVE  /\ t \notin SentTypes(protocol, device) => Expected(t) = {}
           /\ Expected(t) \subseteq 0..MaxCode[t]
           /\ t \in SentTypes(protocol, device) =>
                Expected(t) = IF protocol = "NE2" THEN device.codes[t]
                              ELSE shrinkTo(device.codes[t], MaxCode[t])
  <1>1. t \notin SentTypes(protocol, device) => Expected(t) = {}
    BY DEF Protocols, SentTypes, Expected
  <1>2. t \in DOMAIN device.codes => device.codes[t] \subseteq 0..MaxCode[t]
    BY DeviceCodes
  <1>3. Expected(t) \subseteq 0..MaxCode[t]
    BY <1>2 DEF Expected
  <1>4. ASSUME t \in SentTypes(protocol, device)
        PROVE  Expected(t) = IF protocol = "NE2" THEN device.codes[t]
                             ELSE shrinkTo(device.codes[t], MaxCode[t])
    <2>1. CASE protocol = "NE2"
      BY <1>4, <2>1 DEF SentTypes, Expected
    <2>2. CASE protocol = "NE1"
      <3>1. PICK mc \in Nat : mc = MaxCode[t]
        <4>1. MaxCode[t] \in 7..767
          BY CodeNumbers
        <4>. QED BY <4>1
      <3>2. PICK cs : cs = device.codes[t]
        OBVIOUS
      <3>3. Expected(t) = cs \ {mc} /\ cs \subseteq 0..mc
        BY <1>2, <1>4, <2>2, <3>1, <3>2 DEF SentTypes, Expected
      <3>4. cs \ {mc} = cs \cap 0..(mc - 1)
        <4>1. \A c \in 0..mc : c # mc <=> c \in 0..(mc - 1)
          BY <3>1
        <4>. QED BY <3>3, <4>1, Zenon
      <3>. QED BY <2>2, <3>1, <3>2, <3>3, <3>4 DEF shrinkTo
    <2>. QED BY <2>1, <2>2 DEF Protocols
  <1>. QED BY <1>1, <1>3, <1>4

-----------------------------------------------------------------------------
(* The reader reads one field more.                                        *)

(* One element behind others.                                              *)
LEMMA OneBehind ==
    ASSUME NEW S, NEW a \in Seq(S), a # <<>>, NEW x \in S, NEW s, s = a \o <<x>>
    PROVE  /\ s # <<>> /\ Head(s) = Head(a) /\ Tail(s) = Tail(a) \o <<x>>
           /\ SubSeq(s, 2, Len(s) - 1) = Tail(a) /\ Last(s) = x
  <1>1. s = Append(a, x)
    BY AppendIsConcat
  <1>2. Head(s) = Head(a) /\ Tail(s) = Append(Tail(a), x)
    BY <1>1, HeadTailAppend
  <1>3. Tail(a) \in Seq(S) /\ Len(a) \in Nat /\ Len(a) # 0
    BY HeadTailProperties, EmptySeq
  <1>4. Append(Tail(a), x) = Tail(a) \o <<x>>
    BY <1>3, AppendIsConcat
  <1>5. Len(s) = Len(a) + 1 /\ s[Len(a) + 1] = x /\ s # <<>>
    BY <1>1, AppendProperties
  <1>6. SubSeq(s, 2, Len(s) - 1) = Tail(a)
    <2>1. Len(s) - 1 = Len(a)
      BY <1>3, <1>5
    <2>2. Tail(a) = SubSeq(a, 2, Len(a))
      BY TailIsSubSeq
    <2>3. CASE Len(a) = 1
      <3>1. SubSeq(s, 2, 1) = <<>> /\ SubSeq(a, 2, 1) = <<>>
        BY SubSeqEmpty
      <3>. QED BY <2>1, <2>2, <2>3, <3>1
    <2>4. CASE Len(a) # 1
      <3>1. 2 \in 1..Len(a) /\ Len(a) \in 1..Len(a) /\ <<x>> \in Seq(S)
        BY <1>3, <2>4
      <3>2. SubSeq(a \o <<x>>, 2, Len(a)) = SubSeq(a, 2, Len(a))
        BY <3>1, SubSeqOfConcat1
      <3>. QED BY <2>1, <2>2, <3>2
    <2>. QED BY <2>3, <2>4
  <1>7. Last(s) = x
    BY <1>5 DEF Last
  <1>. QED BY <1>2, <1>4, <1>5, <1>6, <1>7

(* Most fields leave what is wanted behind them as it is.                  *)
LEMMA RemainingTail ==
    ASSUME protocol \in Protocols, NEW want, NEW value, want.what # "evbits",
           ~(want.what = "bits" /\ want.of = "ABS" /\ protocol = "NE2")
    PROVE  Remaining(want, value) = Tail(wanted)
  BY DEF Remaining

(* Up to the event types, nothing is known of what is behind them.         *)
LEMMA HeadMovesOn ==
    ASSUME protocol \in Protocols, device \in Devices, NEW L \in LongBits,
           NEW p, p = Plan(protocol, device, L), NEW k \in Nat, k < HeadLen(protocol),
           wanted = Wants(p, k, HeadLen(protocol))
    PROVE  /\ Head(wanted) = WantOf(p[k + 1])
           /\ ReaderWants(protocol, device, p, k + 1, Remaining(WantOf(p[k + 1]), p[k + 1].value))
  <1>. DEFINE f == p[k + 1]
              r == Remaining(WantOf(f), f.value)
  <1>1. PICK h \in Nat : h = HeadLen(protocol)
    BY DEF HeadLen
  <1>2. Len(p) \in Nat /\ h < Len(p) /\ k + 1 \in 1..Len(p) /\ Known(protocol, p, device, k + 1)
    <2>1. /\ Len(p) \in Nat /\ HeadLen(protocol) < Len(p)
          /\ \A i \in 1..Len(p) : Known(protocol, p, device, i)
      BY PlanKnown
    <2>2. k + 1 \in 1..Len(p)
      BY <1>1, <2>1
    <2>. QED BY <1>1, <2>1, <2>2
  <1>3. Head(wanted) = WantOf(f) /\ Tail(wanted) = Wants(p, k + 1, h)
    <2>1. k < h /\ h <= Len(p)
      BY <1>1, <1>2
    <2>. QED BY <1>1, <1>2, <2>1, WantsStep
  <1>4. WantOf(f).what = f.what /\ WantOf(f).of = f.of
    BY DEF WantOf, Want
  <1>5. CASE k + 1 < h
    <2>1. k + 1 # h /\ ~(h < k + 1)
      BY <1>5
    <2>2. f.what # "evbits" /\ f.what # "bits"
      BY <1>1, <1>2, <2>1, Zenon DEF Known
    <2>3. r = Tail(wanted)
      BY <1>4, <2>2, RemainingTail
    <2>. HIDE DEF r
    <2>4. ReaderWants(protocol, device, p, k + 1, r)
      BY <1>1, <1>3, <1>5, <2>3, Zenon DEF ReaderWants
    <2>. QED BY <1>3, <2>4 DEF r
  <1>6. CASE k + 1 = h
    <2>1. f.what = "evbits" /\ f.value = DOMAIN device.codes
      BY <1>1, <1>2, <1>6, Zenon DEF Known
    <2>2. Seen(p, k + 1, "bits") = {}
      <3>1. k + 1 \in 0..Len(p) /\ k + 1 <= HeadLen(protocol)
        BY <1>1, <1>2, <1>6
      <3>. QED BY <3>1, SeenOfSent
    <2>3. HeadLen(protocol) <= k + 1 /\ k + 1 < Len(p)
      BY <1>1, <1>2, <1>6
    <2>4. CASE protocol = "NE2"
      <3>1. p = NE2Writes(device, L) /\ h = 4
        BY <1>1, <2>4 DEF Plan, HeadLen
      <3>2. r = AfterEvbitsNE2(DOMAIN device.codes)
        BY <1>4, <2>1, <2>4 DEF Remaining
      <3>. HIDE DEF r
      <3>3. r = Wants(p, k + 1, BitsEnd(device)) \o <<StateWant>>
        <4>1. AfterEvbitsNE2(DOMAIN device.codes)
                = Wants(p, 4, BitsEnd(device)) \o <<StateWant>>
          BY <3>1, NE2PairWants
        <4>2. k + 1 = 4
          BY <1>6, <3>1
        <4>. QED BY <3>2, <4>1, <4>2, Zenon
      <3>4. CASE AbsUnseen(protocol, device, p, k + 1)
        <4>1. ReaderWants(protocol, device, p, k + 1, r)
          BY <2>3, <3>3, <3>4, Zenon DEF ReaderWants
        <4>. QED BY <1>3, <4>1 DEF r
      <3>5. CASE ~AbsUnseen(protocol, device, p, k + 1)
        <4>1. "ABS" \notin DOMAIN device.codes
          BY <2>2, <2>4, <3>5 DEF AbsUnseen
        <4>2. k + 1 <= BitsEnd(device)
          <5>1. BitsEnd(device) \in 4..(Len(p) - 2)
            BY <3>1, NE2BitsFirst
          <5>. QED BY <1>2, <1>6, <3>1, <5>1
        <4>3. r = Wants(p, k + 1, Len(p) - 1)
          <5>1. k + 1 \in Nat
            OBVIOUS
          <5>2. Wants(p, k + 1, BitsEnd(device)) \o <<StateWant>>
                  = Wants(p, k + 1, Len(p) - 1)
            BY <3>1, <4>1, <4>2, <5>1, NE2AxisWants, ZenonT(60)
          <5>. QED BY <3>3, <5>2, Zenon
        <4>4. ReaderWants(protocol, device, p, k + 1, r)
          BY <2>3, <3>5, <4>3, Zenon DEF ReaderWants
        <4>. QED BY <1>3, <4>4 DEF r
      <3>. QED BY <3>4, <3>5
    <2>5. CASE protocol = "NE1"
      <3>1. p = NE1Writes(device) /\ h = 3
        BY <1>1, <2>5 DEF Plan, HeadLen
      <3>2. r = AfterEvbitsNE1(DOMAIN device.codes)
        BY <1>4, <2>1, <2>5 DEF Remaining
      <3>. HIDE DEF r
      <3>3. r = Wants(p, k + 1, Len(p) - 1)
        <4>1. AfterEvbitsNE1(DOMAIN device.codes) = Wants(p, 3, Len(p) - 1)
          BY <3>1, NE1RestWants
        <4>2. k + 1 = 3
          BY <1>6, <3>1
        <4>. QED BY <3>2, <4>1, <4>2, Zenon
      <3>4. ~AbsUnseen(protocol, device, p, k + 1)
        BY <2>5 DEF AbsUnseen
      <3>5. ReaderWants(protocol, device, p, k + 1, r)
        BY <2>3, <3>3, <3>4, Zenon DEF ReaderWants
      <3>. QED BY <1>3, <3>5 DEF r
    <2>. QED BY <2>4, <2>5 DEF Protocols
  <1>7. k + 1 < h \/ k + 1 = h
    BY <1>1
  <1>. QED BY <1>5, <1>6, <1>7

(* The rest is ordinary until the bits of ABS have been read; they say     *)
(* which axes there are.                                                   *)
LEMMA MiddleMovesOn ==
    ASSUME protocol \in Protocols, device \in Devices, NEW L \in LongBits,
           NEW p, p = Plan(protocol, device, L), NEW k \in Nat, k + 1 \in 1..Len(p),
           HeadLen(protocol) <= k, AbsUnseen(protocol, device, p, k),
           wanted = Wants(p, k, BitsEnd(device)) \o <<StateWant>>
    PROVE  /\ Head(wanted) = WantOf(p[k + 1]) /\ wanted # <<>>
           /\ ReaderWants(protocol, device, p, k + 1, Remaining(WantOf(p[k + 1]), p[k + 1].value))
  <1>. DEFINE f  == p[k + 1]
              r  == Remaining(WantOf(f), f.value)
              a  == Wants(p, k, BitsEnd(device))
              st == StateWant
  <1>1. protocol = "NE2" /\ "ABS" \in DOMAIN device.codes /\ "ABS" \notin Seen(p, k, "bits")
    BY DEF AbsUnseen
  <1>2. p = NE2Writes(device, L)
    BY <1>1 DEF Plan
  <1>3. PICK B \in Nat : B = BitsEnd(device) /\ B <= Len(p) - 2 /\ k < B
    <2>1. BitsEnd(device) \in 4..(Len(p) - 2) /\ Len(p) \in Nat
      BY <1>2, NE2BitsFirst
    <2>2. "ABS" \in SentTypes("NE2", device)
      BY <1>1, TypeOrders DEF SentTypes
    <2>3. ~(BitsEnd(device) <= k)
      BY <1>1, <1>2, <2>2, NE2BitsFirst
    <2>. QED BY <2>1, <2>3
  <1>4. Len(p) \in Nat /\ Known(protocol, p, device, k + 1)
    BY PlanKnown
  <1>5. /\ a # <<>> /\ a \in Seq(Elements(AllWants(p)))
        /\ Head(a) = WantOf(f) /\ Tail(a) = Wants(p, k + 1, B)
    <2>1. B <= Len(p)
      BY <1>3, <1>4
    <2>. QED BY <1>3, <1>4, <2>1, WantsStep, ZenonT(60)
  <1>6. /\ wanted # <<>> /\ Head(wanted) = WantOf(f) /\ Tail(wanted) = Wants(p, k + 1, B) \o <<st>>
        /\ SubSeq(wanted, 2, Len(wanted) - 1) = Wants(p, k + 1, B) /\ Last(wanted) = st
    <2>. DEFINE S == Elements(AllWants(p)) \cup {st}
    <2>. HIDE DEF st
    <2>1. a \in Seq(S) /\ st \in S
      BY <1>5
    <2>2. wanted = a \o <<st>>
      BY DEF st
    <2>. HIDE DEF S, a
    <2>3. /\ wanted # <<>> /\ Head(wanted) = Head(a) /\ Tail(wanted) = Tail(a) \o <<st>>
          /\ SubSeq(wanted, 2, Len(wanted) - 1) = Tail(a) /\ Last(wanted) = st
      BY <1>5, <2>1, <2>2, OneBehind, ZenonT(60)
    <2>. QED BY <1>5, <2>3
  <1>7. WantOf(f).what = f.what /\ WantOf(f).of = f.of
    BY DEF WantOf, Want
  <1>8. f.what # "evbits" /\ HeadLen(protocol) <= k + 1
    <2>1. k + 1 # HeadLen(protocol) /\ HeadLen(protocol) <= k + 1
      BY <1>1 DEF HeadLen
    <2>. QED BY <1>4, <2>1, Zenon DEF Known
  <1>9. CASE ~(f.what = "bits" /\ f.of = "ABS")
    <2>1. r = Tail(wanted)
      BY <1>7, <1>8, <1>9, RemainingTail
    <2>. HIDE DEF r
    <2>2. "ABS" \notin Seen(p, k + 1, "bits")
      <3>1. CASE f.what = "bits"
        <4>1. Seen(p, k + 1, "bits") = Seen(p, k, "bits") \cup {f.of}
          BY <3>1, SeenNext, Zenon
        <4>. QED BY <1>1, <1>9, <3>1, <4>1
      <3>2. CASE f.what # "bits"
        <4>1. Seen(p, k + 1, "bits") = Seen(p, k, "bits")
          BY <3>2, SeenNext, Zenon
        <4>. QED BY <1>1, <4>1, Zenon
      <3>. QED BY <3>1, <3>2
    <2>3. AbsUnseen(protocol, device, p, k + 1)
      BY <1>1, <2>2, Zenon DEF AbsUnseen
    <2>4. r = Wants(p, k + 1, BitsEnd(device)) \o <<StateWant>>
      BY <1>3, <1>6, <2>1, Zenon
    <2>5. ReaderWants(protocol, device, p, k + 1, r)
      BY <1>8, <2>3, <2>4, Zenon DEF ReaderWants
    <2>. QED BY <1>6, <2>5 DEF r
  <1>10. CASE f.what = "bits" /\ f.of = "ABS"
    <2>1. f.value = device.codes["ABS"]
      BY <1>4, <1>10, Zenon DEF Known
    <2>2. f.value = AxesOf(device)
      BY <1>1, <2>1 DEF AxesOf
    <2>3. r = SubSeq(wanted, 2, Len(wanted) - 1) \o AxesRead(f.value) \o <<Last(wanted)>>
      BY <1>1, <1>7, <1>10 DEF Remaining
    <2>. HIDE DEF r
    <2>4. r = Wants(p, k + 1, B) \o AxesWanted(AxesOf(device)) \o <<st>>
      <3>. HIDE DEF f, a, st
      <3>. QED BY <1>6, <2>2, <2>3 DEF AxesRead
    <2>5. r = Wants(p, k + 1, Len(p) - 1)
      <3>1. k + 1 \in Nat /\ k + 1 <= BitsEnd(device)
        BY <1>3
      <3>2. Wants(p, k + 1, BitsEnd(device)) \o AxesWanted(AxesOf(device)) \o <<StateWant>>
               = Wants(p, k + 1, Len(p) - 1)
        BY <1>2, <3>1, NE2AxisWants, Zenon
      <3>. QED BY <1>3, <2>4, <3>2, Zenon
    <2>6. "ABS" \in Seen(p, k + 1, "bits")
      <3>1. Seen(p, k + 1, "bits") = Seen(p, k, "bits") \cup {f.of}
        <4>1. f.what = "bits"
          BY <1>10
        <4>. QED BY <4>1, SeenNext, Zenon
      <3>. QED BY <1>10, <3>1, Zenon
    <2>7. ~AbsUnseen(protocol, device, p, k + 1) /\ k + 1 < Len(p)
      BY <1>3, <1>4, <2>6 DEF AbsUnseen
    <2>8. ReaderWants(protocol, device, p, k + 1, r)
      BY <1>8, <2>5, <2>7, Zenon DEF ReaderWants
    <2>. QED BY <1>6, <2>8 DEF r
  <1>. QED BY <1>9, <1>10

(* In the end it knows everything up to the next packet.                   *)
LEMMA RestMovesOn ==
    ASSUME protocol \in Protocols, device \in Devices, NEW L \in LongBits,
           NEW p, p = Plan(protocol, device, L), NEW k \in Nat, k + 1 \in 1..Len(p),
           HeadLen(protocol) <= k, ~AbsUnseen(protocol, device, p, k), wanted # <<>>,
           \/ wanted = Wants(p, k, Len(p) - 1)
           \/ Len(p) - 1 <= k /\ wanted \in {<<>>, <<PacketWant>>}
    PROVE  /\ Head(wanted) = WantOf(p[k + 1])
           /\ ReaderWants(protocol, device, p, k + 1, Remaining(WantOf(p[k + 1]), p[k + 1].value))
  <1>. DEFINE f == p[k + 1]
              r == Remaining(WantOf(f), f.value)
  <1>1. Len(p) \in Nat /\ Known(protocol, p, device, k + 1)
    BY PlanKnown
  <1>2. WantOf(f).what = f.what /\ WantOf(f).of = f.of
    BY DEF WantOf, Want
  <1>3. f.what # "evbits" /\ HeadLen(protocol) <= k + 1
    <2>1. k + 1 # HeadLen(protocol) /\ HeadLen(protocol) <= k + 1
      BY DEF HeadLen
    <2>. QED BY <1>1, <2>1, Zenon DEF Known
  <1>4. ~(f.what = "bits" /\ f.of = "ABS" /\ protocol = "NE2")
    <2>. SUFFICES ASSUME f.what = "bits", f.of = "ABS", protocol = "NE2" PROVE FALSE
      OBVIOUS
    <2>1. p = NE2Writes(device, L)
      BY DEF Plan
    <2>2. "ABS" \in SentTypes(protocol, device)
      BY <1>1, Zenon DEF Known
    <2>3. "ABS" \in DOMAIN device.codes
      BY <2>2 DEF SentTypes
    <2>4. "ABS" \in Seen(p, k, "bits")
      BY <2>3, Zenon DEF AbsUnseen
    <2>5. PICK i \in Nat : i = k + 1 /\ i \in 1..Len(p) /\ i - 1 = k
      OBVIOUS
    <2>6. p[i].of \notin Seen(p, i - 1, "bits")
      BY <2>1, <2>5, NE2BitsOnce
    <2>. QED BY <2>4, <2>5, <2>6
  <1>5. r = Tail(wanted)
    BY <1>2, <1>3, <1>4, RemainingTail
  <1>6. ~AbsUnseen(protocol, device, p, k + 1)
    <2>1. Seen(p, k, "bits") \subseteq Seen(p, k + 1, "bits")
      <3>1. CASE f.what = "bits"
        <4>1. Seen(p, k + 1, "bits") = Seen(p, k, "bits") \cup {f.of}
          BY <3>1, SeenNext, Zenon
        <4>. QED BY <4>1
      <3>2. CASE f.what # "bits"
        BY <3>2, SeenNext, Zenon
      <3>. QED BY <3>1, <3>2
    <2>. QED BY <2>1 DEF AbsUnseen
  <1>. HIDE DEF r
  <1>7. CASE wanted = Wants(p, k, Len(p) - 1)
    <2>1. k # Len(p) - 1
      <3>. SUFFICES ASSUME k = Len(p) - 1 PROVE FALSE
        OBVIOUS
      <3>1. Wants(p, k, k) = <<>>
        BY WantsNothing
      <3>. QED BY <1>7, <3>1
    <2>2. PICK n \in Nat : n = Len(p) - 1 /\ k < n /\ n <= Len(p)
      BY <1>1, <2>1
    <2>3. Head(wanted) = WantOf(f) /\ Tail(wanted) = Wants(p, k + 1, n)
      <3>1. wanted = Wants(p, k, n)
        BY <1>7, <2>2, Zenon
      <3>2. /\ Head(Wants(p, k, n)) = WantOf(p[k + 1])
            /\ Tail(Wants(p, k, n)) = Wants(p, k + 1, n)
        BY <1>1, <2>2, WantsStep, ZenonT(60)
      <3>. QED BY <3>1, <3>2, Zenon
    <2>4. k + 1 < Len(p)
      BY <1>1, <2>2
    <2>5. ReaderWants(protocol, device, p, k + 1, r)
      BY <1>3, <1>5, <1>6, <2>2, <2>3, <2>4, Zenon DEF ReaderWants
    <2>. QED BY <2>3, <2>5 DEF r
  <1>8. CASE Len(p) - 1 <= k /\ wanted \in {<<>>, <<PacketWant>>}
    <2>1. wanted = <<PacketWant>>
      BY <1>8, Zenon
    <2>2. k + 1 = Len(p) /\ Len(p) - 1 <= k + 1
      BY <1>1, <1>8
    <2>3. f.what = "packet" /\ f.of = ""
      BY <1>1, <2>2, Zenon DEF Known
    <2>4. WantOf(f) = PacketWant
      BY <2>3, Zenon DEF WantOf, PacketWant
    <2>5. \A x : Head(<<x>>) = x /\ Tail(<<x>>) = <<>>
      OBVIOUS
    <2>6. Head(wanted) = WantOf(f) /\ r = <<>>
      BY <1>5, <2>1, <2>4, <2>5, Zenon
    <2>7. ReaderWants(protocol, device, p, k + 1, r)
      BY <1>6, <2>2, <2>6, Zenon DEF ReaderWants
    <2>. QED BY <2>6, <2>7 DEF r
  <1>. QED BY <1>7, <1>8

(* So it wants what comes next, whatever it has read.                      *)
LEMMA ReaderMovesOn ==
    ASSUME protocol \in Protocols, device \in Devices, NEW L \in LongBits,
           NEW p, p = Plan(protocol, device, L), NEW k \in Nat, k + 1 \in 1..Len(p),
           wanted # <<>>, ReaderWants(protocol, device, p, k, wanted)
    PROVE  /\ Head(wanted) = WantOf(p[k + 1])
           /\ ReaderWants(protocol, device, p, k + 1, Remaining(WantOf(p[k + 1]), p[k + 1].value))
  <1>1. Len(p) \in Nat /\ HeadLen(protocol) < Len(p) /\ HeadLen(protocol) \in Nat
    BY PlanKnown DEF HeadLen
  <1>2. CASE k < HeadLen(protocol) /\ wanted = Wants(p, k, HeadLen(protocol))
    BY <1>2, HeadMovesOn
  <1>3. CASE /\ HeadLen(protocol) <= k /\ AbsUnseen(protocol, device, p, k)
             /\ wanted = Wants(p, k, BitsEnd(device)) \o <<StateWant>>
    BY <1>3, MiddleMovesOn, Zenon
  <1>4. CASE /\ HeadLen(protocol) <= k /\ k < Len(p) /\ ~AbsUnseen(protocol, device, p, k)
             /\ wanted = Wants(p, k, Len(p) - 1)
    BY <1>4, RestMovesOn, Zenon
  <1>5. CASE /\ Len(p) - 1 <= k /\ ~AbsUnseen(protocol, device, p, k)
             /\ wanted \in {<<>>, <<PacketWant>>}
    <2>1. HeadLen(protocol) <= k
      BY <1>1, <1>5
    <2>. QED BY <1>5, <2>1, RestMovesOn, Zenon
  <1>. QED BY <1>2, <1>3, <1>4, <1>5, Zenon DEF ReaderWants

(* With nothing left to want, it is in front of the next packet.           *)
LEMMA NothingWanted ==
    ASSUME protocol \in Protocols, device \in Devices, NEW L \in LongBits,
           NEW p, p = Plan(protocol, device, L), NEW k \in Nat,
           wanted = <<>>, ReaderWants(protocol, device, p, k, wanted)
    PROVE  /\ Len(p) - 1 <= k /\ ~AbsUnseen(protocol, device, p, k)
           /\ ReaderWants(protocol, device, p, k, <<PacketWant>>)
  <1>1. Len(p) \in Nat /\ HeadLen(protocol) < Len(p) /\ HeadLen(protocol) \in Nat
    BY PlanKnown DEF HeadLen
  <1>2. ~(k < HeadLen(protocol) /\ wanted = Wants(p, k, HeadLen(protocol)))
    <2>. SUFFICES ASSUME k < HeadLen(protocol), wanted = Wants(p, k, HeadLen(protocol)) PROVE FALSE
      OBVIOUS
    <2>1. PICK h \in Nat : h = HeadLen(protocol) /\ k < h /\ h <= Len(p)
      BY <1>1
    <2>2. Wants(p, k, h) # <<>>
      BY <1>1, <2>1, WantsStep
    <2>. QED BY <2>1, <2>2
  <1>3. ~(/\ HeadLen(protocol) <= k /\ AbsUnseen(protocol, device, p, k)
          /\ wanted = Wants(p, k, BitsEnd(device)) \o <<StateWant>>)
    <2>. SUFFICES ASSUME HeadLen(protocol) <= k, AbsUnseen(protocol, device, p, k),
                         wanted = Wants(p, k, BitsEnd(device)) \o <<StateWant>>
                  PROVE  FALSE
      OBVIOUS
    <2>1. protocol = "NE2" /\ "ABS" \in DOMAIN device.codes /\ "ABS" \notin Seen(p, k, "bits")
      BY DEF AbsUnseen
    <2>2. p = NE2Writes(device, L)
      BY <2>1 DEF Plan
    <2>3. BitsEnd(device) \in 4..(Len(p) - 2)
      BY <2>2, NE2BitsFirst
    <2>4. "ABS" \in SentTypes("NE2", device)
      BY <2>1, TypeOrders DEF SentTypes
    <2>5. ~(BitsEnd(device) <= k)
      BY <2>1, <2>2, <2>4, NE2BitsFirst
    <2>6. k + 1 \in 1..Len(p)
      BY <1>1, <2>3, <2>5
    <2>. QED BY <2>6, MiddleMovesOn, Zenon
  <1>4. HeadLen(protocol) <= k /\ Len(p) - 1 <= k /\ ~AbsUnseen(protocol, device, p, k)
    <2>1. CASE /\ HeadLen(protocol) <= k /\ k < Len(p) /\ ~AbsUnseen(protocol, device, p, k)
               /\ wanted = Wants(p, k, Len(p) - 1)
      <3>1. ~(k < Len(p) - 1)
        <4>. SUFFICES ASSUME k < Len(p) - 1 PROVE FALSE
          OBVIOUS
        <4>1. PICK n \in Nat : n = Len(p) - 1 /\ k < n /\ n <= Len(p)
          BY <1>1
        <4>2. Wants(p, k, n) # <<>>
          BY <1>1, <4>1, WantsStep
        <4>. QED BY <2>1, <4>1, <4>2
      <3>2. Len(p) - 1 <= k
        BY <1>1, <3>1
      <3>. QED BY <2>1, <3>2
    <2>2. CASE /\ Len(p) - 1 <= k /\ ~AbsUnseen(protocol, device, p, k)
               /\ wanted \in {<<>>, <<PacketWant>>}
      <3>1. HeadLen(protocol) <= k
        BY <1>1, <2>2
      <3>. QED BY <2>2, <3>1
    <2>. QED BY <1>2, <1>3, <2>1, <2>2, Zenon DEF ReaderWants
  <1>. QED BY <1>4, Zenon DEF ReaderWants

-----------------------------------------------------------------------------
(* And makes of the device what the field says.                            *)

(* One part of it changes.                                                 *)
WithTypes(m, y)    == [m EXCEPT !.types = y]
WithAxis(m, y)     == [m EXCEPT !.axes = @ \cup {y}]
WithCodes(m, t, y) == [m EXCEPT !.codes[t] = y]
OneOf(F, t, y)     == [F EXCEPT ![t] = y]

ThingOf(m, T, F, X) ==
    /\ m.types = T /\ m.codes = F /\ m.axes = X
    /\ \A y : WithTypes(m, y) = Thing(y, F, X)
    /\ \A y : WithAxis(m, y) = Thing(T, F, X \cup {y})
    /\ \A t, y : WithCodes(m, t, y) = Thing(T, OneOf(F, t, y), X)

(* A change of one part leaves the others.                                 *)
LEMMA ThingParts ==
    ASSUME NEW T, NEW F, NEW X, NEW m, m = Thing(T, F, X)
    PROVE  ThingOf(m, T, F, X)
  BY DEF Thing, ThingOf, WithTypes, WithAxis, WithCodes, OneOf

(* What is made of the next field is what the fields up to it describe.    *)
LEMMA MadeMovesOn ==
    ASSUME protocol \in Protocols, device \in Devices, NEW L \in LongBits,
           NEW p, p = Plan(protocol, device, L), NEW k \in Nat, k + 1 \in 1..Len(p),
           made = Described(p, k)
    PROVE  Made(WantOf(p[k + 1]), p[k + 1].value) = Described(p, k + 1)
  <1>. DEFINE f == p[k + 1]
              F == [t \in HasUISetBitIOC |-> CodesSeen(p, k, t)]
              T == TypesSeen(k)
              X == Seen(p, k, "axis") \cap Expected("ABS")
              new == Made(WantOf(f), f.value)
              G == [t \in HasUISetBitIOC |-> CodesSeen(p, k + 1, t)]
              Y == Seen(p, k + 1, "axis") \cap Expected("ABS")
  <1>1. Len(p) \in Nat /\ HeadLen(protocol) \in Nat /\ Known(protocol, p, device, k + 1)
    BY PlanKnown DEF HeadLen
  <1>2. WantOf(f).what = f.what /\ WantOf(f).of = f.of
    BY DEF WantOf, Want
  <1>3. made = Thing(T, F, X) /\ ThingOf(made, T, F, X)
    <2>1. made = Thing(T, F, X)
      BY Zenon DEF Described
    <2>. HIDE DEF T, F, X
    <2>. QED BY <2>1, ThingParts
  <1>0. Described(p, k + 1) = Thing(TypesSeen(k + 1), G, Y)
    BY Zenon DEF Described
  <1>4. ASSUME NEW what, f.what # what
        PROVE  Seen(p, k + 1, what) = Seen(p, k, what)
    BY <1>4, SeenNext, Zenon
  <1>5. ASSUME NEW what, f.what = what
        PROVE  Seen(p, k + 1, what) = Seen(p, k, what) \cup {f.of}
    BY <1>5, SeenNext, Zenon
  <1>6. k + 1 # HeadLen(protocol) => TypesSeen(k + 1) = T
    BY <1>1 DEF TypesSeen
  <1>7. CASE f.what = "evbits"
    <2>1. new = WithTypes(made, EventTypes(f.value))
      BY <1>2, <1>7 DEF Made, WithTypes
    <2>2. f.value = DOMAIN device.codes /\ k + 1 = HeadLen(protocol)
      BY <1>1, <1>7, Zenon DEF Known
    <2>3. EventTypes(f.value) = TypesSeen(k + 1)
      BY <1>1, <2>2 DEF EventTypes, TypesSeen
    <2>4. new = Thing(TypesSeen(k + 1), F, X)
      <3>. HIDE DEF new, T, F, X
      <3>. QED BY <1>3, <2>1, <2>3, Zenon DEF ThingOf
    <2>5. Seen(p, k + 1, "bits") = Seen(p, k, "bits") /\ Seen(p, k + 1, "axis") = Seen(p, k, "axis")
      BY <1>4, <1>7
    <2>6. \A t : CodesSeen(p, k + 1, t) = CodesSeen(p, k, t)
      BY <2>5, Zenon DEF CodesSeen
    <2>7. F = G /\ X = Y
      BY <2>5, <2>6
    <2>. HIDE DEF new, F, G, X, Y
    <2>. QED BY <1>0, <2>4, <2>7, Zenon DEF new
  <1>8. CASE f.what = "bits"
    <2>1. new = WithCodes(made, f.of, Codes(WantOf(f), f.value))
      BY <1>2, <1>8 DEF Made, WithCodes
    <2>2. f.of \in SentTypes(protocol, device) /\ f.value = device.codes[f.of]
      BY <1>1, <1>8, Zenon DEF Known
    <2>3. f.of \in HasUISetBitIOC
      BY <2>2, SentTypesKnown
    <2>4. Codes(WantOf(f), f.value) = Expected(f.of)
      <3>1. Codes(WantOf(f), f.value) = IF protocol = "NE2" THEN device.codes[f.of]
                                        ELSE shrinkTo(device.codes[f.of], MaxCode[f.of])
        BY <1>2, <2>2, Zenon DEF Codes
      <3>. QED BY <2>2, <2>3, <3>1, ExpectedCodes, Zenon
    <2>5. k + 1 # HeadLen(protocol)
      BY <1>1, <1>8, Zenon DEF Known
    <2>6. new = Thing(T, OneOf(F, f.of, Expected(f.of)), X)
      <3>. HIDE DEF new, T, F, X
      <3>. QED BY <1>3, <2>1, <2>4, ZenonT(60) DEF ThingOf
    <2>7. /\ Seen(p, k + 1, "bits") = Seen(p, k, "bits") \cup {f.of}
          /\ Seen(p, k + 1, "axis") = Seen(p, k, "axis")
      BY <1>4, <1>5, <1>8
    <2>8. OneOf(F, f.of, Expected(f.of))
             = [t \in HasUISetBitIOC |-> CodesSeen(p, k + 1, t)]
      <3>1. OneOf(F, f.of, Expected(f.of))
               = [t \in HasUISetBitIOC |-> IF t = f.of THEN Expected(f.of) ELSE CodesSeen(p, k, t)]
        BY DEF OneOf
      <3>2. \A t : CodesSeen(p, k + 1, t)
                     = IF t = f.of THEN Expected(f.of) ELSE CodesSeen(p, k, t)
        BY <2>7 DEF CodesSeen
      <3>. HIDE DEF F
      <3>. QED BY <3>1, <3>2, Zenon
    <2>9. X = Y
      BY <2>7
    <2>. HIDE DEF new, F, X, Y, T
    <2>. QED BY <1>0, <1>6, <2>5, <2>6, <2>8, <2>9, Zenon DEF new
  <1>9. CASE f.what = "axis"
    <2>1. f.of \in 0..63 /\ "ABS" \in Seen(p, k, "bits") /\ k + 1 # HeadLen(protocol)
      <3>1. (k + 1) - 1 = k
        OBVIOUS
      <3>. QED BY <1>1, <1>9, <3>1, Zenon DEF Known
    <2>2. made.codes["ABS"] = Expected("ABS")
      <3>1. "ABS" \in HasUISetBitIOC
        BY DEF HasUISetBitIOC, MaxCode
      <3>2. F["ABS"] = CodesSeen(p, k, "ABS")
        BY <3>1, Zenon
      <3>. HIDE DEF F
      <3>. QED BY <1>3, <2>1, <3>2, Zenon DEF CodesSeen, ThingOf
    <2>3. /\ Seen(p, k + 1, "axis") = Seen(p, k, "axis") \cup {f.of}
          /\ Seen(p, k + 1, "bits") = Seen(p, k, "bits")
      BY <1>4, <1>5, <1>9
    <2>4. \A t : CodesSeen(p, k + 1, t) = CodesSeen(p, k, t)
      BY <2>3, Zenon DEF CodesSeen
    <2>5. new = Thing(T, F, Seen(p, k + 1, "axis") \cap Expected("ABS"))
      <3>1. CASE f.of \in Expected("ABS")
        <4>1. new = WithAxis(made, f.of)
          BY <1>2, <1>9, <2>2, <3>1 DEF Made, WithAxis
        <4>2. X \cup {f.of} = Seen(p, k + 1, "axis") \cap Expected("ABS")
          BY <2>3, <3>1, Zenon
        <4>. HIDE DEF new, T, F, X
        <4>. QED BY <1>3, <4>1, <4>2, Zenon DEF ThingOf
      <3>2. CASE f.of \notin Expected("ABS")
        <4>1. new = made
          BY <1>2, <1>9, <2>2, <3>2 DEF Made
        <4>2. X = Seen(p, k + 1, "axis") \cap Expected("ABS")
          BY <2>3, <3>2, Zenon
        <4>. HIDE DEF new, T, F, X
        <4>. QED BY <1>3, <4>1, <4>2, Zenon DEF ThingOf
      <3>. QED BY <3>1, <3>2
    <2>6. F = G
      BY <2>4
    <2>. HIDE DEF new, F, G, T
    <2>. QED BY <1>0, <1>6, <2>1, <2>5, <2>6, Zenon DEF new
  <1>10. CASE f.what \notin {"evbits", "bits", "axis"}
    <2>1. new = made
      BY <1>2, <1>10 DEF Made
    <2>2. k + 1 # HeadLen(protocol)
      BY <1>1, <1>10, Zenon DEF Known
    <2>3. Seen(p, k + 1, "bits") = Seen(p, k, "bits") /\ Seen(p, k + 1, "axis") = Seen(p, k, "axis")
      BY <1>4, <1>10
    <2>4. \A t : CodesSeen(p, k + 1, t) = CodesSeen(p, k, t)
      BY <2>3, Zenon DEF CodesSeen
    <2>5. F = G /\ X = Y
      BY <2>3, <2>4
    <2>. HIDE DEF new, F, G, T, X, Y
    <2>. QED BY <1>0, <1>3, <1>6, <2>1, <2>2, <2>5, Zenon DEF new
  <1>. QED BY <1>7, <1>8, <1>9, <1>10 DEF f

-----------------------------------------------------------------------------
(* The invariant is inductive.                                             *)

(* What is left of a sequence between two places.                          *)
LEMMA BetweenPlaces ==
    ASSUME NEW S, NEW s \in Seq(S), NEW n \in 0..Len(s), NEW k \in 0..n,
           NEW u, u = SubSeq(s, k + 1, n)
    PROVE  /\ Len(u) = n - k /\ (u # <<>> => k < n)
           /\ k < n => Head(u) = s[k + 1] /\ Tail(u) = SubSeq(s, (k + 1) + 1, n)
           /\ \A j \in 0..Len(u) : k + j \in k..n /\ SubSeq(u, 1, j) = SubSeq(s, k + 1, k + j)
  <1>1. k \in 0..Len(s) /\ n \in k..Len(s) /\ n \in Nat /\ k \in Nat /\ Len(s) \in Nat
    BY LenProperties
  <1>2. u \in Seq(S) /\ Len(u) = n - k
    BY <1>1, SubSeqParts
  <1>3. u # <<>> => k < n
    <2>1. u # <<>> => Len(u) # 0
      BY <1>2, EmptySeq
    <2>. QED BY <1>1, <1>2, <2>1
  <1>4. ASSUME k < n PROVE Head(u) = s[k + 1] /\ Tail(u) = SubSeq(s, (k + 1) + 1, n)
    <2>1. k + 1 \in 1..Len(s) /\ n \in (k + 1)..Len(s)
      BY <1>1, <1>4
    <2>. QED BY <2>1, HeadTailOfSubSeq
  <1>5. ASSUME NEW j \in 0..Len(u)
        PROVE  k + j \in k..n /\ SubSeq(u, 1, j) = SubSeq(s, k + 1, k + j)
    <2>1. k + j \in k..n
      BY <1>1, <1>2
    <2>2. CASE j = 0
      <3>1. SubSeq(u, 1, 0) = <<>> /\ SubSeq(s, k + 1, k) = <<>>
        BY <1>1, SubSeqEmpty
      <3>2. k + 0 = k
        BY <1>1
      <3>. QED BY <2>1, <2>2, <3>1, <3>2
    <2>3. CASE j # 0
      <3>1. /\ k + 1 \in 1..Len(s) /\ n \in 1..Len(s)
            /\ 1 \in 1..(n - (k + 1) + 1) /\ j \in 1..(n - (k + 1) + 1)
            /\ (k + 1) + 1 - 1 = k + 1 /\ (k + 1) + j - 1 = k + j
        BY <1>1, <1>2, <2>3
      <3>2. SubSeq(SubSeq(s, k + 1, n), 1, j) = SubSeq(s, (k + 1) + 1 - 1, (k + 1) + j - 1)
        BY <1>2, <3>1, SubSeqOfSubSeq
      <3>. QED BY <2>1, <3>1, <3>2
    <2>. QED BY <2>2, <2>3
  <1>. QED BY <1>2, <1>3, <1>4, <1>5

(* The plan, and what it makes of the device, depend on what never changes.*)
LEMMA PlanStays ==
    ASSUME UNCHANGED input
    PROVE  /\ protocol' = protocol /\ device' = device /\ skip' = skip
           /\ \A L : Plan(protocol', device', L) = Plan(protocol, device, L)
           /\ \A p, k : Described(p, k)' = Described(p, k)
  <1>1. protocol' = protocol /\ device' = device /\ skip' = skip
    BY DEF input
  <1>2. ASSUME NEW p, NEW k PROVE Described(p, k)' = Described(p, k)
    BY <1>1 DEF Described, Thing, TypesSeen, CodesSeen, Expected
  <1>. QED BY <1>1, <1>2

(* The invariant holds behind a step that has somewhere to be in the plan. *)
LEMMA StillInPlan ==
    ASSUME NEW L \in LongBits, NEW p, p = Plan(protocol, device, L), UNCHANGED input,
           Typed', misread' = FALSE, NEW m \in 0..Len(p), NEW k \in 0..m, At(p, k, m)'
    PROVE  IInv'
  <1>1. p = Plan(protocol', device', L)
    BY PlanStays
  <1>2. InPlan(p)'
    BY Zenon DEF InPlan
  <1>. QED BY <1>1, <1>2, Zenon DEF IInv

(* Where everything is, at the beginning of a step.                        *)
Place(L, p, m, k) ==
    /\ L \in LongBits /\ p = Plan(protocol, device, L)
    /\ m \in 0..Len(p) /\ k \in 0..m /\ k \in Nat /\ m \in Nat /\ Len(p) \in Nat
    /\ p \in Seq(Elements(p)) /\ At(p, k, m)
    /\ protocol \in Protocols /\ device \in Devices /\ Typed /\ misread = FALSE

(* The invariant names a place in the plan.                                *)
LEMMA SomePlace ==
    ASSUME IInv
    PROVE  \E L, p, m, k : Place(L, p, m, k)
  <1>1. PICK L \in LongBits : InPlan(Plan(protocol, device, L))
    BY Zenon DEF IInv
  <1>2. PICK p : p = Plan(protocol, device, L)
    OBVIOUS
  <1>3. Typed /\ misread = FALSE /\ protocol \in Protocols /\ device \in Devices
    BY DEF IInv, Typed, Protocols
  <1>4. Len(p) \in Nat /\ p \in Seq(Elements(p))
    BY <1>2, <1>3, PlanKnown
  <1>5. PICK m \in 0..Len(p) : \E k \in 0..m : At(p, k, m)
    BY <1>1, <1>2, Zenon DEF InPlan
  <1>6. PICK k \in 0..m : At(p, k, m)
    BY <1>5
  <1>7. k \in Nat /\ m \in Nat
    BY <1>4
  <1>. QED BY <1>2, <1>3, <1>4, <1>6, <1>7, Zenon DEF Place

(* In the beginning everything is in front of the first field.             *)
LEMMA InitIInv ==
    ASSUME Init
    PROVE  IInv
  <1>1. /\ protocol \in Protocols /\ device \in Devices /\ skip \in BOOLEAN
        /\ protocol = "NE1" => ~skip
    BY Zenon DEF Init, Protocols
  <1>2. PICK L \in LongBits : writes = Plan(protocol, device, L)
    BY Zenon DEF Init, Plan
  <1>3. PICK p : p = Plan(protocol, device, L)
    OBVIOUS
  <1>4. Len(p) \in Nat /\ p \in Seq(Elements(p)) /\ HeadLen(protocol) \in Nat
    BY <1>1, <1>3, PlanKnown DEF HeadLen
  <1>5. /\ writes = p /\ stream = <<>> /\ closed = FALSE /\ lost = FALSE /\ pc = "reading"
        /\ count = 0 /\ made = Nobody /\ created = FALSE /\ misread = FALSE
    BY <1>2, <1>3, Zenon DEF Init
  <1>6. SenderAt(p, 0, 0)
    <2>1. SubSeq(p, 0 + 1, 0) = <<>>
      BY SubSeqEmpty
    <2>2. SubSeq(p, 0 + 1, Len(p)) = p
      BY <1>4, SubSeqFull
    <2>. QED BY <1>5, <2>1, <2>2 DEF SenderAt
  <1>7. ReaderWants(protocol, device, p, 0, wanted)
    <2>1. wanted = FirstWants(protocol)
      BY Zenon DEF Init, FirstWants
    <2>2. wanted = Wants(p, 0, HeadLen(protocol))
      BY <1>1, <1>3, <2>1, HeadWants
    <2>3. 0 < HeadLen(protocol)
      BY DEF HeadLen
    <2>. QED BY <2>2, <2>3, Zenon DEF ReaderWants
  <1>8. CountAt(p, 0)
    BY <1>5 DEF CountAt, Counts
  <1>9. MadeAt(p, 0)
    <2>1. Seen(p, 0, "bits") = {} /\ Seen(p, 0, "axis") = {}
      BY DEF Seen
    <2>2. ~(HeadLen(protocol) <= 0)
      BY DEF HeadLen
    <2>3. TypesSeen(0) = {} /\ \A t : CodesSeen(p, 0, t) = {}
      BY <2>1, <2>2 DEF TypesSeen, CodesSeen
    <2>4. Described(p, 0) = Nobody
      BY <2>1, <2>3 DEF Described, Thing, Nobody
    <2>. QED BY <1>5, <2>4 DEF MadeAt
  <1>10. CreatedAt(p, 0)
    BY <1>5, Zenon DEF CreatedAt
  <1>11. InPlan(p)
    <2>1. 0 \in 0..Len(p) /\ 0 \in 0..0
      BY <1>4
    <2>2. At(p, 0, 0)
      BY <1>6, <1>7, <1>8, <1>9, <1>10, Zenon DEF At
    <2>. QED BY <2>1, <2>2, Zenon DEF InPlan
  <1>12. Typed
    BY <1>1, <1>5, Zenon DEF Typed, Protocols
  <1>. QED BY <1>3, <1>5, <1>11, <1>12, Zenon DEF IInv

(* The next field is written.                                              *)
LEMMA WriteIInv ==
    ASSUME IInv, Write
    PROVE  IInv'
  <1>1. PICK L, p, m, k : Place(L, p, m, k)
    BY SomePlace
  <1>2. /\ L \in LongBits /\ p = Plan(protocol, device, L) /\ p \in Seq(Elements(p))
        /\ m \in 0..Len(p) /\ k \in 0..m /\ k \in Nat /\ m \in Nat /\ Len(p) \in Nat
    BY <1>1, Zenon DEF Place
  <1>3. SenderAt(p, k, m) /\ ReaderWants(protocol, device, p, k, wanted)
        /\ CountAt(p, k) /\ MadeAt(p, k) /\ CreatedAt(p, k) /\ Typed /\ misread = FALSE
    BY <1>1, Zenon DEF Place, At
  <1>4. /\ UNCHANGED input /\ UNCHANGED reader /\ closed' = closed /\ lost' = lost
        /\ ~closed /\ writes # <<>> /\ stream' = Append(stream, Head(writes)) /\ writes' = Tail(writes)
    BY DEF Write
  <1>5. writes = SubSeq(p, m + 1, Len(p)) /\ stream = SubSeq(p, k + 1, m)
    BY <1>3, <1>4 DEF SenderAt
  <1>6. m < Len(p) /\ Head(writes) = p[m + 1] /\ Tail(writes) = SubSeq(p, (m + 1) + 1, Len(p))
    <2>1. Len(p) \in 0..Len(p) /\ m \in 0..Len(p)
      BY <1>2
    <2>. QED BY <1>2, <1>4, <1>5, <2>1, BetweenPlaces
  <1>7. stream' = SubSeq(p, k + 1, m + 1)
    <2>1. m \in 0..(Len(p) - 1)
      BY <1>2, <1>6
    <2>2. Append(SubSeq(p, k + 1, m), p[m + 1]) = SubSeq(p, k + 1, m + 1)
      BY <1>2, <2>1, RestGrows
    <2>. QED BY <1>4, <1>5, <1>6, <2>2, Zenon
  <1>8. m + 1 \in 0..Len(p) /\ k \in 0..(m + 1)
    BY <1>2, <1>6
  <1>9. SenderAt(p, k, m + 1)'
    BY <1>4, <1>6, <1>7, Zenon DEF SenderAt
  <1>10. At(p, k, m + 1)' /\ Typed' /\ misread' = FALSE
    <2>1. /\ protocol' = protocol /\ device' = device /\ skip' = skip
          /\ Described(p, k)' = Described(p, k)
      BY <1>4, PlanStays
    <2>2. /\ pc' = pc /\ wanted' = wanted /\ count' = count /\ made' = made
          /\ created' = created /\ misread' = misread
      BY <1>4 DEF reader
    <2>3. ReaderWants(protocol', device', p, k, wanted')
      BY <1>3, <2>1, <2>2, Zenon
    <2>4. CountAt(p, k)' /\ MadeAt(p, k)' /\ CreatedAt(p, k)' /\ Typed'
      BY <1>3, <1>4, <2>1, <2>2, Zenon DEF CountAt, MadeAt, CreatedAt, Typed
    <2>. QED BY <1>3, <1>9, <2>2, <2>3, <2>4, Zenon DEF At
  <1>. QED BY <1>2, <1>4, <1>8, <1>10, StillInPlan, Zenon

(* The sender stops; what is on its way stays, or the end of it is lost.   *)
LEMMA CloseIInv ==
    ASSUME IInv, Close \/ Lose
    PROVE  IInv'
  <1>1. PICK L, p, m, k : Place(L, p, m, k)
    BY SomePlace
  <1>2. /\ L \in LongBits /\ p = Plan(protocol, device, L) /\ p \in Seq(Elements(p))
        /\ m \in 0..Len(p) /\ k \in 0..m /\ k \in Nat /\ m \in Nat /\ Len(p) \in Nat
    BY <1>1, Zenon DEF Place
  <1>3. SenderAt(p, k, m) /\ ReaderWants(protocol, device, p, k, wanted)
        /\ CountAt(p, k) /\ MadeAt(p, k) /\ CreatedAt(p, k) /\ Typed /\ misread = FALSE
    BY <1>1, Zenon DEF Place, At
  <1>4. UNCHANGED input /\ UNCHANGED reader /\ closed' = TRUE /\ lost' \in BOOLEAN
    BY <1>3 DEF Close, Lose, Typed
  <1>5. stream = SubSeq(p, k + 1, m)
    BY <1>3 DEF SenderAt
  <1>6. PICK n \in k..m : stream' = SubSeq(p, k + 1, n)
    <2>1. CASE Close
      <3>1. stream' = stream
        BY <2>1 DEF Close
      <3>2. m \in k..m
        BY <1>2
      <3>. QED BY <1>5, <3>1, <3>2
    <2>2. CASE Lose
      <3>1. PICK j \in 0..Len(stream) : stream' = SubSeq(stream, 1, j)
        BY <2>2 DEF Lose
      <3>2. k + j \in k..m /\ SubSeq(stream, 1, j) = SubSeq(p, k + 1, k + j)
        BY <1>2, <1>5, BetweenPlaces
      <3>. QED BY <3>1, <3>2
    <2>. QED BY <2>1, <2>2
  <1>7. n \in 0..Len(p) /\ k \in 0..n
    BY <1>2
  <1>8. SenderAt(p, k, n)'
    BY <1>4, <1>6, Zenon DEF SenderAt
  <1>9. At(p, k, n)' /\ Typed' /\ misread' = FALSE
    <2>1. /\ protocol' = protocol /\ device' = device /\ skip' = skip
          /\ Described(p, k)' = Described(p, k)
      BY <1>4, PlanStays
    <2>2. /\ pc' = pc /\ wanted' = wanted /\ count' = count /\ made' = made
          /\ created' = created /\ misread' = misread
      BY <1>4 DEF reader
    <2>3. ReaderWants(protocol', device', p, k, wanted')
      BY <1>3, <2>1, <2>2, Zenon
    <2>4. CountAt(p, k)' /\ MadeAt(p, k)' /\ CreatedAt(p, k)' /\ Typed'
      BY <1>3, <1>4, <2>1, <2>2, Zenon DEF CountAt, MadeAt, CreatedAt, Typed
    <2>. QED BY <1>3, <1>8, <2>2, <2>3, <2>4, Zenon DEF At
  <1>. QED BY <1>2, <1>4, <1>7, <1>9, StillInPlan, Zenon

(* The reader reads the field it is in front of as what it is.             *)
LEMMA ReadsTheNext ==
    ASSUME Read, NEW L, NEW p, NEW m, NEW k, Place(L, p, m, k)
    PROVE  /\ k < m /\ k + 1 \in 1..Len(p) /\ Head(wanted) = WantOf(p[k + 1])
           /\ stream' = SubSeq(p, (k + 1) + 1, m)
           /\ wanted' = Remaining(WantOf(p[k + 1]), p[k + 1].value)
           /\ ReaderWants(protocol, device, p, k + 1, wanted')
           /\ made' = IF skip THEN made ELSE Made(WantOf(p[k + 1]), p[k + 1].value)
           /\ count' = IF p[k + 1].what = "count" THEN p[k + 1].value ELSE count
           /\ misread' = FALSE /\ pc' \in {"reading", "failed"}
           /\ UNCHANGED input /\ UNCHANGED sender /\ created' = created
  <1>. DEFINE f == p[k + 1]
  <1>1. /\ L \in LongBits /\ p = Plan(protocol, device, L) /\ p \in Seq(Elements(p))
        /\ m \in 0..Len(p) /\ k \in 0..m /\ k \in Nat /\ m \in Nat /\ Len(p) \in Nat
        /\ protocol \in Protocols /\ device \in Devices /\ misread = FALSE
        /\ SenderAt(p, k, m) /\ ReaderWants(protocol, device, p, k, wanted) /\ CountAt(p, k)
    BY Zenon DEF Place, At
  <1>2. wanted # <<>> /\ stream # <<>> /\ stream = SubSeq(p, k + 1, m)
    BY <1>1 DEF Read, SenderAt
  <1>3. k < m /\ Head(stream) = f /\ Tail(stream) = SubSeq(p, (k + 1) + 1, m)
    BY <1>1, <1>2, BetweenPlaces
  <1>4. k + 1 \in 1..Len(p)
    BY <1>1, <1>3
  <1>5. /\ Head(wanted) = WantOf(f)
        /\ ReaderWants(protocol, device, p, k + 1, Remaining(WantOf(f), f.value))
    BY <1>1, <1>2, <1>4, ReaderMovesOn, Zenon
  <1>6. f.size = WantedSize(WantOf(f))
    BY <1>1, <1>4, SizesAgree, Zenon
  <1>7. WantOf(f).what = f.what /\ WantOf(f).of = f.of
    BY DEF WantOf, Want
  <1>. HIDE DEF f
  <1>8. /\ stream' = Tail(stream) /\ wanted' = Remaining(WantOf(f), f.value)
        /\ made' = IF skip THEN made ELSE Made(WantOf(f), f.value)
        /\ count' = IF f.what = "count" THEN f.value ELSE count
        /\ misread' = misread /\ pc' \in {"reading", "failed"}
        /\ UNCHANGED input /\ UNCHANGED sender /\ created' = created
    BY <1>3, <1>5, <1>6, <1>7 DEF Read
  <1>. QED BY <1>1, <1>3, <1>4, <1>5, <1>8, Zenon DEF f

(* The number of bits of a type fits into 16 bits.                         *)
LEMMA CountsFit == BitCounts \subseteq Counts
  <1>1. PICK m \in Int : m = 65535
    OBVIOUS
  <1>2. Counts = 0..m /\ 831 <= m
    BY <1>1 DEF Counts
  <1>. HIDE <1>1
  <1>3. \A n \in BitCounts : n \in Int /\ 1 <= n /\ n <= 831
    BY DEF BitCounts
  <1>. QED BY <1>2, <1>3

(* One field more has been read.                                           *)
LEMMA ReadIInv ==
    ASSUME IInv, Read
    PROVE  IInv'
  <1>1. PICK L, p, m, k : Place(L, p, m, k)
    BY SomePlace
  <1>. DEFINE f == p[k + 1]
  <1>2. /\ L \in LongBits /\ p = Plan(protocol, device, L) /\ p \in Seq(Elements(p))
        /\ m \in 0..Len(p) /\ k \in 0..m /\ k \in Nat /\ m \in Nat /\ Len(p) \in Nat
        /\ protocol \in Protocols /\ device \in Devices
    BY <1>1, Zenon DEF Place
  <1>3. SenderAt(p, k, m) /\ CountAt(p, k) /\ MadeAt(p, k) /\ CreatedAt(p, k) /\ Typed
    BY <1>1, Zenon DEF Place, At
  <1>4. /\ k < m /\ k + 1 \in 1..Len(p) /\ stream' = SubSeq(p, (k + 1) + 1, m)
        /\ ReaderWants(protocol, device, p, k + 1, wanted')
        /\ made' = IF skip THEN made ELSE Made(WantOf(f), f.value)
        /\ count' = IF f.what = "count" THEN f.value ELSE count
        /\ misread' = FALSE /\ pc' \in {"reading", "failed"}
        /\ UNCHANGED input /\ UNCHANGED sender /\ created' = created
    BY <1>1, ReadsTheNext, Zenon
  <1>5. /\ protocol' = protocol /\ device' = device /\ skip' = skip
        /\ Described(p, k + 1)' = Described(p, k + 1)
    BY <1>4, PlanStays
  <1>6. writes' = writes /\ closed' = closed /\ lost' = lost
    BY <1>4 DEF sender
  <1>7. k + 1 \in 0..m
    BY <1>2, <1>4
  <1>8. SenderAt(p, k + 1, m)'
    BY <1>3, <1>4, <1>6, Zenon DEF SenderAt
  <1>9. ReaderWants(protocol', device', p, k + 1, wanted')
    BY <1>4, <1>5, Zenon
  <1>10. CountAt(p, k + 1)'
    <2>1. f.what = "count" => f.value \in BitCounts
      <3>1. Known(protocol, p, device, k + 1)
        BY <1>2, <1>4, PlanKnown
      <3>. QED BY <3>1, Zenon DEF Known
    <2>2. BitCounts \subseteq Counts
      BY CountsFit
    <2>3. count \in Counts
      BY <1>3, Zenon DEF CountAt
    <2>4. count' \in Counts
      BY <1>4, <2>1, <2>2, <2>3, Zenon
    <2>. QED BY <1>4, <2>4, Zenon DEF CountAt
  <1>11. MadeAt(p, k + 1)'
    <2>1. made = IF skip THEN Nobody ELSE Described(p, k)
      BY <1>3, Zenon DEF MadeAt
    <2>2. CASE skip
      BY <1>4, <1>5, <2>1, <2>2, Zenon DEF MadeAt
    <2>3. CASE ~skip
      <3>1. made = Described(p, k)
        BY <2>1, <2>3
      <3>2. Made(WantOf(f), f.value) = Described(p, k + 1)
        BY <1>2, <1>4, <3>1, MadeMovesOn, Zenon
      <3>. QED BY <1>4, <1>5, <2>3, <3>2, Zenon DEF MadeAt
    <2>. QED BY <2>2, <2>3
  <1>12. CreatedAt(p, k + 1)'
    <2>1. created => ~skip /\ Len(p) - 1 <= k
      BY <1>3, Zenon DEF CreatedAt
    <2>2. Len(p) - 1 <= k => Len(p) - 1 <= k + 1
      BY <1>2
    <2>. QED BY <1>4, <1>5, <2>1, <2>2, Zenon DEF CreatedAt
  <1>13. Typed'
    BY <1>3, <1>4, <1>5, <1>6, Zenon DEF Typed
  <1>14. At(p, k + 1, m)'
    BY <1>8, <1>9, <1>10, <1>11, <1>12, Zenon DEF At
  <1>. QED BY <1>2, <1>4, <1>7, <1>13, <1>14, StillInPlan, Zenon

(* All is read: the device is created, and a packet comes next.            *)
LEMMA NextPacketIInv ==
    ASSUME IInv, NextPacket
    PROVE  IInv'
  <1>1. PICK L, p, m, k : Place(L, p, m, k)
    BY SomePlace
  <1>2. /\ L \in LongBits /\ p = Plan(protocol, device, L) /\ p \in Seq(Elements(p))
        /\ m \in 0..Len(p) /\ k \in 0..m /\ k \in Nat /\ m \in Nat /\ Len(p) \in Nat
        /\ protocol \in Protocols /\ device \in Devices
    BY <1>1, Zenon DEF Place
  <1>3. SenderAt(p, k, m) /\ ReaderWants(protocol, device, p, k, wanted)
        /\ CountAt(p, k) /\ MadeAt(p, k) /\ Typed /\ misread = FALSE
    BY <1>1, Zenon DEF Place, At
  <1>4. /\ UNCHANGED input /\ UNCHANGED sender /\ stream' = stream /\ pc' = pc /\ count' = count
        /\ made' = made /\ misread' = misread /\ created' = ~skip
        /\ wanted = <<>> /\ wanted' = <<PacketWant>>
    BY Zenon DEF NextPacket, PacketWant
  <1>5. Len(p) - 1 <= k /\ ReaderWants(protocol, device, p, k, <<PacketWant>>)
    BY <1>2, <1>3, <1>4, NothingWanted, Zenon
  <1>6. /\ protocol' = protocol /\ device' = device /\ skip' = skip
        /\ Described(p, k)' = Described(p, k)
    BY <1>4, PlanStays
  <1>7. writes' = writes /\ closed' = closed /\ lost' = lost
    BY <1>4 DEF sender
  <1>8. ReaderWants(protocol', device', p, k, wanted')
    BY <1>4, <1>5, <1>6, Zenon
  <1>9. SenderAt(p, k, m)' /\ CountAt(p, k)' /\ MadeAt(p, k)'
    BY <1>3, <1>4, <1>6, <1>7, Zenon DEF SenderAt, CountAt, MadeAt
  <1>10. CreatedAt(p, k)'
    BY <1>4, <1>5, <1>6, Zenon DEF CreatedAt
  <1>11. Typed'
    <2>1. created' \in BOOLEAN
      BY <1>3, <1>4 DEF Typed
    <2>. QED BY <1>3, <1>4, <1>6, <1>7, <2>1, Zenon DEF Typed
  <1>12. At(p, k, m)' /\ misread' = FALSE
    BY <1>3, <1>4, <1>8, <1>9, <1>10, Zenon DEF At
  <1>. QED BY <1>2, <1>4, <1>11, <1>12, StillInPlan, Zenon

(* The reader has come to the end of the data, or nothing happens.         *)
LEMMA EndIInv ==
    ASSUME IInv, EndOfFile \/ UNCHANGED vars
    PROVE  IInv'
  <1>1. PICK L, p, m, k : Place(L, p, m, k)
    BY SomePlace
  <1>2. /\ L \in LongBits /\ p = Plan(protocol, device, L)
        /\ m \in 0..Len(p) /\ k \in 0..m
    BY <1>1, Zenon DEF Place
  <1>3. SenderAt(p, k, m) /\ ReaderWants(protocol, device, p, k, wanted)
        /\ CountAt(p, k) /\ MadeAt(p, k) /\ CreatedAt(p, k) /\ Typed /\ misread = FALSE
    BY <1>1, Zenon DEF Place, At
  <1>4. /\ UNCHANGED input /\ UNCHANGED sender /\ stream' = stream /\ wanted' = wanted
        /\ count' = count /\ made' = made /\ created' = created /\ misread' = misread
        /\ pc' \in {"reading", "failed", "ended"}
    <2>1. CASE EndOfFile
      BY <2>1 DEF EndOfFile
    <2>2. CASE UNCHANGED vars
      BY <1>3, <2>2 DEF vars, reader, Typed
    <2>. QED BY <2>1, <2>2
  <1>5. /\ protocol' = protocol /\ device' = device /\ skip' = skip
        /\ Described(p, k)' = Described(p, k)
    BY <1>4, PlanStays
  <1>6. writes' = writes /\ closed' = closed /\ lost' = lost
    BY <1>4 DEF sender
  <1>7. ReaderWants(protocol', device', p, k, wanted')
    BY <1>3, <1>4, <1>5, Zenon
  <1>8. SenderAt(p, k, m)' /\ CountAt(p, k)' /\ MadeAt(p, k)' /\ CreatedAt(p, k)'
    BY <1>3, <1>4, <1>5, <1>6, Zenon DEF SenderAt, CountAt, MadeAt, CreatedAt
  <1>9. Typed'
    BY <1>3, <1>4, <1>5, <1>6, Zenon DEF Typed
  <1>10. At(p, k, m)' /\ misread' = FALSE
    BY <1>3, <1>4, <1>7, <1>8, Zenon DEF At
  <1>. QED BY <1>2, <1>4, <1>9, <1>10, StillInPlan, Zenon

(* The invariant: writer, stream and reader are at places of one plan.     *)
THEOREM Inductive == Spec => []IInv
  <1>1. Init => IInv
    BY InitIInv
  <1>2. IInv /\ [Next]_vars => IInv'
    <2>. SUFFICES ASSUME IInv, [Next]_vars PROVE IInv'
      OBVIOUS
    <2>1. CASE Write
      BY <2>1, WriteIInv
    <2>2. CASE Close \/ Lose
      BY <2>2, CloseIInv
    <2>3. CASE Read
      BY <2>3, ReadIInv
    <2>4. CASE NextPacket
      BY <2>4, NextPacketIInv
    <2>5. CASE EndOfFile \/ UNCHANGED vars
      BY <2>5, EndIInv
    <2>. QED BY <2>1, <2>2, <2>3, <2>4, <2>5, Zenon DEF Next
  <1>. QED BY <1>1, <1>2, PTL DEF Spec

-----------------------------------------------------------------------------
(* What follows from it.                                                   *)

(* No field is read as another one: the lengths that the reader derives    *)
(* from what it has read are those of the writer, for every description.   *)
THEOREM ReaderInStep == Spec => []InStep
  <1>1. IInv => InStep
    BY Zenon DEF IInv, InStep
  <1>. QED BY <1>1, Inductive, PTL

(* A created device is the one that was described.                         *)
THEOREM DeviceAsDescribed == Spec => []MadeAsDescribed
  <1>1. ASSUME IInv PROVE MadeAsDescribed
    <2>. SUFFICES ASSUME created
                  PROVE  /\ made.types = DOMAIN device.codes \ {"FF"}
                         /\ \A t \in HasUISetBitIOC : made.codes[t] = Expected(t)
                         /\ made.axes = made.codes["ABS"]
      BY Zenon DEF MadeAsDescribed
    <2>1. PICK L, p, m, k : Place(L, p, m, k)
      BY <1>1, SomePlace
    <2>2. /\ L \in LongBits /\ p = Plan(protocol, device, L)
          /\ m \in 0..Len(p) /\ k \in 0..m /\ k \in Nat /\ Len(p) \in Nat
          /\ protocol \in Protocols /\ device \in Devices /\ MadeAt(p, k) /\ CreatedAt(p, k)
      BY <2>1, Zenon DEF Place, At
    <2>3. ~skip /\ Len(p) - 1 <= k
      BY <2>2, Zenon DEF CreatedAt
    <2>4. made = Described(p, k)
      BY <2>2, <2>3, Zenon DEF MadeAt
    <2>5. /\ SentTypes(protocol, device) \subseteq Seen(p, k, "bits")
          /\ Expected("ABS") \subseteq Seen(p, k, "axis")
      BY <2>2, <2>3, AllSeen
    <2>6. Seen(p, k, "bits") \subseteq SentTypes(protocol, device)
      BY <2>2, SeenOfSent
    <2>7. HeadLen(protocol) <= k
      <3>1. HeadLen(protocol) < Len(p) /\ HeadLen(protocol) \in Nat
        BY <2>2, PlanKnown DEF HeadLen
      <3>. QED BY <2>2, <2>3, <3>1
    <2>8. \A t \in HasUISetBitIOC : CodesSeen(p, k, t) = Expected(t)
      BY <2>2, <2>5, <2>6, ExpectedCodes DEF CodesSeen
    <2>9. /\ made.types = TypesSeen(k)
          /\ made.codes = [t \in HasUISetBitIOC |-> CodesSeen(p, k, t)]
          /\ made.axes = Seen(p, k, "axis") \cap Expected("ABS")
      BY <2>4 DEF Described, Thing
    <2>10. made.axes = Expected("ABS")
      BY <2>5, <2>9, Zenon
    <2>11. \A t \in HasUISetBitIOC : made.codes[t] = Expected(t)
      BY <2>8, <2>9
    <2>12. "ABS" \in HasUISetBitIOC
      BY DEF HasUISetBitIOC, MaxCode
    <2>. QED BY <2>7, <2>9, <2>10, <2>11, <2>12, Zenon DEF TypesSeen
  <1>. QED BY <1>1, Inductive, PTL

(* Every value is of its type; no field is longer than what the reader has *)
(* room for, no bit count more than 16 bits.                               *)
THEOREM WireTyped == Spec => []TypeOK
  <1>1. ASSUME IInv PROVE TypeOK
    <2>1. PICK L, p, m, k : Place(L, p, m, k)
      BY <1>1, SomePlace
    <2>2. /\ L \in LongBits /\ p = Plan(protocol, device, L) /\ p \in Seq(Elements(p))
          /\ m \in 0..Len(p) /\ k \in 0..m /\ k \in Nat /\ m \in Nat /\ Len(p) \in Nat
          /\ protocol \in Protocols /\ device \in Devices /\ Typed /\ misread = FALSE
          /\ SenderAt(p, k, m) /\ CountAt(p, k) /\ MadeAt(p, k)
      BY <2>1, Zenon DEF Place, At
    <2>3. ASSUME NEW i \in DOMAIN stream PROVE stream[i].size \in FieldSizes
      <3>1. stream = SubSeq(p, k + 1, m)
        BY <2>2, Zenon DEF SenderAt
      <3>2. k \in 0..Len(p) /\ m \in k..Len(p)
        BY <2>2
      <3>3. /\ SubSeq(p, k + 1, m) \in Seq(Elements(p)) /\ Len(SubSeq(p, k + 1, m)) = m - k
            /\ \A j \in 1..(m - k) : SubSeq(p, k + 1, m)[j] = p[k + j]
        BY <2>2, <3>2, SubSeqParts
      <3>4. i \in 1..(m - k)
        BY <3>1, <3>3, LenProperties
      <3>5. stream[i] = p[k + i] /\ k + i \in 1..Len(p)
        BY <2>2, <3>1, <3>3, <3>4
      <3>6. Known(protocol, p, device, k + i)
        BY <2>2, <3>5, PlanKnown
      <3>. QED BY <3>5, <3>6, Zenon DEF Known
    <2>4. count \in Counts
      BY <2>2, Zenon DEF CountAt
    <2>5. /\ made.types \subseteq Types \ {"FF"} /\ made.axes \subseteq 0..63
          /\ \A t \in HasUISetBitIOC : made.codes[t] \subseteq 0..MaxCode[t]
      <3>1. "ABS" \in HasUISetBitIOC /\ MaxCode["ABS"] = 63
        BY DEF HasUISetBitIOC, MaxCode
      <3>2. \A t \in HasUISetBitIOC : Expected(t) \subseteq 0..MaxCode[t]
        BY <2>2, ExpectedCodes
      <3>3. Expected("ABS") \subseteq 0..63
        BY <3>1, <3>2
      <3>4. CASE skip
        <4>1. made = Nobody
          BY <2>2, <3>4, Zenon DEF MadeAt
        <4>. QED BY <4>1 DEF Nobody
      <3>5. CASE ~skip
        <4>1. /\ made.types = TypesSeen(k)
              /\ made.codes = [t \in HasUISetBitIOC |-> CodesSeen(p, k, t)]
              /\ made.axes = Seen(p, k, "axis") \cap Expected("ABS")
          <5>1. made = Described(p, k)
            BY <2>2, <3>5, Zenon DEF MadeAt
          <5>. QED BY <5>1 DEF Described, Thing
        <4>2. TypesSeen(k) \subseteq Types \ {"FF"}
          <5>1. DOMAIN device.codes \subseteq Types
            BY <2>2, WireAssumption
          <5>. QED BY <5>1, Zenon DEF TypesSeen
        <4>3. \A t \in HasUISetBitIOC : CodesSeen(p, k, t) \subseteq 0..MaxCode[t]
          BY <3>2, Zenon DEF CodesSeen
        <4>. QED BY <3>3, <4>1, <4>2, <4>3
      <3>. QED BY <3>4, <3>5
    <2>. QED BY <2>2, <2>3, <2>4, <2>5, Zenon DEF TypeOK, Typed
  <1>. QED BY <1>1, Inductive, PTL
=============================================================================
