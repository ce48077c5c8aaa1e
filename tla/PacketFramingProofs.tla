------------------------ MODULE PacketFramingProofs ------------------------
(***************************************************************************)
(* Proofs about PacketFraming, for every set of packets, any number of     *)
(* them and reads of any size.  What is in the buffer and on the wire is   *)
(* one stream, the bytes of the packets that are left (Framed); the buffer *)
(* is the first part of it, and either holds the whole length of the next  *)
(* packet or ends inside it (NextInBuffer).                                *)
(***************************************************************************)
EXTENDS PacketFraming, VarIntProofs

-----------------------------------------------------------------------------
(* Two ways to cut one stream in two.                                      *)

SameStream(x, y, s, t) == x \o y = s \o t
BeginsWith(x, y, s, t) == \E r \in Seq(Byte) : x = s \o r /\ t = r \o y

\* The cut between two parts moves from one sequence to the next.
LEMMA Regroup ==
  ASSUME NEW x, NEW y, NEW s \in Seq(Byte), NEW t \in Seq(Byte),
         NEW u \in Seq(Byte), SameStream(x, y, s \o t, u)
  PROVE  SameStream(x, y, s, t \o u)
<1>1. Regroups(s, t, u)
  BY BytesAssociative, Zenon
<1> QED
  BY <1>1, Zenon DEF SameStream, Regroups

\* Of two ways to cut a stream in two, the one whose first part is longer ...
LEMMA LongerPart ==
  ASSUME NEW x \in Seq(Byte), NEW y \in Seq(Byte), NEW s \in Seq(Byte),
         NEW t \in Seq(Byte), SameStream(x, y, s, t),
         Len(s) <= Len(x)
  PROVE  BeginsWith(x, y, s, t)
<1>0. \A a \in Seq(Byte) : Regroups(s, a, y)
  BY BytesAssociative, Zenon
<1> DEFINE n == Len(s)
           r == From(x, n + 1)
           f == SubSeq(x, 1, n)
<1>1. n \in Nat /\ Len(x) \in Nat /\ n \in 0..Len(x) /\ n + 1 \in 1..Len(x) + 1
  BY LenProperties
<1>2. f \o r = x /\ r \in Seq(Byte) /\ f \in Seq(Byte) /\ Len(f) = n
      /\ \A i \in 1..n : f[i] = x[i]
  <2>1. f \o r = x
    BY <1>1, FirstAndRest
  <2>2. r \in Seq(Byte)
    BY <1>1, FromProperties
  <2>3. f \in Seq(Byte) /\ Len(f) = n /\ \A i \in 1..n : f[i] = x[i]
    BY <1>1, FirstProperties
  <2> HIDE DEF f, r
  <2> QED
    BY <2>1, <2>2, <2>3
<1> HIDE DEF r, f
<1>3. \A i \in 1..n : x[i] = s[i]
  <2>1. \A i \in 1..n : (x \o y)[i] = x[i]
    <3>1. \A i \in 1..Len(x) + Len(y) : (x \o y)[i] = IF i <= Len(x) THEN x[i]
                                                     ELSE y[i - Len(x)]
      BY ConcatProperties
    <3>2. \A i \in 1..n : i \in 1..Len(x) + Len(y) /\ i <= Len(x)
      BY <1>1, LenProperties
    <3> QED
      BY <3>1, <3>2
  <2>2. \A i \in 1..n : (s \o t)[i] = s[i]
    <3>1. \A i \in 1..Len(s) + Len(t) : (s \o t)[i] = IF i <= Len(s) THEN s[i]
                                                     ELSE t[i - Len(s)]
      BY ConcatProperties
    <3>2. \A i \in 1..n : i \in 1..Len(s) + Len(t) /\ i <= Len(s)
      BY <1>1, LenProperties
    <3> QED
      BY <3>1, <3>2
  <2> QED
    BY <2>1, <2>2 DEF SameStream
<1>4. f = s
  <2>1. Len(f) = Len(s) /\ \A i \in 1..Len(f) : f[i] = s[i]
    BY <1>2, <1>3
  <2> QED
    BY <1>2, <2>1, SeqEqual
<1>5. x = s \o r
  BY <1>2, <1>4
<1>6. t = r \o y
  <2>1. (s \o r) \o y = s \o (r \o y) /\ r \o y \in Seq(Byte)
    <3>1. r \o y \in Seq(Byte)
      BY <1>2, ConcatProperties
    <3>2. (s \o r) \o y = s \o (r \o y)
      BY <1>0, <1>2, Zenon DEF Regroups
    <3> QED
      BY <3>1, <3>2
  <2>2. s \o (r \o y) = s \o t
    BY <1>5, <2>1 DEF SameStream
  <2> DEFINE z == r \o y
  <2>3. From(s \o z, n + 1) = z
    <3> HIDE DEF z
    <3>1. z \in Seq(Byte)
      BY <2>1 DEF z
    <3> QED
      BY <3>1, ConcatParts
  <2>4. From(s \o t, n + 1) = t
    BY ConcatParts
  <2> QED
    BY <2>2, <2>3, <2>4
<1> QED
  BY <1>2, <1>5, <1>6 DEF BeginsWith

\* ... and the one whose first part is shorter.
LEMMA ShorterPart ==
  ASSUME NEW x \in Seq(Byte), NEW y \in Seq(Byte), NEW s \in Seq(Byte),
         NEW t \in Seq(Byte), SameStream(x, y, s, t),
         Len(x) <= Len(s)
  PROVE  \A i \in 1..Len(x) : x[i] = s[i]
<1>1. Len(x) \in Nat /\ Len(y) \in Nat /\ Len(s) \in Nat /\ Len(t) \in Nat
  BY LenProperties
<1>2. \A i \in 1..Len(x) + Len(y) : (x \o y)[i] = IF i <= Len(x) THEN x[i]
                                                 ELSE y[i - Len(x)]
  BY ConcatProperties
<1>3. \A i \in 1..Len(s) + Len(t) : (s \o t)[i] = IF i <= Len(s) THEN s[i]
                                                 ELSE t[i - Len(s)]
  BY ConcatProperties
<1>4. \A i \in 1..Len(x) : /\ i \in 1..Len(x) + Len(y) /\ i <= Len(x)
                           /\ i \in 1..Len(s) + Len(t) /\ i <= Len(s)
  BY <1>1
<1> QED
  BY <1>2, <1>3, <1>4 DEF SameStream

-----------------------------------------------------------------------------
(* Packets as bytes.                                                       *)

Length(p) == EncodeVarInt(Len(Body(p)))

\* A packet, its length, its body and its bytes.
LEMMA PacketType ==
  ASSUME NEW p \in Packets
  PROVE  /\ p = [id |-> p.id, data |-> p.data]
         /\ p.id \in Int32 /\ p.data \in Seq(Byte) /\ p \in Packet
         /\ EncodeVarInt(p.id) \in Seq(Byte)
         /\ Body(p) \in Seq(Byte) /\ Len(Body(p)) \in Nat
         /\ Len(Body(p)) \in Int32
         /\ Length(p) \in Seq(Byte) /\ Len(Length(p)) \in 1..MaxBytes
         /\ Serialize(p) = Length(p) \o Body(p)
         /\ Serialize(p) \in Seq(Byte)
         /\ Len(Serialize(p)) = Len(Length(p)) + Len(Body(p))
         /\ Len(Serialize(p)) \in Int32
<1>1. p \in Packet /\ Len(Serialize(p)) \in Int32
  BY PacketAssumption
<1>2. /\ p = [id |-> p.id, data |-> p.data]
      /\ p.id \in Int32 /\ p.data \in Seq(Byte)
  BY <1>1 DEF Packet
<1>3. EncodeVarInt(p.id) \in Seq(Byte)
  BY <1>2, EncodeType DEF Int32
<1>4. Body(p) \in Seq(Byte) /\ Len(Body(p)) \in Nat
  <2>1. Body(p) \in Seq(Byte)
    BY <1>2, <1>3, ConcatProperties DEF Body
  <2> QED
    BY <2>1, LenProperties
<1>5. Length(p) \in Seq(Byte) /\ Len(Length(p)) \in Nat
  <2>1. Length(p) \in Seq(Byte)
    BY <1>4, EncodeType DEF Length
  <2> QED
    BY <2>1, LenProperties
<1>6. Serialize(p) = Length(p) \o Body(p)
  BY DEF Serialize, Length
<1>7. /\ Serialize(p) \in Seq(Byte)
      /\ Len(Serialize(p)) = Len(Length(p)) + Len(Body(p))
  BY <1>4, <1>5, <1>6, ConcatProperties
<1>8. Len(Body(p)) \in Int32
  <2>1. Word \div 2 \in Nat
    BY Constants
  <2> QED
    BY <1>1, <1>4, <1>5, <1>7, <2>1 DEF Int32
<1>9. Len(Length(p)) \in 1..MaxBytes
  BY <1>8, Encoding DEF Length
<1> QED
  BY <1>1, <1>2, <1>3, <1>4, <1>5, <1>6, <1>7, <1>8, <1>9

Bytes(s) == FlattenSeq([i \in DOMAIN s |-> Serialize(s[i])])

\* Packets have bytes.
LEMMA SerializedType ==
  ASSUME NEW s \in Seq(Packets)
  PROVE  /\ [i \in DOMAIN s |-> Serialize(s[i])] \in Seq(Seq(Byte))
         /\ Len([i \in DOMAIN s |-> Serialize(s[i])]) = Len(s)
         /\ \A i \in 1..Len(s) :
              [j \in DOMAIN s |-> Serialize(s[j])][i] = Serialize(s[i])
<1>1. DOMAIN s = 1..Len(s) /\ Len(s) \in Nat
  BY LenProperties
<1>2. \A i \in 1..Len(s) : Serialize(s[i]) \in Seq(Byte)
  BY ElementOfSeq, PacketType
<1> QED
  BY <1>1, <1>2

\* The bytes of packets are bytes.
LEMMA BytesType == \A s \in Seq(Packets) : Bytes(s) \in Seq(Byte)
BY SerializedType, FlattenType DEF Bytes

\* No packets have no bytes.
LEMMA BytesEmpty == Bytes(<<>>) = <<>>
<1>1. [i \in DOMAIN <<>> |-> Serialize(<<>>[i])] = <<>>
  <2>1. <<>> \in Seq(Packets)
    BY EmptySeq
  <2> DEFINE t == [i \in DOMAIN <<>> |-> Serialize(<<>>[i])]
  <2>2. t \in Seq(Seq(Byte)) /\ Len(t) = 0
    BY <2>1, SerializedType
  <2> QED
    BY <2>2, EmptySeq
<1> QED
  BY <1>1, FlattenEmpty DEF Bytes

\* The bytes of the first packet come first.
LEMMA BytesCons ==
  ASSUME NEW s \in Seq(Packets), Len(s) > 0
  PROVE  Bytes(s) = Serialize(s[1]) \o Bytes(From(s, 2))
<1> DEFINE r == From(s, 2)
           ss == [i \in DOMAIN s |-> Serialize(s[i])]
           rr == [i \in DOMAIN r |-> Serialize(r[i])]
           tt == <<Serialize(s[1])>> \o rr
           n == Len(s)
<1>1. n \in Nat /\ n > 0 /\ 2 \in 1..n + 1 /\ s[1] \in Packets
  BY ElementOfSeq
<1>2. /\ r \in Seq(Packets) /\ Len(r) = n - 2 + 1
      /\ \A i \in 1..n - 2 + 1 : r[i] = s[2 + i - 1]
  BY <1>1, FromProperties
<1> HIDE DEF r
<1>3. /\ rr \in Seq(Seq(Byte)) /\ Len(rr) = n - 1
      /\ \A i \in 1..n - 1 : rr[i] = Serialize(s[i + 1])
  <2>1. /\ rr \in Seq(Seq(Byte)) /\ Len(rr) = Len(r)
        /\ \A i \in 1..Len(r) : rr[i] = Serialize(r[i])
    BY <1>2, SerializedType
  <2> HIDE DEF rr
  <2>2. n - 2 + 1 = n - 1 /\ \A i \in 1..n - 1 : 2 + i - 1 = i + 1
    BY <1>1
  <2> QED
    BY <1>2, <2>1, <2>2
<1>4. /\ ss \in Seq(Seq(Byte)) /\ Len(ss) = n
      /\ \A i \in 1..n : ss[i] = Serialize(s[i])
  BY SerializedType
<1>5. Serialize(s[1]) \in Seq(Byte)
  BY <1>1, PacketType
<1> HIDE DEF rr, ss
<1>6. /\ tt \in Seq(Seq(Byte)) /\ Len(tt) = n
      /\ tt[1] = Serialize(s[1])
      /\ \A i \in 1..n - 1 : tt[i + 1] = rr[i]
  <2> DEFINE h == <<Serialize(s[1])>>
  <2>1. h \in Seq(Seq(Byte)) /\ Len(h) = 1 /\ h[1] = Serialize(s[1])
    BY <1>5
  <2> HIDE DEF h
  <2>2. /\ h \o rr \in Seq(Seq(Byte)) /\ Len(h \o rr) = Len(h) + Len(rr)
        /\ \A i \in 1..Len(h) + Len(rr) :
             (h \o rr)[i] = IF i <= Len(h) THEN h[i] ELSE rr[i - Len(h)]
    BY <1>3, <2>1, ConcatProperties
  <2>3. /\ 1 + (n - 1) = n /\ 1 \in 1..n
        /\ \A i \in 1..n - 1 : i + 1 \in 1..n /\ ~(i + 1 <= 1) /\ (i + 1) - 1 = i
    BY <1>1
  <2> QED
    BY <1>3, <2>1, <2>2, <2>3 DEF h
<1> HIDE DEF tt
<1>7. ss = tt
  <2>1. ASSUME NEW i \in 1..n
        PROVE  ss[i] = tt[i]
    <3>1. CASE i = 1
      BY <1>4, <1>6, <3>1
    <3>2. CASE i # 1
      <4>1. i - 1 \in 1..n - 1 /\ (i - 1) + 1 = i
        BY <1>1, <3>2
      <4> QED
        BY <1>3, <1>4, <1>6, <4>1
    <3> QED
      BY <3>1, <3>2
  <2> QED
    BY <1>4, <1>6, <2>1, SeqEqual
<1>8. FlattenSeq(tt) = Serialize(s[1]) \o FlattenSeq(rr)
  BY <1>3, <1>5, FlattenCons DEF tt
<1> QED
  BY <1>7, <1>8 DEF Bytes, ss, rr, r

\* The bytes of the last packet come last.
LEMMA BytesAppend ==
  ASSUME NEW s \in Seq(Packets), NEW p \in Packets
  PROVE  Bytes(Append(s, p)) = Bytes(s) \o Serialize(p)
<1> DEFINE r == Append(s, p)
           ss == [i \in DOMAIN s |-> Serialize(s[i])]
           rr == [i \in DOMAIN r |-> Serialize(r[i])]
           tt == Append(ss, Serialize(p))
           n == Len(s)
<1>1. n \in Nat
  BY LenProperties
<1>2. /\ r \in Seq(Packets) /\ Len(r) = n + 1
      /\ \A i \in 1..n : r[i] = s[i]
      /\ r[n + 1] = p
  BY AppendProperties
<1> HIDE DEF r
<1>3. /\ rr \in Seq(Seq(Byte)) /\ Len(rr) = n + 1
      /\ \A i \in 1..n + 1 : rr[i] = Serialize(r[i])
  BY <1>2, SerializedType
<1>4. /\ ss \in Seq(Seq(Byte)) /\ Len(ss) = n
      /\ \A i \in 1..n : ss[i] = Serialize(s[i])
  BY SerializedType
<1>5. Serialize(p) \in Seq(Byte)
  BY PacketType
<1> HIDE DEF rr, ss
<1>6. /\ tt \in Seq(Seq(Byte)) /\ Len(tt) = n + 1
      /\ \A i \in 1..n : tt[i] = ss[i]
      /\ tt[n + 1] = Serialize(p)
  BY <1>4, <1>5, AppendProperties
<1> HIDE DEF tt
<1>7. rr = tt
  <2>1. ASSUME NEW i \in 1..n + 1
        PROVE  rr[i] = tt[i]
    <3>1. CASE i = n + 1
      BY <1>2, <1>3, <1>6, <3>1
    <3>2. CASE i # n + 1
      <4>1. i \in 1..n
        BY <1>1, <3>2
      <4> QED
        BY <1>2, <1>3, <1>4, <1>6, <4>1
    <3> QED
      BY <3>1, <3>2
  <2> QED
    BY <1>3, <1>6, <2>1, SeqEqual
<1>8. FlattenSeq(tt) = FlattenSeq(ss) \o Serialize(p)
  BY <1>4, <1>5, FlattenAppend DEF tt
<1> QED
  BY <1>7, <1>8 DEF Bytes, ss, rr, r

\* A packet of any id and any data is read back from its bytes
\* (packet.cpp:5-31).
THEOREM DeserializeSerialize ==
  ASSUME NEW p \in Packets
  PROVE  Deserialize[Serialize(p)] = p
<1> DEFINE l == Length(p)
           b == Body(p)
           i == EncodeVarInt(p.id)
<1>1. /\ p = [id |-> p.id, data |-> p.data]
      /\ p.id \in Int32 /\ p.data \in Seq(Byte)
      /\ i \in Seq(Byte) /\ b \in Seq(Byte) /\ l \in Seq(Byte)
      /\ Serialize(p) = l \o b /\ Serialize(p) \in Seq(Byte)
      /\ Len(b) \in Int32 /\ l = EncodeVarInt(Len(b)) /\ b = i \o p.data
  BY PacketType DEF Body, Length
<1> DEFINE D(s) == LET body == From(s, DecodeVarInt(s).bytesRead + 1)
                       id == DecodeVarInt(body)
                   IN  [id |-> id.value, data |-> From(body, id.bytesRead + 1)]
<1>2. Deserialize = [s \in Seq(Byte) |-> D(s)]
  BY DEF Deserialize
<1>3. Deserialize[Serialize(p)] = D(l \o b)
  BY <1>1, <1>2
<1> HIDE DEF l, b, i
<1>4. DecodeVarInt(l \o b).bytesRead = Len(l)
  <2>1. \A m \in Int32 :
          DecodeVarInt(EncodeVarInt(m) \o b).bytesRead = Len(EncodeVarInt(m))
    <3> SUFFICES ASSUME NEW m \in Int32
                 PROVE  DecodeVarInt(EncodeVarInt(m) \o b).bytesRead
                          = Len(EncodeVarInt(m))
      OBVIOUS
    <3>1. b \in Seq(Byte)
      BY <1>1
    <3>2. DecodeVarInt(EncodeVarInt(m) \o b)
            = [value |-> m, bytesRead |-> Len(EncodeVarInt(m))]
      BY <3>1, Decoding
    <3> QED
      BY <3>2
  <2> QED
    BY <1>1, <2>1
<1>5. From(l \o b, Len(l) + 1) = b
  BY <1>1, ConcatParts
<1>6. DecodeVarInt(b).value = p.id /\ DecodeVarInt(b).bytesRead = Len(i)
  <2>1. p.id \in Int32 /\ p.data \in Seq(Byte)
    BY <1>1
  <2>2. DecodeVarInt(EncodeVarInt(p.id) \o p.data)
          = [value |-> p.id, bytesRead |-> Len(EncodeVarInt(p.id))]
    BY <2>1, Decoding
  <2>3. b = EncodeVarInt(p.id) \o p.data
    BY <1>1 DEF i
  <2>4. DecodeVarInt(b) = [value |-> p.id, bytesRead |-> Len(i)]
    BY <2>2, <2>3, Zenon DEF i
  <2> QED
    BY <2>4
<1>7. From(b, Len(i) + 1) = p.data
  BY <1>1, ConcatParts
<1>8. D(l \o b) = [id |-> p.id, data |-> p.data]
  BY <1>4, <1>5, <1>6, <1>7
<1> QED
  BY <1>1, <1>3, <1>8

\* Whatever is cut from the buffer, a packet comes out.
LEMMA DeserializeType ==
  ASSUME NEW s \in Seq(Byte)
  PROVE  Deserialize[s] \in Packet
<1> DEFINE k == DecodeVarInt(s).bytesRead
           body == From(s, k + 1)
           j == DecodeVarInt(body).bytesRead
<1>1. Deserialize[s] = [id |-> DecodeVarInt(body).value,
                        data |-> From(body, j + 1)]
  BY DEF Deserialize
<1>2. k + 1 \in 1..Len(s) + 1
  <2>1. k \in Nat /\ k <= Len(s) /\ Len(s) \in Nat
    BY DecodingType, LenProperties
  <2> HIDE DEF k
  <2> QED
    BY <2>1
<1>3. body \in Seq(Byte)
  BY <1>2, FromProperties
<1> HIDE DEF body
<1>4. j + 1 \in 1..Len(body) + 1 /\ DecodeVarInt(body).value \in Int32
  <2>1. j \in Nat /\ j <= Len(body) /\ DecodeVarInt(body).value \in Int32
        /\ Len(body) \in Nat
    BY <1>3, DecodingType, LenProperties
  <2> HIDE DEF j
  <2> QED
    BY <2>1
<1>5. From(body, j + 1) \in Seq(Byte)
  BY <1>3, <1>4, FromProperties
<1> QED
  BY <1>1, <1>4, <1>5 DEF Packet

-----------------------------------------------------------------------------
(* The buffer.                                                             *)

Left == From(sent, Len(received) + 1)

\* What is in the buffer and on the wire is what is left to be received.
Framed ==
  /\ Len(received) <= Len(sent)
  /\ buffer \o wire = Bytes(Left)

\* Framed says what Aligned says, and that no packet is made up.
LEMMA FramedAligned == Framed => Aligned
BY DEF Framed, Left, Bytes, Aligned

\* The packets that are left to be received.
LEMMA LeftProperties ==
  ASSUME TypeOK, Len(received) <= Len(sent)
  PROVE  /\ Left \in Seq(Packets) /\ Len(received) \in Nat /\ Len(sent) \in Nat
         /\ Len(Left) = Len(sent) - Len(received)
         /\ \A i \in 1..Len(Left) : Left[i] = sent[Len(received) + i]
<1> DEFINE r == Len(received)
           n == Len(sent)
<1>1. sent \in Seq(Packets) /\ r \in Nat /\ n \in Nat /\ r <= n
  BY LenProperties DEF TypeOK
<1>2. r + 1 \in 1..n + 1
  BY <1>1
<1>3. /\ Left \in Seq(Packets) /\ Len(Left) = n - (r + 1) + 1
      /\ \A i \in 1..n - (r + 1) + 1 : Left[i] = sent[(r + 1) + i - 1]
  BY <1>1, <1>2, FromProperties DEF Left
<1> HIDE DEF r, n
<1>4. n - (r + 1) + 1 = n - r
  BY <1>1
<1>5. \A i \in 1..n - r : Left[i] = sent[r + i]
  <2>1. \A i \in 1..n - r : (r + 1) + i - 1 = r + i
    BY <1>1
  <2> QED
    BY <1>3, <1>4, <2>1
<1> QED
  BY <1>1, <1>3, <1>4, <1>5 DEF r, n

\* The size is not cut when it is an int.
LEMMA TotalSizeOf ==
  ASSUME NEW b, NEW v \in Nat, NEW k \in Nat, k + v \in Int32,
         DecodeVarInt(b) = [value |-> v, bytesRead |-> k]
  PROVE  TotalSize(b) = k + v
BY SignedUnsigned DEF TotalSize

\* What is true of the buffer when a packet is looked for in it: the packet
\* there is the next one, or the buffer ends inside its length.
LEMMA NextInBuffer ==
  ASSUME TypeOK, Framed, buffer # <<>>
  PROVE  LET p == sent[Len(received) + 1]
             size == Len(Serialize(p))
         IN  /\ Len(received) < Len(sent) /\ p \in Packets
             /\ ~Fatal(buffer)
             /\ \/ \A i \in DOMAIN buffer : Continues(buffer[i])
                \/ /\ TotalSize(buffer) = size
                   /\ Complete(buffer) =>
                        /\ SubSeq(buffer, 1, size) = Serialize(p)
                        /\ From(buffer, size + 1) \o wire
                             = Bytes(From(sent, Len(received) + 2))
<1> DEFINE p == sent[Len(received) + 1]
           l == Length(p)
           body == Body(p)
           s == Serialize(p)
           rest == Bytes(From(sent, Len(received) + 2))
           after == body \o rest
<1>1. buffer \in Seq(Byte) /\ wire \in Seq(Byte) /\ sent \in Seq(Packets)
      /\ Len(buffer) \in Nat /\ Len(buffer) > 0 /\ DOMAIN buffer = 1..Len(buffer)
  BY LenProperties, EmptySeq DEF TypeOK
<1>2. Left \in Seq(Packets) /\ Len(received) \in Nat /\ Len(sent) \in Nat
      /\ Len(Left) = Len(sent) - Len(received)
      /\ \A i \in 1..Len(Left) : Left[i] = sent[Len(received) + i]
  BY LeftProperties DEF Framed
<1>3. Len(received) < Len(sent)
  <2> SUFFICES ASSUME ~(Len(received) < Len(sent)) PROVE FALSE
    OBVIOUS
  <2>1. Len(Left) = 0
    BY <1>2 DEF Framed
  <2>2. Left = <<>>
    BY <1>2, <2>1, EmptySeq
  <2>3. buffer \o wire = <<>>
    BY <2>2, BytesEmpty DEF Framed
  <2>4. Len(buffer \o wire) = Len(buffer) + Len(wire) /\ Len(wire) \in Nat
    BY <1>1, ConcatProperties, LenProperties
  <2> QED
    BY <1>1, <2>3, <2>4
<1>4. p \in Packets
  <2>1. Len(received) + 1 \in 1..Len(sent)
    BY <1>2, <1>3
  <2> QED
    BY <1>1, <2>1, ElementOfSeq
<1>5. /\ p.id \in Int32 /\ p.data \in Seq(Byte)
      /\ body \in Seq(Byte) /\ Len(body) \in Nat /\ Len(body) \in Int32
      /\ l \in Seq(Byte) /\ Len(l) \in 1..MaxBytes /\ s = l \o body
      /\ s \in Seq(Byte) /\ Len(s) = Len(l) + Len(body) /\ Len(s) \in Int32
      /\ l = EncodeVarInt(Len(body)) /\ body = EncodeVarInt(p.id) \o p.data
  BY <1>4, PacketType DEF Length, Body
<1>6. buffer \o wire = s \o rest /\ rest \in Seq(Byte)
  <2>1. Left[1] = p /\ Len(Left) > 0
    BY <1>2, <1>3
  <2>2. From(Left, 2) = From(sent, Len(received) + 2)
    <3> DEFINE m == Len(received) + 2
    <3>1. m \in 1..Len(sent) + 1 /\ 2 \in 1..Len(Left) + 1
      BY <1>2, <1>3
    <3>2. /\ From(Left, 2) \in Seq(Packets)
          /\ Len(From(Left, 2)) = Len(Left) - 2 + 1
          /\ \A i \in 1..Len(Left) - 2 + 1 : From(Left, 2)[i] = Left[2 + i - 1]
      BY <1>2, <3>1, FromProperties
    <3>3. /\ From(sent, m) \in Seq(Packets)
          /\ Len(From(sent, m)) = Len(sent) - m + 1
          /\ \A i \in 1..Len(sent) - m + 1 : From(sent, m)[i] = sent[m + i - 1]
      BY <1>1, <3>1, FromProperties
    <3>4. Len(From(Left, 2)) = Len(From(sent, m))
      BY <1>2, <3>2, <3>3
    <3>5. ASSUME NEW i \in 1..Len(From(Left, 2))
          PROVE  From(Left, 2)[i] = From(sent, m)[i]
      <4>1. /\ 2 + i - 1 = i + 1 /\ i + 1 \in 1..Len(Left)
            /\ m + i - 1 = Len(received) + (i + 1)
            /\ i \in 1..Len(Left) - 2 + 1 /\ i \in 1..Len(sent) - m + 1
        BY <1>2, <3>2
      <4>2. From(Left, 2)[i] = Left[i + 1] /\ From(sent, m)[i] = sent[m + i - 1]
        BY <3>2, <3>3, <4>1
      <4> QED
        BY <1>2, <4>1, <4>2
    <3> QED
      BY <3>2, <3>3, <3>4, <3>5, SeqEqual
  <2>3. Bytes(Left) = s \o rest
    BY <1>2, <2>1, <2>2, BytesCons
  <2>4. From(sent, Len(received) + 2) \in Seq(Packets)
    <3>1. Len(received) + 2 \in 1..Len(sent) + 1
      BY <1>2, <1>3
    <3> QED
      BY <1>1, <3>1, FromProperties
  <2> QED
    BY <2>3, <2>4, BytesType DEF Framed
<1> HIDE DEF p, l, body, s, rest
<1>a. /\ l \in Seq(Byte) /\ body \in Seq(Byte) /\ s \in Seq(Byte)
      /\ rest \in Seq(Byte) /\ after \in Seq(Byte)
      /\ buffer \in Seq(Byte) /\ wire \in Seq(Byte)
  BY <1>1, <1>5, <1>6, ConcatProperties
<1>b. /\ Len(l) \in Nat /\ Len(l) > 0 /\ Len(body) \in Nat /\ Len(buffer) \in Nat
      /\ Len(buffer) > 0 /\ Len(s) = Len(l) + Len(body)
      /\ Len(l) + Len(body) \in Int32
  <2>1. Len(l) \in Nat /\ Len(l) > 0
    <3>1. Len(l) \in 1..MaxBytes
      BY <1>5
    <3> QED
      BY <3>1, Constants
  <2>2. Len(l) + Len(body) = Len(s) /\ Len(s) \in Int32
    BY <1>5
  <2>3. Len(l) + Len(body) \in Int32
    BY <2>2
  <2> QED
    BY <1>1, <1>5, <2>1, <2>2, <2>3
<1>c. /\ SameStream(buffer, wire, s, rest)
      /\ SameStream(buffer, wire, l, after)
  <2>1. SameStream(buffer, wire, l \o body, rest) /\ l \o body = s
    BY <1>5, <1>6 DEF SameStream
  <2> QED
    BY <1>a, <2>1, Regroup
<1> HIDE DEF after
<1>7. CASE Len(l) <= Len(buffer)
  <2>2. PICK r \in Seq(Byte) : buffer = l \o r
    <3>1. BeginsWith(buffer, wire, l, after)
      BY <1>a, <1>c, <1>7, LongerPart
    <3> QED
      BY <3>1 DEF BeginsWith
  <2>3. ~Throws(buffer)
        /\ DecodeVarInt(buffer) = [value |-> Len(body), bytesRead |-> Len(l)]
    BY <1>5, <2>2, Decoding
  <2>4. TotalSize(buffer) = Len(s)
    BY <1>b, <2>3, TotalSizeOf
  <2>5. Complete(buffer) => /\ SubSeq(buffer, 1, Len(s)) = s
                            /\ From(buffer, Len(s) + 1) \o wire = rest
    <3> SUFFICES ASSUME Complete(buffer)
                 PROVE  /\ SubSeq(buffer, 1, Len(s)) = s
                        /\ From(buffer, Len(s) + 1) \o wire = rest
      OBVIOUS
    <3>1. Len(s) <= Len(buffer)
      BY <1>b, <2>4 DEF Complete
    <3>2. PICK q \in Seq(Byte) : buffer = s \o q /\ rest = q \o wire
      <4>1. BeginsWith(buffer, wire, s, rest)
        BY <1>a, <1>c, <3>1, LongerPart
      <4> QED
        BY <4>1 DEF BeginsWith
    <3> QED
      BY <1>a, <3>2, ConcatParts
  <2>6. ~Fatal(buffer)
    <3>1. TotalSize(buffer) >= 0
      BY <1>b, <2>4
    <3>2. ASSUME Complete(buffer)
          PROVE  ~Throws(SubSeq(buffer, Len(l) + 1, Len(s)))
      <4>1. SubSeq(buffer, Len(l) + 1, Len(s)) = body
        <5>1. From(s, Len(l) + 1) = body
          BY <1>5, ConcatParts
        <5>2. SubSeq(s, Len(l) + 1, Len(s)) = body
          BY <5>1 DEF From
        <5>3. SubSeq(buffer, 1, Len(s)) = s
          BY <2>5, <3>2
        <5>4. SubSeq(buffer, Len(l) + 1, Len(s)) = SubSeq(s, Len(l) + 1, Len(s))
          <6>1. PICK q \in Seq(Byte) : buffer = s \o q
            <7>1. Len(s) <= Len(buffer)
              BY <1>b, <2>4, <3>2 DEF Complete
            <7>2. BeginsWith(buffer, wire, s, rest)
              BY <1>a, <1>c, <7>1, LongerPart
            <7> QED
              BY <7>2 DEF BeginsWith
          <6>2. CASE Len(body) = 0
            <7>1. Len(s) < Len(l) + 1
              BY <1>b, <6>2
            <7>2. /\ SubSeq(buffer, Len(l) + 1, Len(s)) = <<>>
                  /\ SubSeq(s, Len(l) + 1, Len(s)) = <<>>
              BY <1>b, <7>1, SubSeqEmpty
            <7> QED
              BY <7>2
          <6>3. CASE Len(body) > 0
            <7>1. Len(l) + 1 \in 1..Len(s) /\ Len(s) \in 1..Len(s)
              BY <1>b, <6>3
            <7> QED
              BY <1>a, <6>1, <7>1, SubSeqOfConcat1
          <6> QED
            BY <1>b, <6>2, <6>3
        <5> QED
          BY <5>2, <5>4
      <4>2. ~Throws(body)
        BY <1>5, Decoding
      <4> QED
        BY <4>1, <4>2
    <3> QED
      BY <2>3, <2>4, <3>1, <3>2 DEF Fatal
  <2> QED
    BY <1>3, <1>4, <2>4, <2>5, <2>6 DEF p, s, rest
<1>8. CASE Len(buffer) < Len(l)
  <2> DEFINE k == Len(buffer)
             v == Unsigned(Len(body)) % Weight[k]
  <2>2. \A i \in 1..k : buffer[i] = l[i]
    <3>1. Len(buffer) <= Len(l)
      BY <1>b, <1>8
    <3> QED
      BY <1>a, <1>c, <3>1, ShorterPart
  <2>3. /\ \A i \in 1..k : Continues(buffer[i])
        /\ ~Throws(buffer)
        /\ DecodeVarInt(buffer) = [value |-> v, bytesRead |-> k]
    BY <1>1, <1>5, <1>8, <2>2, DecodingCut
  <2>4. v \in Nat /\ v <= Len(body)
    <3> DEFINE u == Unsigned(Len(body))
               w == Weight[k]
               q == u \div w
               m == q * w
    <3>1. u = Len(body)
      <4>1. Len(body) < Word
        <5>1. Word \div 2 \in Nat /\ Word \div 2 < Word
          BY Constants
        <5> QED
          <6>1. Len(body) \in Int32
            BY <1>5
          <6> QED
            BY <1>b, <5>1, <6>1, Constants DEF Int32
      <4> QED
        BY <1>b, <4>1, Smaller, Constants DEF Unsigned
    <3> HIDE DEF u
    <3>2. w \in Nat /\ w > 0 /\ u \in Nat
      BY <1>b, <3>1, WeightPositive
    <3> HIDE DEF w
    <3>3. q \in Nat /\ u % w \in Nat /\ u = m + (u % w)
      BY <3>2, Division
    <3>4. m \in Nat
      <4> HIDE DEF q
      <4> QED
        BY <3>2, <3>3
    <3> HIDE DEF m
    <3>5. u % w \in Nat /\ u % w <= u
      BY <3>2, <3>3, <3>4
    <3> QED
      BY <3>1, <3>5 DEF u, w
  <2>5. TotalSize(buffer) = k + v
    <3> HIDE DEF v
    <3>1. Word \div 2 \in Nat
      BY Constants
    <3>2. k + v \in Int32
      BY <1>b, <1>8, <2>4, <3>1 DEF Int32
    <3> QED
      BY <1>1, <2>3, <2>4, <3>2, TotalSizeOf
  <2>6. ~Fatal(buffer)
    <3>1. TotalSize(buffer) >= 0
      BY <1>1, <2>4, <2>5
    <3>2. ASSUME Complete(buffer)
          PROVE  ~Throws(SubSeq(buffer, k + 1, TotalSize(buffer)))
      <4>1. v = 0
        BY <1>1, <2>4, <2>5, <3>2 DEF Complete
      <4>2. SubSeq(buffer, k + 1, k) = <<>>
        BY <1>1, SubSeqEmpty
      <4>3. ~Throws(<<>>)
        BY Constants, EmptySeq DEF Throws
      <4>4. TotalSize(buffer) = k
        BY <1>b, <2>5, <4>1
      <4> QED
        BY <4>2, <4>3, <4>4
    <3>3. DecodeVarInt(buffer).bytesRead = k /\ ~(TotalSize(buffer) < 0)
      BY <1>b, <2>3, <2>4, <2>5
    <3> HIDE DEF k, v
    <3> QED
      BY <2>3, <3>2, <3>3 DEF Fatal
  <2> QED
    BY <1>1, <1>3, <1>4, <2>3, <2>6 DEF p, s, rest
<1>9. Len(l) <= Len(buffer) \/ Len(buffer) < Len(l)
  BY <1>b
<1> QED
  BY <1>7, <1>8, <1>9

-----------------------------------------------------------------------------
(* Types.                                                                  *)

\* The bytes that a read may move.
LEMMA ReadType ==
  ASSUME wire \in Seq(Byte), wire # <<>>,
         NEW n \in 1..Min({Len(wire), ReadSize})
  PROVE  n \in 1..Len(wire)
<1>1. Len(wire) \in Nat /\ Len(wire) > 0 /\ ReadSize \in Nat
  BY LenProperties, EmptySeq, PacketAssumption
<1>2. {Len(wire), ReadSize} \in SUBSET Nat /\ {Len(wire), ReadSize} # {}
  BY <1>1
<1>3. Min({Len(wire), ReadSize}) \in Nat /\ Min({Len(wire), ReadSize}) <= Len(wire)
  BY <1>2, MinType
<1> QED
  BY <1>1, <1>3

\* The size is a number, whatever the buffer holds.
LEMMA TotalSizeType == \A b \in Seq(Byte) : TotalSize(b) \in Int
<1> SUFFICES ASSUME NEW b \in Seq(Byte) PROVE TotalSize(b) \in Int
  OBVIOUS
<1>1. /\ DecodeVarInt(b).value \in Int /\ DecodeVarInt(b).bytesRead \in Int
  BY DecodingType, Constants DEF Int32
<1>2. DecodeVarInt(b).bytesRead + DecodeVarInt(b).value \in Int
  BY <1>1
<1>3. \A m \in Int : Signed(Unsigned(m)) \in Int
  BY Constants DEF Signed, Unsigned
<1> QED
  BY <1>2, <1>3 DEF TotalSize

\* A packet that is taken lies in the buffer.
LEMMA SizeType ==
  ASSUME buffer \in Seq(Byte), ~Fatal(buffer), Complete(buffer)
  PROVE  TotalSize(buffer) \in 0..Len(buffer)
<1>1. TotalSize(buffer) \in Int /\ Len(buffer) \in Nat
  BY TotalSizeType, LenProperties
<1> QED
  BY <1>1 DEF Fatal, Complete

\* At first nothing has been sent.
LEMMA TypeOKInit == Init => TypeOK
<1> SUFFICES ASSUME Init PROVE TypeOK
  OBVIOUS
<1>1. /\ sent = <<>> /\ wire = <<>> /\ buffer = <<>> /\ received = <<>>
      /\ closed = FALSE /\ pc = "read" /\ cut = FALSE /\ burst = FALSE
  BY DEF Init
<1>2. Len(<<>>) = 0 /\ 0 <= MaxSent
  BY PacketAssumption
<1> QED
  BY <1>1, <1>2, EmptySeq DEF TypeOK

\* A packet that is sent is bytes on the wire.
LEMMA TypeOKSend ==
  ASSUME TypeOK, NEW p \in Packets, Send(p)
  PROVE  TypeOK'
<1>1. Serialize(p) \in Seq(Byte)
  BY PacketType
<1>2. wire' \in Seq(Byte)
  BY <1>1, ConcatProperties DEF Send, TypeOK
<1>3. sent' \in Seq(Packets) /\ Len(sent') = Len(sent) + 1
  BY AppendProperties DEF Send, TypeOK
<1>4. Len(sent') <= MaxSent
  BY <1>3, LenProperties, PacketAssumption DEF Send, TypeOK
<1> QED
  BY <1>2, <1>3, <1>4 DEF Send, TypeOK, histVars

\* A read moves bytes from the wire to the buffer.
LEMMA TypeOKReadBytes ==
  ASSUME TypeOK, ReadBytes
  PROVE  TypeOK'
<1>1. PICK n \in 1..Min({Len(wire), ReadSize}) :
        /\ buffer' = buffer \o SubSeq(wire, 1, n)
        /\ wire' = From(wire, n + 1)
  BY DEF ReadBytes
<1>2. n \in 1..Len(wire) /\ Len(wire) \in Nat
  BY ReadType, LenProperties DEF ReadBytes, TypeOK
<1>3. n \in 0..Len(wire) /\ n + 1 \in 1..Len(wire) + 1
  BY <1>2
<1>4. SubSeq(wire, 1, n) \in Seq(Byte) /\ From(wire, n + 1) \in Seq(Byte)
  BY <1>3, FirstProperties, FromProperties DEF TypeOK
<1>5. buffer' \in Seq(Byte) /\ wire' \in Seq(Byte)
  BY <1>1, <1>4, ConcatProperties DEF TypeOK
<1>6. burst' \in BOOLEAN
  BY DEF ReadBytes
<1> QED
  BY <1>5, <1>6 DEF ReadBytes, TypeOK

\* Taking a packet leaves bytes in the buffer.
LEMMA TypeOKTakePacket ==
  ASSUME TypeOK, TakePacket
  PROVE  TypeOK'
<1> DEFINE size == TotalSize(buffer)
<1>1. buffer \in Seq(Byte) /\ Len(buffer) \in Nat
  BY LenProperties DEF TypeOK
<1>2. size \in 0..Len(buffer)
  BY <1>1, SizeType DEF TakePacket
<1>3. /\ received' = Append(received, Deserialize[SubSeq(buffer, 1, size)])
      /\ buffer' = From(buffer, size + 1)
      /\ cut' \in BOOLEAN
  BY DEF TakePacket
<1> HIDE DEF size
<1>4. size + 1 \in 1..Len(buffer) + 1
  BY <1>1, <1>2
<1>5. SubSeq(buffer, 1, size) \in Seq(Byte) /\ From(buffer, size + 1) \in Seq(Byte)
  BY <1>1, <1>2, <1>4, FirstProperties, FromProperties
<1>6. received' \in Seq(Packet)
  BY <1>3, <1>5, DeserializeType, AppendProperties DEF TypeOK
<1> QED
  BY <1>3, <1>5, <1>6 DEF TakePacket, TypeOK

\* The types, over all steps.
LEMMA TypeOKNext == TypeOK /\ [Next]_vars => TypeOK'
<1> SUFFICES ASSUME TypeOK, [Next]_vars PROVE TypeOK'
  OBVIOUS
<1>1. ASSUME NEW p \in Packets, Send(p) PROVE TypeOK'
  BY <1>1, TypeOKSend
<1>2. CASE Close
  BY <1>2 DEF Close, TypeOK, histVars
<1>3. CASE ReadBytes
  BY <1>3, TypeOKReadBytes
<1>4. CASE ReadEnd
  BY <1>4 DEF ReadEnd, TypeOK, histVars
<1>5. CASE TakePacket
  BY <1>5, TypeOKTakePacket
<1>6. CASE NoPacket
  BY <1>6 DEF NoPacket, TypeOK, histVars
<1>7. CASE Abort
  BY <1>7 DEF Abort, TypeOK, histVars
<1>8. CASE UNCHANGED vars
  BY <1>8 DEF vars, TypeOK, histVars
<1> QED
  BY <1>1, <1>2, <1>3, <1>4, <1>5, <1>6, <1>7, <1>8 DEF Next, ServerStep

\* The variables keep their types: whatever is cut from the buffer, a packet
\* comes out, and what is left are bytes (tcpclient.cpp:31-66).
THEOREM TypeCorrect == Spec => []TypeOK
BY TypeOKInit, TypeOKNext, PTL DEF Spec

-----------------------------------------------------------------------------
(* The framing.                                                            *)

\* Until a length is cut, what is in the buffer and on the wire is what is left
\* to be received; and the process dies of nothing else.
Framing ==
  /\ TypeOK
  /\ cut \/ Framed
  /\ pc = "aborted" => cut

\* At first nothing is left to be received.
LEMMA FramingInit == Init => Framing
<1> SUFFICES ASSUME Init PROVE Framing
  OBVIOUS
<1>1. TypeOK
  BY TypeOKInit
<1>2. sent = <<>> /\ received = <<>> /\ buffer = <<>> /\ wire = <<>> /\ pc = "read"
  BY DEF Init
<1>3. Len(received) = 0 /\ Len(sent) = 0
  BY <1>2, EmptySeq
<1>4. Left = <<>>
  <2>1. Left \in Seq(Packets) /\ Len(Left) = 0
    BY <1>1, <1>3, LeftProperties
  <2> QED
    BY <2>1, EmptySeq
<1>5. buffer \o wire = <<>>
  BY <1>2, ConcatEmptySeq, EmptySeq
<1> QED
  BY <1>1, <1>2, <1>3, <1>4, <1>5, BytesEmpty DEF Framing, Framed

\* What the client sends is the last that is left to be received.
LEMMA FramedSend ==
  ASSUME TypeOK, Framed, NEW p \in Packets, Send(p)
  PROVE  Framed'
<1> DEFINE r == Len(received)
           n == Len(sent)
<1>1. /\ Left \in Seq(Packets) /\ r \in Nat /\ n \in Nat /\ Len(Left) = n - r
      /\ \A i \in 1..Len(Left) : Left[i] = sent[r + i]
  BY LeftProperties DEF Framed
<1>2. r <= n
  BY DEF Framed
<1>3. /\ sent' \in Seq(Packets) /\ Len(sent') = n + 1
      /\ \A i \in 1..n : sent'[i] = sent[i]
      /\ sent'[n + 1] = p
  BY AppendProperties DEF Send, TypeOK
<1>4. /\ received' = received /\ buffer' = buffer /\ wire' = wire \o Serialize(p)
  BY DEF Send
<1>5. Left' = From(sent', r + 1)
  BY <1>4 DEF Left
<1> HIDE DEF r, n
<1>6. /\ Append(Left, p) \in Seq(Packets) /\ Len(Append(Left, p)) = n - r + 1
      /\ \A i \in 1..n - r : Append(Left, p)[i] = Left[i]
      /\ Append(Left, p)[n - r + 1] = p
  BY <1>1, AppendProperties
<1>7. From(sent', r + 1) = Append(Left, p)
  <2>1. r + 1 \in 1..Len(sent') + 1
    BY <1>1, <1>2, <1>3
  <2>2. /\ From(sent', r + 1) \in Seq(Packets)
        /\ Len(From(sent', r + 1)) = Len(sent') - (r + 1) + 1
        /\ \A i \in 1..Len(sent') - (r + 1) + 1 :
             From(sent', r + 1)[i] = sent'[(r + 1) + i - 1]
    BY <1>3, <2>1, FromProperties
  <2>3. Len(From(sent', r + 1)) = n - r + 1 /\ Len(sent') - (r + 1) + 1 = n - r + 1
    BY <1>1, <1>3, <2>2
  <2>4. ASSUME NEW i \in 1..n - r + 1
        PROVE  From(sent', r + 1)[i] = Append(Left, p)[i]
    <3>1. From(sent', r + 1)[i] = sent'[r + i]
      <4>1. (r + 1) + i - 1 = r + i
        BY <1>1
      <4> QED
        BY <2>2, <2>3, <4>1
    <3>2. CASE i = n - r + 1
      <4>1. r + i = n + 1
        BY <1>1, <3>2
      <4> QED
        BY <1>3, <1>6, <3>1, <3>2, <4>1
    <3>3. CASE i # n - r + 1
      <4>1. i \in 1..n - r /\ r + i \in 1..n /\ i \in 1..Len(Left)
        BY <1>1, <3>3
      <4> QED
        BY <1>1, <1>3, <1>6, <3>1, <4>1
    <3> QED
      BY <3>2, <3>3
  <2>5. \A i \in 1..Len(Append(Left, p)) :
          From(sent', r + 1)[i] = Append(Left, p)[i]
    BY <1>6, <2>4
  <2>6. Len(From(sent', r + 1)) = Len(Append(Left, p))
    BY <1>6, <2>3
  <2> QED
    BY <1>6, <2>2, <2>5, <2>6, SeqEqual
<1>8. Bytes(Append(Left, p)) = Bytes(Left) \o Serialize(p)
  BY <1>1, BytesAppend
<1>9. buffer \o (wire \o Serialize(p)) = (buffer \o wire) \o Serialize(p)
  <2>1. buffer \in Seq(Byte) /\ wire \in Seq(Byte) /\ Serialize(p) \in Seq(Byte)
    BY PacketType DEF TypeOK
  <2> QED
    BY <2>1, BytesAssociative, Zenon DEF Regroups
<1>10. buffer \o wire = Bytes(Left)
  BY DEF Framed
<1>11. buffer' \o wire' = Bytes(Left')
  BY <1>4, <1>5, <1>7, <1>8, <1>9, <1>10, Zenon
<1>12. Len(received') <= Len(sent')
  BY <1>1, <1>2, <1>3, <1>4 DEF r
<1> QED
  BY <1>11, <1>12 DEF Framed, Bytes

\* A read moves the cut between the buffer and the wire.
LEMMA FramedReadBytes ==
  ASSUME TypeOK, Framed, ReadBytes
  PROVE  Framed'
<1>1. PICK n \in 1..Min({Len(wire), ReadSize}) :
        /\ buffer' = buffer \o SubSeq(wire, 1, n)
        /\ wire' = From(wire, n + 1)
  BY DEF ReadBytes
<1>2. n \in 1..Len(wire) /\ Len(wire) \in Nat
  BY ReadType, LenProperties DEF ReadBytes, TypeOK
<1>3. n \in 0..Len(wire) /\ n + 1 \in 1..Len(wire) + 1
  BY <1>2
<1>4. SubSeq(wire, 1, n) \in Seq(Byte) /\ From(wire, n + 1) \in Seq(Byte)
  BY <1>3, FirstProperties, FromProperties DEF TypeOK
<1>5. SubSeq(wire, 1, n) \o From(wire, n + 1) = wire
  BY <1>3, FirstAndRest DEF TypeOK
<1>6. (buffer \o SubSeq(wire, 1, n)) \o From(wire, n + 1)
        = buffer \o (SubSeq(wire, 1, n) \o From(wire, n + 1))
  <2>1. buffer \in Seq(Byte)
    BY DEF TypeOK
  <2> QED
    BY <1>4, <2>1, BytesAssociative, Zenon DEF Regroups
<1>7. buffer' \o wire' = buffer \o wire
  BY <1>1, <1>5, <1>6, Zenon
<1>8. sent' = sent /\ received' = received
  BY DEF ReadBytes
<1> QED
  BY <1>7, <1>8 DEF Framed, Left, Bytes

\* The packet that is taken is the next one, unless the buffer ends inside a
\* length.
LEMMA FramedTakePacket ==
  ASSUME TypeOK, Framed, TakePacket
  PROVE  \/ cut'
         \/ /\ Len(received) < Len(sent)
            /\ received' = Append(received, sent[Len(received) + 1])
            /\ Framed'
<1> DEFINE p == sent[Len(received) + 1]
           size == Len(Serialize(p))
<1>1. buffer # <<>> /\ Complete(buffer)
  BY DEF TakePacket
<1>2. /\ Len(received) < Len(sent) /\ p \in Packets
      /\ \/ \A i \in DOMAIN buffer : Continues(buffer[i])
         \/ /\ TotalSize(buffer) = size
            /\ SubSeq(buffer, 1, size) = Serialize(p)
            /\ From(buffer, size + 1) \o wire
                 = Bytes(From(sent, Len(received) + 2))
  BY <1>1, NextInBuffer
<1>3. CASE \A i \in DOMAIN buffer : Continues(buffer[i])
  BY <1>3 DEF TakePacket
<1>4. CASE /\ TotalSize(buffer) = size
           /\ SubSeq(buffer, 1, size) = Serialize(p)
           /\ From(buffer, size + 1) \o wire
                = Bytes(From(sent, Len(received) + 2))
  <2>1. /\ received' = Append(received, Deserialize[SubSeq(buffer, 1, size)])
        /\ buffer' = From(buffer, size + 1)
        /\ sent' = sent /\ wire' = wire
    BY <1>4 DEF TakePacket
  <2>2. Deserialize[Serialize(p)] = p
    BY <1>2, DeserializeSerialize
  <2>3. received' = Append(received, p)
    BY <1>4, <2>1, <2>2
  <2>4. Len(received') = Len(received) + 1 /\ Len(received) \in Nat
        /\ Len(sent) \in Nat
    <3>1. received \in Seq(Packet) /\ p \in Packet
      BY <1>2, PacketType DEF TypeOK
    <3> HIDE DEF p
    <3> QED
      BY <2>3, <3>1, AppendProperties, LenProperties DEF TypeOK
  <2>5. Len(received') + 1 = Len(received) + 2
    BY <2>4
  <2>6. Left' = From(sent, Len(received) + 2)
    BY <2>1, <2>5 DEF Left
  <2>7. Len(received') <= Len(sent')
    BY <1>2, <2>1, <2>4
  <2>8. buffer' \o wire' = Bytes(Left')
    BY <1>4, <2>1, <2>6
  <2>9. Framed'
    BY <2>7, <2>8 DEF Framed, Bytes
  <2> QED
    BY <1>2, <2>3, <2>9
<1> QED
  BY <1>2, <1>3, <1>4

\* Nothing that a well-behaved client sends ends the process.
LEMMA FramedAbort ==
  ASSUME TypeOK, Framed
  PROVE  ~Abort
BY NextInBuffer DEF Abort

\* The framing, over all steps.
LEMMA FramingNext == Framing /\ [Next]_vars => Framing'
<1> SUFFICES ASSUME Framing, [Next]_vars PROVE Framing'
  OBVIOUS
<1>1. TypeOK /\ TypeOK'
  BY TypeOKNext DEF Framing
<1>2. CASE cut
  <2>1. cut'
    BY <1>2 DEF Next, ServerStep, Send, Close, ReadBytes, ReadEnd, TakePacket,
                NoPacket, Abort, vars, histVars
  <2> QED
    BY <1>1, <2>1 DEF Framing
<1>3. CASE ~cut
  <2>0. Framed /\ pc # "aborted"
    BY <1>3 DEF Framing
  <2>1. ASSUME NEW p \in Packets, Send(p) PROVE Framing'
    <3>1. Framed'
      BY <1>1, <2>0, <2>1, FramedSend
    <3> QED
      BY <1>1, <2>0, <2>1, <3>1 DEF Framing, Send
  <2>2. CASE Close
    <3>1. Framed'
      BY <2>0, <2>2 DEF Close, Framed, Left, Bytes
    <3> QED
      BY <1>1, <2>0, <2>2, <3>1 DEF Framing, Close
  <2>3. CASE ReadBytes
    <3>1. Framed'
      BY <1>1, <2>0, <2>3, FramedReadBytes
    <3> QED
      BY <1>1, <2>3, <3>1 DEF Framing, ReadBytes
  <2>4. CASE ReadEnd
    <3>1. Framed'
      BY <2>0, <2>4 DEF ReadEnd, Framed, Left, Bytes
    <3> QED
      BY <1>1, <2>4, <3>1 DEF Framing, ReadEnd
  <2>5. CASE TakePacket
    <3>1. cut' \/ Framed'
      BY <1>1, <2>0, <2>5, FramedTakePacket
    <3>2. pc' # "aborted"
      BY <2>5 DEF TakePacket
    <3> QED
      BY <1>1, <3>1, <3>2 DEF Framing
  <2>6. CASE NoPacket
    <3>1. Framed'
      BY <2>0, <2>6 DEF NoPacket, Framed, Left, Bytes
    <3> QED
      BY <1>1, <2>6, <3>1 DEF Framing, NoPacket
  <2>7. CASE Abort
    BY <1>1, <2>0, <2>7, FramedAbort
  <2>8. CASE UNCHANGED vars
    <3>1. Framed'
      BY <2>0, <2>8 DEF vars, histVars, Framed, Left, Bytes
    <3> QED
      BY <1>1, <2>0, <2>8, <3>1 DEF Framing, vars
  <2> QED
    BY <2>1, <2>2, <2>3, <2>4, <2>5, <2>6, <2>7, <2>8 DEF Next, ServerStep
<1> QED
  BY <1>2, <1>3

\* readBytes and tryReadPacket keep the framing (tcpclient.cpp:16-66).
THEOREM FramingInvariant == Spec => []Framing
BY FramingInit, FramingNext, PTL DEF Spec

\* However reads split and join the packets, and whatever the packets are, the
\* bytes that are still to be cut are the packets that are still to be
\* delivered, until a read ends inside a length (tcpclient.cpp:38-63).
THEOREM AlignedUntilCut == Spec => []AlignedUnlessCut
<1>1. Framing => AlignedUnlessCut
  BY FramedAligned DEF Framing, AlignedUnlessCut
<1> QED
  BY <1>1, FramingInvariant, PTL

\* What a well-behaved client sends never ends the process, until a length is
\* cut (varint.cpp:40-42, tcpclient.cpp:46-51).
THEOREM AbortsOnlyWhenCut == Spec => [](pc = "aborted" => cut)
<1>1. Framing => (pc = "aborted" => cut)
  BY DEF Framing
<1> QED
  BY <1>1, FramingInvariant, PTL

-----------------------------------------------------------------------------
(* The channel.                                                            *)

\* At first the channel is empty.
LEMMA ChannelInit == Init => Channel!Init
BY DEF Init, Channel!Init

\* Every step is a step of the channel, or leaves it as it is.
LEMMA ChannelNext ==
  Framing /\ [Next]_vars => [Channel!Next]_(Channel!vars)
<1> SUFFICES ASSUME Framing, [Next]_vars
             PROVE  [Channel!Next]_(Channel!vars)
  OBVIOUS
<1>1. TypeOK
  BY DEF Framing
<1>2. CASE cut
  <2>1. cut'
    BY <1>2 DEF Next, ServerStep, Send, Close, ReadBytes, ReadEnd, TakePacket,
                NoPacket, Abort, vars, histVars
  <2> QED
    BY <1>2, <2>1 DEF Channel!Next, Channel!Broken
<1>3. CASE ~cut
  <2>0. Framed
    BY <1>3 DEF Framing
  <2>1. ASSUME NEW p \in Packets, Send(p) PROVE Channel!Next
    BY <1>3, <2>1 DEF Send, histVars, Channel!Next, Channel!Send
  <2>2. CASE TakePacket
    <3>1. CASE cut'
      BY <1>3, <3>1 DEF Channel!Next, Channel!Break
    <3>2. CASE ~cut'
      <4>1. /\ Len(received) < Len(sent)
            /\ received' = Append(received, sent[Len(received) + 1])
        BY <1>1, <2>0, <2>2, <3>2, FramedTakePacket
      <4>2. sent' = sent /\ cut' = cut
        <5>1. cut \in BOOLEAN /\ cut' \in BOOLEAN
          BY <1>1, TypeOKTakePacket, <2>2 DEF TypeOK
        <5> QED
          BY <1>3, <2>2, <3>2, <5>1 DEF TakePacket
      <4> QED
        BY <1>3, <4>1, <4>2 DEF Channel!Next, Channel!Receive
    <3> QED
      BY <3>1, <3>2
  <2>3. CASE Close \/ ReadBytes \/ ReadEnd \/ NoPacket \/ Abort \/ UNCHANGED vars
    <3>1. UNCHANGED <<sent, received, cut>>
      BY <2>3 DEF Close, ReadBytes, ReadEnd, NoPacket, Abort, vars, histVars
    <3> QED
      BY <3>1 DEF Channel!vars
  <2> QED
    BY <2>1, <2>2, <2>3 DEF Next, ServerStep
<1> QED
  BY <1>2, <1>3

\* handle() is given the packets that were sent, whole, once and in order
\* (README.md:35), until a read ends inside a length.
THEOREM FramingImplementsChannel == Spec => ImplementsChannel
BY FramingInvariant, ChannelInit, ChannelNext, PTL
   DEF Spec, ImplementsChannel, Channel!Spec

=============================================================================
