--------------------------- MODULE PacketFraming ---------------------------
(***************************************************************************)
(* How TcpClient cuts the byte stream of a connection into packets         *)
(* (readBytes and tryReadPacket in network/tcpclient.cpp, Packet in        *)
(* protocol/packet.cpp).  The client writes a packet as its length and its *)
(* body; TCP keeps the order of the bytes and nothing else: a read returns *)
(* any number of them, at most ReadSize.                                   *)
(*                                                                         *)
(* The client is a well-behaved one: it sends whole packets and closes.    *)
(***************************************************************************)
EXTENDS VarInt

CONSTANTS
  Packets,    \* the packets a client sends: records of an id and the data
  MaxSent,    \* bound on how many it sends
  ReadSize    \* 1024: the size of the array readBytes fills

VARIABLES
  sent,      \* packets the client has sent
  wire,      \* bytes sent and not yet read
  closed,    \* the client has closed its side
  buffer,    \* buffer_
  received,  \* packets that tryReadPacket has returned
  pc,        \* where handle() is: read, parse, done or aborted
  cut,       \* history: a length was taken before its last digit had come
  burst      \* history: a read left two whole packets in the buffer

histVars == <<cut, burst>>
vars == <<sent, wire, closed, buffer, received, pc, histVars>>

\* Packet::serialize: the length, the id, the data.
Body(p) == EncodeVarInt(p.id) \o p.data
Serialize(p) == EncodeVarInt(Len(Body(p))) \o Body(p)

Packet == [id : Int32, data : Seq(Byte)]

\* A packet's size is an int: the client sends none that is larger.
ASSUME PacketAssumption ==
  /\ Packets \subseteq Packet
  /\ \A p \in Packets : Len(Serialize(p)) \in Int32
  /\ MaxSent \in Nat /\ ReadSize \in Nat \ {0}

\* Packet::deserialize, given the bytes of one packet.
Deserialize[bytes \in Seq(Byte)] ==
  LET body == From(bytes, DecodeVarInt(bytes).bytesRead + 1)
      id == DecodeVarInt(body)
  IN  [id |-> id.value, data |-> From(body, id.bytesRead + 1)]

TypeOK ==
  /\ sent \in Seq(Packets) /\ Len(sent) <= MaxSent
  /\ wire \in Seq(Byte) /\ buffer \in Seq(Byte)
  /\ closed \in BOOLEAN
  /\ received \in Seq(Packet)
  /\ pc \in {"read", "parse", "done", "aborted"}
  /\ cut \in BOOLEAN /\ burst \in BOOLEAN

Init ==
  /\ sent = <<>> /\ wire = <<>> /\ closed = FALSE
  /\ buffer = <<>> /\ received = <<>> /\ pc = "read"
  /\ cut = FALSE /\ burst = FALSE

-----------------------------------------------------------------------------
\* The client sends a packet ...
Send(p) ==
  /\ ~closed /\ Len(sent) < MaxSent
  /\ sent' = Append(sent, p)
  /\ wire' = wire \o Serialize(p)
  /\ UNCHANGED <<closed, buffer, received, pc, histVars>>

\* ... or closes the connection.
Close ==
  /\ ~closed
  /\ closed' = TRUE
  /\ UNCHANGED <<sent, wire, buffer, received, pc, histVars>>

\* Wrong: the bytes of the length itself are not counted.
TotalSizeOfBody(bytes) == DecodeVarInt(bytes).value

\* The size that tryReadPacket expects: bytesRead + value, cut to an int.
TotalSize(bytes) ==
  LET length == DecodeVarInt(bytes)
  IN  Signed(Unsigned(length.bytesRead + length.value))

\* Wrong: a packet is complete when a byte of the next one has come.
CompleteLate(bytes) == Len(bytes) > TotalSize(bytes)

Complete(bytes) == Len(bytes) >= TotalSize(bytes)

\* What ends the process with an exception nobody catches: a length or an id
\* that decodeVarInt refuses, or a length so negative that the packet would
\* end before it begins.
Fatal(bytes) ==
  \/ Throws(bytes)
  \/ TotalSize(bytes) < 0
  \/ Complete(bytes) /\ Throws(SubSeq(bytes, DecodeVarInt(bytes).bytesRead + 1,
                                     TotalSize(bytes)))

\* There is a packet to take, and another one behind it.
TwoComplete(bytes) ==
  /\ bytes # <<>> /\ ~Fatal(bytes) /\ Complete(bytes)
  /\ LET behind == From(bytes, TotalSize(bytes) + 1)
     IN  behind # <<>> /\ Complete(behind)

\* Wrong: what is read takes the place of what was left in the buffer.
ReadBytesOver ==
  /\ pc = "read" /\ wire # <<>>
  /\ \E n \in 1..Min({Len(wire), ReadSize}) :
       /\ buffer' = SubSeq(wire, 1, n)
       /\ wire' = From(wire, n + 1)
  /\ burst' = (burst \/ TwoComplete(buffer'))
  /\ pc' = "parse"
  /\ UNCHANGED <<sent, closed, received, cut>>

\* readBytes: some of the bytes on the wire join the buffer ...
ReadBytes ==
  /\ pc = "read" /\ wire # <<>>
  /\ \E n \in 1..Min({Len(wire), ReadSize}) :
       /\ buffer' = buffer \o SubSeq(wire, 1, n)
       /\ wire' = From(wire, n + 1)
  /\ burst' = (burst \/ TwoComplete(buffer'))
  /\ pc' = "parse"
  /\ UNCHANGED <<sent, closed, received, cut>>

\* Wrong: a read of nothing counts as a read.
ReadEndIgnored ==
  /\ pc = "read" /\ wire = <<>> /\ closed
  /\ pc' = "parse"
  /\ UNCHANGED <<sent, wire, closed, buffer, received, histVars>>

\* ... or the end of the stream ends handle().
ReadEnd ==
  /\ pc = "read" /\ wire = <<>> /\ closed
  /\ pc' = "done"
  /\ UNCHANGED <<sent, wire, closed, buffer, received, histVars>>

\* tryReadPacket returns a packet and drops its bytes.  The loop around it
\* ends after its first round (tcpclient.cpp:457), and handle() reads again,
\* whatever is left in the buffer ...
TakePacket ==
  /\ pc = "parse" /\ buffer # <<>> /\ ~Fatal(buffer)
  /\ Complete(buffer)
  /\ LET size == TotalSize(buffer) IN
       /\ received' = Append(received, Deserialize[SubSeq(buffer, 1, size)])
       /\ buffer' = From(buffer, size + 1)
  /\ cut' = (cut \/ \A i \in DOMAIN buffer : Continues(buffer[i]))
  /\ pc' = "read"
  /\ UNCHANGED <<sent, wire, closed, burst>>

\* ... or finds that the packet is not complete yet ...
NoPacket ==
  /\ pc = "parse"
  /\ buffer = <<>> \/ ~(Fatal(buffer) \/ Complete(buffer))
  /\ pc' = "read"
  /\ UNCHANGED <<sent, wire, closed, buffer, received, histVars>>

\* ... or dies.
Abort ==
  /\ pc = "parse" /\ buffer # <<>> /\ Fatal(buffer)
  /\ pc' = "aborted"
  /\ UNCHANGED <<sent, wire, closed, buffer, received, histVars>>

ServerStep == ReadBytes \/ ReadEnd \/ TakePacket \/ NoPacket \/ Abort

Next == ServerStep \/ Close \/ \E p \in Packets : Send(p)

\* The one thread of the server runs, and TCP delivers what was sent.
Spec == Init /\ [][Next]_vars /\ WF_vars(ServerStep)

-----------------------------------------------------------------------------
(* Properties.                                                             *)

\* The bytes that are still to be cut are exactly the packets that are still
\* to be delivered, however reads have split and joined them.
Aligned ==
  LET left == From(sent, Len(received) + 1)
      bytes == [i \in DOMAIN left |-> Serialize(left[i])]
  IN  buffer \o wire = FlattenSeq(bytes)

\* The framing goes wrong in one way only: a read ends inside the length of a
\* packet, and the digits that have come are all zero (a length of 128, 256,
\* 384 ...), so that it passes for the length of an empty packet
\* (tcpclient.cpp:38-44).
AlignedUnlessCut == cut \/ Aligned

Channel == INSTANCE PacketChannel WITH broken <- cut

\* handle() gets the packets that were sent, whole, once and in order
\* (README.md:35), until a length is cut so.
ImplementsChannel == Channel!Spec

\* Every packet that was sent is handled, unless one read brought the end of
\* two: then the later one waits in the buffer for a read that the client may
\* never cause (tcpclient.cpp:121-129, 457).
DeliversUnlessBurst ==
  \A n \in 1..MaxSent : Len(sent) >= n ~> Len(received) >= n \/ burst \/ cut

\* handle() comes to the end of the stream, and so to the next client, or dies
\* of a length that it should not have taken (tcpclient.cpp:119-128).
ReachesEnd == closed ~> pc = "done" \/ cut

\* README.md:35: "Partial packet buffering -- handles TCP stream
\* fragmentation".  No packet is handled that was not sent.
NothingMadeUp == \A i \in DOMAIN received :
  i <= Len(sent) /\ received[i] = sent[i]
=============================================================================
