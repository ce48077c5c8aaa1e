------------------------------- MODULE Helper -------------------------------
(***************************************************************************)
(* The readers and writers of protocol/helper.cpp for numbers of a fixed   *)
(* width, strings and inventory slots, big end first.  A vector of bytes   *)
(* is a sequence; a reader takes it with an offset, counted from 0, and    *)
(* gives a value and the offset behind it.  The readers of fixed widths do *)
(* not look where the vector ends: they are defined for vectors that reach *)
(* far enough.  In the code Base is 2^7 and WordBytes 4.                   *)
(***************************************************************************)
EXTENDS VarInt

CONSTANT WordBytes   \* 4: the bytes of an int32_t

Radix == 2 * Base    \* the values of a byte

\* 2^(8 * bytes): how many numbers so many bytes hold.
Span[bytes \in Nat] == IF bytes = 0 THEN 1 ELSE Radix * Span[bytes - 1]

ASSUME HelperAssumption == WordBytes \in Nat /\ Word <= Span[WordBytes]

UnsignedOf(bytes) == 0..Span[bytes] - 1
SignedOf(bytes) == -(Span[bytes] \div 2)..Span[bytes] \div 2 - 1

\* A number of so many bytes as it is after a cast to the signed type.
Cast(n, bytes) ==
  LET u == n % Span[bytes] IN IF 2 * u < Span[bytes] THEN u ELSE u - Span[bytes]

\* (value >> 8k) & 0xFF from the highest byte to the lowest.
Put(n, bytes) == [i \in 1..bytes |-> (n \div Span[bytes - i]) % Radix]

\* What std::byteswap makes of the bytes copied from the offset on.
Get(data, offset, bytes) ==
  LET upTo[i \in 0..bytes] ==
        IF i = 0 THEN 0 ELSE upTo[i - 1] * Radix + data[offset + i]
  IN  [value |-> upTo[bytes], offset |-> offset + bytes]

\* A reader whose caller casts to the signed type.
GetSigned(data, offset, bytes) ==
  [Get(data, offset, bytes) EXCEPT !.value = Cast(@, bytes)]

WriteInt8(n) == Put(n, 1)
WriteInt16(n) == Put(n, 2)
WriteInt32(n) == Put(n, WordBytes)
WriteInt64(n) == Put(n, 2 * WordBytes)

\* Floating-point numbers are known by their bits.
WriteFloat(bits) == WriteInt32(Cast(bits, WordBytes))
WriteDouble(bits) == WriteInt64(Cast(bits, 2 * WordBytes))

ReadByte(data, offset) == Get(data, offset, 1)
ReadShort(data, offset) == Get(data, offset, 2)
ReadUint32(data, offset) == Get(data, offset, WordBytes)
ReadUint64(data, offset) == Get(data, offset, 2 * WordBytes)
ReadInt32(data, offset) == GetSigned(data, offset, WordBytes)
ReadFloat(data, offset) == ReadUint32(data, offset)
ReadDouble(data, offset) == ReadUint64(data, offset)

ReadBoolean(data, offset) ==
  [value |-> data[offset + 1] # 0, offset |-> offset + 1]

-----------------------------------------------------------------------------
(* Strings: sequences of bytes with their length as a VarInt.              *)

WriteString(str) == WriteVarInt(Len(str)) \o str

NoString == [error |-> TRUE]

\* The length is signed, and is added to an unsigned offset: what lies before
\* the beginning of the vector is taken to be far behind its end.
OutOfBounds(data, offset, length) ==
  offset + length > Len(data) \/ offset + length < 0

\* A negative length that passes for one in bounds: std::string throws.
StringThrows(data, offset) ==
  LET length == ReadVarInt(From(data, offset + 1)) IN
  /\ length # NoVarInt
  /\ length.value < 0
  /\ ~OutOfBounds(data, offset + length.bytesRead, length.value)

\* Wrong: a string that the vector cuts short is read as far as it goes.
ReadStringShort(data, offset) ==
  LET length == ReadVarInt(From(data, offset + 1))
      start == offset + length.bytesRead
      end == Min({start + length.value, Len(data)})
  IN  IF length = NoVarInt \/ start + length.value < 0
        THEN NoString
        ELSE [value |-> SubSeq(data, start + 1, end), offset |-> end]

ReadString(data, offset) ==
  LET length == ReadVarInt(From(data, offset + 1))
      start == offset + length.bytesRead
      end == start + length.value
  IN  IF length = NoVarInt \/ OutOfBounds(data, start, length.value)
        THEN NoString
        ELSE [value |-> SubSeq(data, start + 1, end), offset |-> end]

-----------------------------------------------------------------------------
(* The inventory: Player::inventory as sendFullInventory sends it.         *)

EmptySlot == [id |-> -1, count |-> 0, damage |-> 0]

\* Wrong: count and damage of an empty slot are written too.
WriteWholeSlot(slot) ==
  WriteInt16(slot.id) \o WriteInt8(slot.count) \o WriteInt16(slot.damage)
    \o WriteInt16(-1)

\* An empty slot is its id alone; -1 at the end says that no tag follows.
WriteSlot(slot) ==
  WriteInt16(slot.id) \o
    IF slot.id = -1
      THEN <<>>
      ELSE WriteInt8(slot.count) \o WriteInt16(slot.damage) \o WriteInt16(-1)

\* Window 0, the number of slots, and the slots.
FullInventory(slots) ==
  WriteInt8(0) \o WriteInt16(Len(slots)) \o
    FlattenSeq([i \in 1..Len(slots) |-> WriteSlot(slots[i])])

\* How the client takes a slot from a packet.
TakeSlot(data, offset) ==
  LET id == GetSigned(data, offset, 2)
      count == GetSigned(data, id.offset, 1)
      damage == GetSigned(data, count.offset, 2)
  IN  IF id.value = -1
        THEN [value |-> EmptySlot, offset |-> id.offset]
        ELSE [value |-> [id |-> id.value, count |-> count.value,
                         damage |-> damage.value],
              offset |-> damage.offset + 2]

TakeInventory(data, offset) ==
  LET n == GetSigned(data, offset + 1, 2)
      upTo[i \in 0..n.value] ==
        IF i = 0
          THEN [value |-> <<>>, offset |-> n.offset]
          ELSE LET slot == TakeSlot(data, upTo[i - 1].offset) IN
               [value |-> Append(upTo[i - 1].value, slot.value),
                offset |-> slot.offset]
  IN  upTo[n.value]
=============================================================================
