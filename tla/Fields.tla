------------------------------- MODULE Fields -------------------------------
(***************************************************************************)
(* What the writers and the readers of Helper owe one another when fields  *)
(* stand side by side in a packet.  They keep no state: the steps add one  *)
(* field after the other.                                                  *)
(***************************************************************************)
EXTENDS Helper

CONSTANT Fields   \* what a packet may hold: records of a kind and a value

Kinds == {"byte", "short", "int", "long", "float", "double", "boolean",
          "varint", "string", "inventory"}

\* The slots there are: an empty one has neither count nor damage.
Slot == {EmptySlot} \cup [id : SignedOf(2) \ {-1}, count : SignedOf(1),
                          damage : SignedOf(2)]

\* The values of a kind.  A length is an int32_t, a number of slots an int16_t.
Values(kind) ==
  CASE kind = "byte" -> UnsignedOf(1)
    [] kind = "short" -> SignedOf(2)
    [] kind = "int" -> SignedOf(WordBytes)
    [] kind = "long" -> SignedOf(2 * WordBytes)
    [] kind = "float" -> UnsignedOf(WordBytes)
    [] kind = "double" -> UnsignedOf(2 * WordBytes)
    [] kind = "boolean" -> BOOLEAN
    [] kind = "varint" -> Int32
    [] kind = "string" -> {s \in Seq(Byte) : Len(s) \in Int32}
    [] kind = "inventory" -> {s \in Seq(Slot) : Len(s) \in SignedOf(2)}

ASSUME FieldsAssumption ==
  \A f \in Fields : f.kind \in Kinds /\ f.value \in Values(f.kind)

VARIABLE fields   \* the fields of a packet

FieldsInit == fields = <<>>

AddField == \E f \in Fields : fields' = Append(fields, f)

FieldsSpec == FieldsInit /\ [][AddField]_fields

-----------------------------------------------------------------------------
(* A writer and a reader for each kind of field.                           *)

Write(field) ==
  LET value == field.value IN
  CASE field.kind = "byte" -> WriteInt8(value)
    [] field.kind = "short" -> WriteInt16(value)
    [] field.kind = "int" -> WriteInt32(value)
    [] field.kind = "long" -> WriteInt64(value)
    [] field.kind = "float" -> WriteFloat(value)
    [] field.kind = "double" -> WriteDouble(value)
    [] field.kind = "boolean" -> <<IF value THEN 1 ELSE 0>>
    [] field.kind = "varint" -> WriteVarInt(value)
    [] field.kind = "string" -> WriteString(value)
    [] field.kind = "inventory" -> FullInventory(value)

Read(k, data, offset) ==
  CASE k = "byte" -> ReadByte(data, offset)
    [] k = "short" -> [ReadShort(data, offset) EXCEPT !.value = Cast(@, 2)]
    [] k = "int" -> ReadInt32(data, offset)
    [] k = "long" ->
         [ReadUint64(data, offset) EXCEPT !.value = Cast(@, 2 * WordBytes)]
    [] k = "float" -> ReadFloat(data, offset)
    [] k = "double" -> ReadDouble(data, offset)
    [] k = "boolean" -> ReadBoolean(data, offset)
    [] k = "varint" ->
         LET n == ReadVarInt(From(data, offset + 1))
         IN  [value |-> n.value, offset |-> offset + n.bytesRead]
    [] k = "string" -> ReadString(data, offset)
    [] k = "inventory" -> TakeInventory(data, offset)

Payload == FlattenSeq([i \in 1..Len(fields) |-> Write(fields[i])])

-----------------------------------------------------------------------------
(* Properties.                                                             *)

\* A packet is read back field by field as it was written, whatever fields
\* stand beside one another: no reader takes a byte more or less than its
\* writer wrote, empty slots included (helper.cpp, tcpclient.cpp:98-115).
FieldsInStep ==
  LET upTo[i \in 0..Len(fields)] ==
        IF i = 0
          THEN [values |-> <<>>, offset |-> 0]
          ELSE LET r == Read(fields[i].kind, Payload, upTo[i - 1].offset) IN
               [values |-> Append(upTo[i - 1].values, r.value),
                offset |-> r.offset]
  IN  upTo[Len(fields)] = [values |-> [i \in 1..Len(fields) |-> fields[i].value],
                           offset |-> Len(Payload)]

\* A string that has not arrived in full is refused, never read as a shorter
\* one, wherever the packet ends (helper.cpp:147-161).
CutStringRefused ==
  fields # <<>> /\ Last(fields).kind = "string" =>
    LET written == Write(Last(fields))
        start == Len(Payload) - Len(written)
    IN  \A k \in 0..Len(written) - 1 :
          LET cut == SubSeq(Payload, 1, start + k)
          IN  /\ ~StringThrows(cut, start)
              /\ ReadString(cut, start) = NoString
=============================================================================
