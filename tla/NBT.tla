-------------------------------- MODULE NBT --------------------------------
(***************************************************************************)
(* NBT tags and their bytes (world/NBT.cpp, readTag and writeTag).  A tag  *)
(* is a record of its type, its name and what it holds: a number, the bits *)
(* of a floating-point number, a sequence of numbers, bytes or tags, or    *)
(* the map of a Compound from names to tags.  Names are sequences of       *)
(* bytes.                                                                  *)
(* writeTag and readPayload call themselves for the tags inside a tag.     *)
(* Here they are functions of how deep these are nested: what is done at   *)
(* level n calls what is done at level n - 1.                              *)
(* Reading is defined where the vector is long enough and no length is     *)
(* negative, which the code does not check.                                *)
(***************************************************************************)
EXTENDS Helper

CONSTANTS
  Nesting,   \* how deep tags are nested; the code has no bound
  Order      \* the names in a Compound in the order of its map

\* TagType, in the order of the numbers that stand for the types.
TagTypes == <<"End", "Byte", "Short", "Int", "Long", "Float", "Double",
              "ByteArray", "String", "List", "Compound", "IntArray">>

Types == Range(TagTypes)

\* A name, or any text: its length is a uint16_t.
Names == {s \in Seq(Byte) : Len(s) \in UnsignedOf(2)}

ASSUME NBTAssumption ==
  /\ Len(TagTypes) <= Radix
  /\ Nesting \in Nat
  /\ Order \in Seq(Names) /\ IsInjective(Order)

TypeId(type) == (CHOOSE i \in DOMAIN TagTypes : TagTypes[i] = type) - 1
TypeOf(id) == TagTypes[id + 1]

MakeTag(type, name, payload) ==
  [type |-> type, name |-> name, payload |-> payload]

\* A Compound has its tags under their names.
MakeCompound(name, tags) ==
  MakeTag("Compound", name,
          [n \in {t.name : t \in tags} |-> CHOOSE t \in tags : t.name = n])

\* readTag leaves the value of an End tag as it is constructed.
EndTag == MakeTag("End", <<>>, 0)

\* The element type of a list goes by its first item.
ElementType(items) == IF items = <<>> THEN "End" ELSE items[1].type

-----------------------------------------------------------------------------
(* writeTag.                                                               *)

Bytes(numbers, width) ==
  FlattenSeq([i \in 1..Len(numbers) |-> Put(numbers[i], width)])

Header(tag) ==
  <<TypeId(tag.type)>> \o WriteInt16(Len(tag.name)) \o tag.name

\* The tags right inside a tag ...
Inner(tag) ==
  IF tag.type \in {"List", "Compound"} THEN Range(tag.payload) ELSE {}

\* ... and n levels below it.
Levels(tag) ==
  LET level[n \in 0..Nesting] ==
        IF n = 0 THEN {tag} ELSE UNION {Inner(t) : t \in level[n - 1]}
  IN  level

Inside(tag) == UNION Range(Levels(tag))

\* Wrong: the items of a list are written with their headers.
ItemsWithHeaders(items, written) ==
  FlattenSeq([i \in 1..Len(items) |-> Header(items[i]) \o written[items[i]]])

\* The items of a list have no header of their own, and lose their names.
WriteItems(items, written) ==
  FlattenSeq([i \in 1..Len(items) |-> written[items[i]]])

\* A Compound's tags, under the names they bear, in the order of the map.
WriteChildren(children, written) ==
  FlattenSeq([i \in 1..Len(Order) |->
    IF Order[i] \in DOMAIN children
      THEN Header(children[Order[i]]) \o written[children[Order[i]]]
      ELSE <<>>])

\* What follows the header; written has it for the tags inside.
Content(tag, written) ==
  LET value == tag.payload IN
  CASE tag.type = "End" -> <<>>
    [] tag.type = "Byte" -> WriteInt8(value)
    [] tag.type = "Short" -> WriteInt16(value)
    [] tag.type = "Int" -> WriteInt32(value)
    [] tag.type = "Long" -> WriteInt64(value)
    [] tag.type = "Float" -> WriteFloat(value)
    [] tag.type = "Double" -> WriteDouble(value)
    [] tag.type = "ByteArray" ->
         WriteInt32(Len(value)) \o Bytes(value, 1)
    [] tag.type = "String" -> WriteInt16(Len(value)) \o value
    [] tag.type = "List" ->
         <<TypeId(ElementType(value))>> \o WriteInt32(Len(value))
           \o WriteItems(value, written)
    [] tag.type = "Compound" ->
         WriteChildren(value, written) \o <<TypeId("End")>>
    [] tag.type = "IntArray" ->
         WriteInt32(Len(value)) \o Bytes(value, WordBytes)

\* The contents of a tag and of all inside it.
Contents(tag) ==
  LET inside == Inside(tag)
      upTo[n \in 0..Nesting] ==
        [t \in inside |-> Content(t, IF n = 0 THEN <<>> ELSE upTo[n - 1])]
  IN  upTo

WritePayload(tag) == Contents(tag)[Nesting][tag]

WriteTag(tag) ==
  IF tag.type = "End" THEN <<TypeId("End")>> ELSE Header(tag) \o WritePayload(tag)

-----------------------------------------------------------------------------
(* readTag.  Each of these answers a value and the offset behind it.       *)

Slice(data, offset, length) ==
  [value |-> SubSeq(data, offset + 1, offset + length),
   offset |-> offset + length]

\* So many numbers of the same width.
GetArray(data, length, width) ==
  [value |-> [i \in 1..length.value |->
                GetSigned(data, length.offset + (i - 1) * width, width).value],
   offset |-> length.offset + length.value * width]

NameOf(data, offset) ==
  LET length == ReadShort(data, offset + 1)
  IN  Slice(data, length.offset, length.value)

\* A tag; payloads has what may follow its name.
TagAt(data, offset, payloads) ==
  LET type == TypeOf(data[offset + 1])
      name == NameOf(data, offset)
      payload == payloads[<<type, name.offset>>]
  IN  IF type = "End"
        THEN [value |-> EndTag, offset |-> offset + 1]
        ELSE [value |-> MakeTag(type, name.value, payload.value),
              offset |-> payload.offset]

\* So many items of a list, without names.
ReadItems(type, count, offset, payloads) ==
  LET upTo[i \in 0..count] ==
        IF i = 0
          THEN [value |-> <<>>, offset |-> offset]
          ELSE LET before == upTo[i - 1]
                   item == payloads[<<type, before.offset>>]
               IN  [value |-> Append(before.value,
                                     MakeTag(type, <<>>, item.value)),
                    offset |-> item.offset]
  IN  upTo[count]

\* A map with one more tag under its name, or in place of the one there.
With(children, child) ==
  [n \in {child.name} \cup DOMAIN children |->
     IF n = child.name THEN child ELSE children[n]]

\* Tags up to the End tag; the last of a name is kept.  The loop goes round
\* once for each: there is one of a name at most.
ReadChildren(data, offset, payloads) ==
  LET upTo[i \in 0..Len(Order) + 1] ==
        IF i = 0
          THEN [value |-> <<>>, offset |-> offset, ended |-> FALSE]
          ELSE LET before == upTo[i - 1]
                   child == TagAt(data, before.offset, payloads)
               IN  IF before.ended
                     THEN before
                   ELSE IF child.value.type = "End"
                     THEN [value |-> before.value, offset |-> child.offset,
                           ended |-> TRUE]
                   ELSE [value |-> With(before.value, child.value),
                         offset |-> child.offset, ended |-> FALSE]
      all == upTo[Len(Order) + 1]
  IN  [value |-> all.value, offset |-> all.offset]

\* What follows the name; payloads has it for the tags inside.
PayloadAt(type, data, offset, payloads) ==
  CASE type = "Byte" -> GetSigned(data, offset, 1)
    [] type = "Short" -> GetSigned(data, offset, 2)
    [] type = "Int" -> ReadInt32(data, offset)
    [] type = "Long" -> GetSigned(data, offset, 2 * WordBytes)
    [] type = "Float" -> ReadFloat(data, offset)
    [] type = "Double" -> ReadDouble(data, offset)
    [] type = "ByteArray" -> GetArray(data, ReadInt32(data, offset), 1)
    [] type = "String" ->
         LET length == ReadShort(data, offset)
         IN  Slice(data, length.offset, length.value)
    [] type = "List" ->
         LET count == ReadInt32(data, offset + 1)
         IN  ReadItems(TypeOf(data[offset + 1]), count.value, count.offset,
                       payloads)
    [] type = "Compound" -> ReadChildren(data, offset, payloads)
    [] type = "IntArray" -> GetArray(data, ReadInt32(data, offset), WordBytes)
    [] OTHER -> [value |-> 0, offset |-> offset]

\* The payloads there may be anywhere in a vector.
Payloads(data) ==
  LET upTo[n \in 0..Nesting] ==
        [at \in Types \X Nat |->
           PayloadAt(at[1], data, at[2], IF n = 0 THEN <<>> ELSE upTo[n - 1])]
  IN  upTo

ReadTag(data, offset) == TagAt(data, offset, Payloads(data)[Nesting])
=============================================================================
