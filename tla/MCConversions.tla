--------------------------- MODULE MCConversions ---------------------------
(***************************************************************************)
(* The conversions for TLC.  They have no state: the steps here make the   *)
(* inputs grow, one kind of them in a behaviour, while the others rest.    *)
(***************************************************************************)
EXTENDS Tags, Chunks, BlockCoords, Numbers, Fields

CONSTANTS
  MaxFields,   \* fields of a packet
  MaxDepth,    \* lists and Compounds around a tag
  MaxSteps     \* blocks placed one after the other

VARIABLES
  kind,          \* what grows
  edited,        \* whether the chunk has been edited
  steps          \* blocks placed

vars == <<kind, number, rest, fields, tag, depth, chunk, edited, listed,
          block, steps>>

-----------------------------------------------------------------------------
(* Fields.                                                                 *)

Field(k, values) == {[kind |-> k, value |-> v] : v \in values}

Stone64 == [id |-> 1, count |-> 7, damage |-> 0]
Worn == [id |-> 127, count |-> -8, damage |-> -128]

MCFields ==
  UNION { Field("byte", {0, 8, 15}), Field("short", {-128, -1, 16, 127}),
          Field("int", {-2048, -1, 256, 2047}),
          Field("long", {-8388608, -1, 65536}),
          Field("float", {0, 2049}), Field("double", {1, 8388609}),
          Field("boolean", BOOLEAN), Field("varint", {-1, 7, 8, 1023}),
          Field("string", {<<>>, <<1>>, <<9, 0>>}),
          Field("inventory", {<<EmptySlot, Stone64>>, <<Worn, EmptySlot>>}) }

-----------------------------------------------------------------------------
(* Tags.                                                                   *)

\* Names are one byte long, or empty for what has been in a list.
MCTagNames == {<<>>, <<5>>, <<0>>}

MCLeaves ==
  { MakeTag("Byte", <<5>>, -8), MakeTag("Short", <<5>>, 127),
    MakeTag("Int", <<0>>, -2048), MakeTag("Long", <<5>>, 8388607),
    MakeTag("Float", <<5>>, 4095), MakeTag("Double", <<0>>, 8388609),
    MakeTag("ByteArray", <<5>>, <<-8, 0, 7>>),
    MakeTag("String", <<5>>, <<0, 15>>), MakeTag("String", <<0>>, <<>>),
    MakeTag("IntArray", <<5>>, <<-1, 2047>>), MakeTag("IntArray", <<0>>, <<>>),
    MakeTag("List", <<5>>, <<>>), MakeTag("Compound", <<0>>, <<>>) }

MCAround == {<<>>, <<0, 7>>}

-----------------------------------------------------------------------------
(* Chunks.                                                                 *)

\* A chunk that another program made: neighbours differ in every array.
Foreign ==
  [blocks |-> [i \in 0..ChunkSize - 1 |-> (7 * i + 3) % Radix],
   meta |-> [i \in 0..ChunkSize \div 2 - 1 |-> (3 * i + 1) % Radix],
   blockLight |-> [i \in 0..ChunkSize \div 2 - 1 |-> (5 * i + 2) % Radix],
   skyLight |-> [i \in 0..ChunkSize \div 2 - 1 |-> (9 * i + 14) % Radix]]

MCMade == {NewChunk, Foreign}
MCEdits == {0, 6, Radix - 1}

\* The arrays that a section of another program may lack.
MCLacking == {{}, {"Blocks"}, {"Data", "SkyLight"}}

-----------------------------------------------------------------------------

Origin == [x |-> 0, y |-> 0, z |-> 0]

NumberAtRest == number = 0 /\ rest = <<>>
FieldsAtRest == fields = <<>>
TagAtRest == tag = EndTag /\ depth = 0
ChunkAtRest == ChunkInit /\ edited = FALSE
BlockAtRest == block = Origin /\ steps = 0

MCInit ==
  \/ /\ kind = "number" /\ NumberInit
     /\ FieldsAtRest /\ TagAtRest /\ ChunkAtRest /\ BlockAtRest
  \/ /\ kind = "fields" /\ FieldsInit
     /\ NumberAtRest /\ TagAtRest /\ ChunkAtRest /\ BlockAtRest
  \/ /\ kind = "tag" /\ TagInit
     /\ NumberAtRest /\ FieldsAtRest /\ ChunkAtRest /\ BlockAtRest
  \/ /\ kind = "chunk" /\ ChunkAtRest
     /\ NumberAtRest /\ FieldsAtRest /\ TagAtRest /\ BlockAtRest
  \/ /\ kind = "block" /\ Init /\ steps = 0
     /\ NumberAtRest /\ FieldsAtRest /\ TagAtRest /\ ChunkAtRest

CountOn ==
  /\ kind = "number"
  /\ NextNumber
  /\ UNCHANGED <<kind, fields, tag, depth, chunk, edited, listed, block,
                 steps>>

AddOneField ==
  /\ kind = "fields" /\ Len(fields) < MaxFields
  /\ AddField
  /\ UNCHANGED <<kind, number, rest, tag, depth, chunk, edited, listed, block,
                 steps>>

WrapTag ==
  /\ kind = "tag" /\ depth < MaxDepth
  /\ TagNext
  /\ UNCHANGED <<kind, number, rest, fields, chunk, edited, listed, block,
                 steps>>

MakeOne ==
  /\ kind = "chunk"
  /\ MakeChunk
  /\ UNCHANGED <<kind, number, rest, fields, tag, depth, edited, block, steps>>

EditOnce ==
  /\ kind = "chunk" /\ ~edited
  /\ EditChunk
  /\ edited' = TRUE
  /\ UNCHANGED <<kind, number, rest, fields, tag, depth, block, steps>>

\* The other file has one more section.
ListOne ==
  /\ kind = "chunk" /\ ~edited
  /\ ListSection
  /\ UNCHANGED <<kind, number, rest, fields, tag, depth, edited, block, steps>>

PlaceNext ==
  /\ kind = "block" /\ steps < MaxSteps
  /\ Next
  /\ steps' = steps + 1
  /\ UNCHANGED <<kind, number, rest, fields, tag, depth, chunk, edited, listed>>

MCNext ==
  \/ CountOn \/ AddOneField \/ WrapTag
  \/ MakeOne \/ EditOnce \/ ListOne \/ PlaceNext

MCSpec == MCInit /\ [][MCNext]_vars

-----------------------------------------------------------------------------
(* Constants.                                                              *)

\* Every kind of byte: the end of a number or not, zero or not.
MCRests == {<<>>} \cup {<<b>> : b \in {0, Base - 1, Base, 2 * Base - 1}}

MCOrder == <<<<>>>> \o [i \in 1..Radix |-> <<i - 1>>]

MCOthers ==
  LET edges == {-513, -512, -17, -16, -1, 0, 15, 16, 511, 512} IN
  [x : edges, y : {0, 1, 255}, z : edges]
=============================================================================
