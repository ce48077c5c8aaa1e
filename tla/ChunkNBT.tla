------------------------------ MODULE ChunkNBT ------------------------------
(***************************************************************************)
(* A chunk of the world (Chunk in game/world.cpp), the bytes it is saved   *)
(* as (buildChunkNBT and parseChunkNBT in world/NBT.cpp) and the bytes the *)
(* client is sent (Chunk::serialize).  The arrays of a chunk are functions *)
(* from 0.. to bytes.  In the code a section has 16 x 16 x 16 blocks, a    *)
(* chunk 16 sections and a nibble four bits.  The name of a tag is one     *)
(* byte here, which stands for the whole name.                             *)
(***************************************************************************)
EXTENDS NBT

CONSTANTS
  Side,       \* 16: blocks along each side of a section
  Sections,   \* 16
  Layers,     \* 4: layers of a new chunk that are not empty
  GroundId    \* 2: the block id of these layers

Nibble == CHOOSE n \in 1..Radix : n * n = Radix   \* the values of four bits

SectionSize == Side * Side * Side
ChunkSize == SectionSize * Sections

\* The number of a section is an int8_t, and so many levels has a chunk's NBT.
ASSUME ChunkAssumption ==
  /\ Side \in Nat \ {0} /\ Side % 2 = 0
  /\ Sections \in Nat \ {0} /\ Sections <= Base
  /\ ChunkSize \in SignedOf(WordBytes)
  /\ \E n \in 1..Radix : n * n = Radix
  /\ Layers \in Nat /\ GroundId \in Byte
  /\ Nesting >= 4

Halves == [0..ChunkSize \div 2 - 1 -> Byte]
Chunk == [blocks : [0..ChunkSize - 1 -> Byte],
          meta : Halves, blockLight : Halves, skyLight : Halves]

\* An array as a sequence.
Listed(array, size) == [i \in 1..size |-> array[i - 1]]

\* Wrong: x and z have changed places.
ChunkIdxTurned(y, z, x) == (y * Side + x) * Side + z

\* chunkIdx, with y counted from the bottom of the chunk.
ChunkIdx(y, z, x) == (y * Side + z) * Side + x

\* The cell of a section whose secIdx is i.
CellAt(i) == [y |-> i \div (Side * Side), z |-> (i \div Side) % Side,
              x |-> i % Side]

\* Where the i-th cell of section s is in the chunk's arrays.
IdxAt(s, i) == LET c == CellAt(i) IN ChunkIdx(s * Side + c.y, c.z, c.x)

\* The nibble at index i of an array of pairs: the even ones are low.
GetNibble(array, i) ==
  IF i % 2 = 1 THEN array[i \div 2] \div Nibble ELSE array[i \div 2] % Nibble

\* Wrong: the other nibble of the pair is lost.
SetNibbleAlone(array, i, n) ==
  [array EXCEPT ![i \div 2] = IF i % 2 = 1 THEN n * Nibble ELSE n]

\* Sets one nibble and leaves the other one of the pair.
SetNibble(array, i, n) ==
  [array EXCEPT ![i \div 2] = IF i % 2 = 1 THEN (@ % Nibble) + n * Nibble
                                           ELSE (@ - (@ % Nibble)) + n]

\* Chunk::Chunk.
NewChunk ==
  LET dark == [i \in 0..ChunkSize \div 2 - 1 |-> 0] IN
  [blocks |-> [i \in 0..ChunkSize - 1 |->
                 IF i < Layers * Side * Side THEN GroundId ELSE 0],
   meta |-> dark, blockLight |-> dark, skyLight |-> dark]

\* What Chunk::serialize deflates: one array after the other.
SerializeChunk(chunk) ==
  Listed(chunk.blocks, ChunkSize)
    \o Listed(chunk.meta, ChunkSize \div 2)
    \o Listed(chunk.blockLight, ChunkSize \div 2)
    \o Listed(chunk.skyLight, ChunkSize \div 2)

-----------------------------------------------------------------------------
(* buildChunkNBT.                                                          *)

Keys == <<"Level", "xPos", "zPos", "TerrainPopulated", "InhabitedTime",
          "LastUpdate", "Sections", "Biomes", "Entities", "TileEntities",
          "Y", "Blocks", "Data", "BlockLight", "SkyLight">>

ASSUME KeysAssumption == \A i \in DOMAIN Keys : <<i>> \in Range(Order)

Key(k) == <<CHOOSE i \in DOMAIN Keys : Keys[i] = k>>

Make(type, k, value) == MakeTag(type, Key(k), value)

\* An array of bytes becomes one of int8_t.
Int8s(array, size) == [i \in 1..size |-> Cast(array[i - 1], 1)]

\* The nibbles of section s, put one by one over an array filled with fill.
Packed(source, s, fill) ==
  LET upTo[i \in 0..SectionSize] ==
        IF i = 0
          THEN [h \in 0..SectionSize \div 2 - 1 |-> fill]
          ELSE SetNibble(upTo[i - 1], i - 1,
                         GetNibble(source, IdxAt(s, i - 1)))
  IN  Int8s(upTo[SectionSize], SectionSize \div 2)

\* The light starts full, and every nibble of it is overwritten.
BuildSection(chunk, s) ==
  MakeCompound(<<>>,
    { Make("Byte", "Y", s),
      Make("ByteArray", "Blocks",
           [i \in 1..SectionSize |->
              Cast(chunk.blocks[IdxAt(s, i - 1)], 1)]),
      Make("ByteArray", "Data", Packed(chunk.meta, s, 0)),
      Make("ByteArray", "BlockLight", Packed(chunk.blockLight, s, 0)),
      Make("ByteArray", "SkyLight", Packed(chunk.skyLight, s, Radix - 1)) })

BuildRoot(chunkX, chunkZ, chunk) ==
  LET sections == [s \in 1..Sections |-> BuildSection(chunk, s - 1)]
      level == MakeCompound(Key("Level"),
        { Make("Int", "xPos", chunkX), Make("Int", "zPos", chunkZ),
          Make("Byte", "TerrainPopulated", 1),
          Make("Long", "InhabitedTime", 0), Make("Long", "LastUpdate", 0),
          Make("List", "Sections", sections),
          Make("ByteArray", "Biomes", [i \in 1..Side * Side |-> 1]),
          Make("List", "Entities", <<>>),
          Make("List", "TileEntities", <<>>) })
  IN  MakeCompound(<<>>, {level})

BuildChunkNBT(chunkX, chunkZ, chunk) ==
  WriteTag(BuildRoot(chunkX, chunkZ, chunk))

-----------------------------------------------------------------------------
(* parseChunkNBT.  A section outside the chunk or with too few blocks has  *)
(* no defined outcome in the code, and none here.                          *)

Has(tag, k) == Key(k) \in DOMAIN tag.payload
Child(tag, k) == tag.payload[Key(k)]

\* The code throws where there is no Level, and std::get where a tag has
\* another type than the one expected.
Expected(tag, k, type) == Has(tag, k) => Child(tag, k).type = type
SectionThrows(section) ==
  /\ section.type = "Compound" /\ Has(section, "Y")
  /\ \/ ~Expected(section, "Y", "Byte")
     \/ \E k \in {"Blocks", "Data", "BlockLight", "SkyLight"} :
          ~Expected(section, k, "ByteArray")
ParseThrows(root) ==
  \/ root.type # "Compound"
  \/ ~Has(root, "Level")
  \/ Child(root, "Level").type # "Compound"
  \/ LET level == Child(root, "Level") IN
     /\ Has(level, "Sections")
     /\ \/ Child(level, "Sections").type # "List"
        \/ \E i \in DOMAIN Child(level, "Sections").payload :
             SectionThrows(Child(level, "Sections").payload[i])

\* The nibbles of section s put over those of the chunk, as many as there are.
Unpacked(target, s, packed) ==
  LET bytes == [h \in 0..Len(packed) - 1 |-> packed[h + 1] % Radix]
      upTo[i \in 0..SectionSize] ==
        IF i = 0 THEN target
        ELSE IF (i - 1) \div 2 < Len(packed)
          THEN SetNibble(upTo[i - 1], IdxAt(s, i - 1), GetNibble(bytes, i - 1))
          ELSE upTo[i - 1]
  IN  upTo[SectionSize]

\* Wrong: the sections of a file are taken to be the lowest ones, in order.
NextSection(tag) == (Child(tag, "Y").payload + Sections - 1) % Sections

SectionOf(tag) == Child(tag, "Y").payload

PutNibbles(array, section, k) ==
  IF Has(section, k)
    THEN Unpacked(array, SectionOf(section), Child(section, k).payload)
    ELSE array

PutBlocks(array, section) ==
  LET upTo[i \in 0..SectionSize] ==
        IF i = 0
          THEN array
          ELSE [upTo[i - 1] EXCEPT ![IdxAt(SectionOf(section), i - 1)] =
                  Child(section, "Blocks").payload[i] % Radix]
  IN  IF Has(section, "Blocks") THEN upTo[SectionSize] ELSE array

\* What is no Compound, or does not say where it belongs, is skipped.
PutSection(chunk, section) ==
  IF section.type # "Compound" \/ ~Has(section, "Y")
    THEN chunk
    ELSE [blocks |-> PutBlocks(chunk.blocks, section),
          meta |-> PutNibbles(chunk.meta, section, "Data"),
          blockLight |-> PutNibbles(chunk.blockLight, section, "BlockLight"),
          skyLight |-> PutNibbles(chunk.skyLight, section, "SkyLight")]

ParseChunkNBT(root, chunk) ==
  LET level == Child(root, "Level")
      sections == Child(level, "Sections").payload
      upTo[i \in 0..Len(sections)] ==
        IF i = 0 THEN chunk ELSE PutSection(upTo[i - 1], sections[i])
  IN  IF Has(level, "Sections") THEN upTo[Len(sections)] ELSE chunk

\* loadChunk, from the inflated bytes on.
LoadBytes(bytes) == ParseChunkNBT(ReadTag(bytes, 0).value, NewChunk)
=============================================================================
