------------------------------- MODULE Chunks -------------------------------
(***************************************************************************)
(* What the three forms of a chunk owe one another: in memory, in a file,  *)
(* and as it is sent.  The steps make a chunk, edit it, and list the       *)
(* sections that another program may have stored of it.                    *)
(***************************************************************************)
EXTENDS ChunkNBT

CONSTANTS
  Made,      \* chunks as they may be made
  Edits,     \* bytes that an edit may put
  Lacking    \* which arrays a section of another program may lack

Arrays == {"blocks", "meta", "blockLight", "skyLight"}
KeyOf == [blocks |-> "Blocks", meta |-> "Data",
          blockLight |-> "BlockLight", skyLight |-> "SkyLight"]

Size(a) == IF a = "blocks" THEN ChunkSize ELSE ChunkSize \div 2

ASSUME ChunksAssumption ==
  /\ Made \subseteq Chunk /\ Edits \subseteq Byte
  /\ Lacking \subseteq SUBSET Range(KeyOf)

VARIABLES
  chunk,   \* a chunk, or NoChunk
  listed   \* the sections that a file of another program has of it

NoChunk == [blocks |-> <<>>]

ChunkInit == chunk = NoChunk /\ listed = <<>>

MakeChunk == chunk = NoChunk /\ chunk' \in Made /\ UNCHANGED listed

EditChunk ==
  /\ chunk # NoChunk /\ listed = <<>>
  /\ \E a \in Arrays, b \in Edits :
       \E i \in 0..Size(a) - 1 : chunk' = [chunk EXCEPT ![a][i] = b]
  /\ UNCHANGED listed

\* The other file has one more section.
ListSection ==
  /\ chunk # NoChunk
  /\ \E s \in 0..Sections - 1, lacks \in Lacking :
       /\ \A i \in DOMAIN listed : listed[i].y # s
       /\ listed' = Append(listed, [y |-> s, lacks |-> lacks])
  /\ UNCHANGED chunk

ChunkNext == MakeChunk \/ EditChunk \/ ListSection

ChunkSpec == ChunkInit /\ [][ChunkNext]_<<chunk, listed>>

\* A section as the other file has it ...
Stored(c, l) ==
  LET built == BuildSection(c, l.y).payload
      kept == DOMAIN built \ {Key(k) : k \in l.lacks}
  IN  MakeTag("Compound", <<>>, [n \in kept |-> built[n]])

\* ... and a Compound that stands between sections and is none.
Stray == MakeCompound(<<>>, {Make("Byte", "Biomes", 1)})

\* The other file: some sections of chunk in some order.
ForeignRoot ==
  LET sections == [i \in 1..Len(listed) |-> Stored(chunk, listed[i])]
      level == MakeCompound(Key("Level"),
                 {Make("List", "Sections", <<Stray>> \o sections)})
  IN  MakeCompound(<<>>, {level})

-----------------------------------------------------------------------------
(* Properties.                                                             *)

\* What saveChunk writes of a chunk is the same chunk when loadChunk has
\* inflated it: every block, every nibble of metadata and light
\* (NBT.cpp:319-530).
LoadsWhatWasSaved ==
  chunk # NoChunk =>
    LET bytes == BuildChunkNBT(-1, 0, chunk) IN
    /\ ~ParseThrows(ReadTag(bytes, 0).value)
    /\ LoadBytes(bytes) = chunk

\* The client and the file get the same chunk: the arrays of the sections, one
\* after the other, are the arrays that Chunk::serialize sends, in which the
\* client takes block (x, y, z) from (y * 16 + z) * 16 + x (world.cpp:27-35,
\* NBT.cpp:319-393).
FileMatchesWire ==
  chunk # NoChunk =>
    LET sections == [s \in 1..Sections |-> BuildSection(chunk, s - 1)]
        all(k) == FlattenSeq([s \in 1..Sections |->
                                Child(sections[s], k).payload])
        file == all("Blocks") \o all("Data") \o all("BlockLight")
                  \o all("SkyLight")
    IN  [i \in 1..Len(file) |-> file[i] % Radix] = SerializeChunk(chunk)

\* Of a chunk that another program has stored, in sections that may be missing
\* and come in any order, each section arrives in its place, and what is not
\* there is as in a new chunk: neither displaced nor mixed up
\* (NBT.cpp:444-529).
LoadsForeign ==
  chunk # NoChunk =>
    LET bytes == WriteTag(ForeignRoot)
        loaded == LoadBytes(bytes)
        per(a) == Size(a) \div Sections
        has(a, s) == \E i \in DOMAIN listed :
                       listed[i].y = s /\ KeyOf[a] \notin listed[i].lacks
        source(a, s) == IF has(a, s) THEN chunk[a] ELSE NewChunk[a]
    IN  /\ ~ParseThrows(ReadTag(bytes, 0).value)
        /\ \A a \in Arrays : \A i \in 0..Size(a) - 1 :
             loaded[a][i] = source(a, i \div per(a))[i]
=============================================================================
