---------------------------- MODULE BlockCoords ----------------------------
(***************************************************************************)
(* The arithmetic that leads from a block of the world to the byte that    *)
(* keeps it: its chunk and the place in the chunk's array (TcpClient::     *)
(* handle), the region file of the chunk (saveChunk) and its entry there   *)
(* (RegionFile::chunkIndex).  Coordinates are negative on three sides of   *)
(* the spawn.  The numbers are those of the code.  The variable is the     *)
(* block that a player points at: he places one on a face of it and goes   *)
(* on from there.                                                          *)
(***************************************************************************)
EXTENDS Integers

CONSTANT Others   \* blocks that this one must not be confused with

Height == 256                \* the values of blockY, which has eight bits
CellCount == Height * 16 * 16
EntryCount == 32 * 32

\* blockX and blockZ are taken to be far from the ends of 32 bits.
Block == [x : Int, y : 0..Height - 1, z : Int]

ASSUME OthersAssumption == Others \subseteq Block

VARIABLE block

Faces == 0..5

\* a % b of C++, for b > 0.
Remainder(a, b) == IF a >= 0 THEN a % b ELSE -((-a) % b)

\* >> 4 and & 15 of a signed number.
ChunkOf(b) == [x |-> b.x \div 16, z |-> b.z \div 16]

\* Wrong: the remainder of C++ in place of the mask.
CellOfRemainder(b) ==
  (b.y * 16 + Remainder(b.z, 16)) * 16 + Remainder(b.x, 16)

CellOf(b) == (b.y * 16 + (b.z % 16)) * 16 + (b.x % 16)

RegionOf(chunk) == [x |-> chunk.x \div 32, z |-> chunk.z \div 32]

\* Wrong: the remainder of C++ as it is.
ChunkIndexRemainder(chunk) == Remainder(chunk.x, 32) + Remainder(chunk.z, 32) * 32

ChunkIndex(chunk) ==
  Remainder(Remainder(chunk.x, 32) + 32, 32)
    + Remainder(Remainder(chunk.z, 32) + 32, 32) * 32

\* Wrong: the two faces across the z axis are taken for each other.
BesideMirrored(b, face) ==
  CASE face \in {0, 1} -> [b EXCEPT !.y = (@ + 2 * face - 1) % Height]
    [] face \in {2, 3} -> [b EXCEPT !.z = @ + 5 - 2 * face]
    [] face \in {4, 5} -> [b EXCEPT !.x = @ + 2 * face - 9]

\* The block on the other side of a face.  Eight bits wrap below and above.
Beside(b, face) ==
  CASE face = 0 -> [b EXCEPT !.y = (@ - 1) % Height]
    [] face = 1 -> [b EXCEPT !.y = (@ + 1) % Height]
    [] face = 2 -> [b EXCEPT !.z = @ - 1]
    [] face = 3 -> [b EXCEPT !.z = @ + 1]
    [] face = 4 -> [b EXCEPT !.x = @ - 1]
    [] face = 5 -> [b EXCEPT !.x = @ + 1]

Init == block \in Others

Place(face) == block' = Beside(block, face)

Next == \E face \in Faces : Place(face)

Spec == Init /\ [][Next]_block

-----------------------------------------------------------------------------

TypeOK == block \in Block

\* Two blocks never share a byte of memory, and every block has one: the chunk
\* and the index tell all blocks apart, on all sides of the spawn
\* (tcpclient.cpp:367-373, 422-429).
OwnCell ==
  /\ CellOf(block) \in 0..CellCount - 1
  /\ \A other \in Others :
       ChunkOf(other) = ChunkOf(block) /\ CellOf(other) = CellOf(block)
         => other = block

\* Two chunks never share a location entry, and every entry is inside the
\* table: the shift that names the file and the remainder that picks the entry
\* agree for negative coordinates (WorldSave.cpp:5-9, RegionFile.cpp:27-33).
OwnEntry ==
  /\ ChunkIndex(ChunkOf(block)) \in 0..EntryCount - 1
  /\ \A other \in Others :
       /\ RegionOf(ChunkOf(other)) = RegionOf(ChunkOf(block))
       /\ ChunkIndex(ChunkOf(other)) = ChunkIndex(ChunkOf(block))
       => ChunkOf(other) = ChunkOf(block)

Distance(m, n) == IF m < n THEN n - m ELSE m - n

\* The faces of a block as the protocol numbers them: two across each of the
\* axes y, z and x, the lower one even.  A face is told by its axis and the
\* least of its corners, so neighbours have one in common.
FaceOf(b, face) ==
  [axis |-> face \div 2,
   x |-> IF face = 5 THEN b.x + 1 ELSE b.x,
   y |-> IF face = 1 THEN b.y + 1 ELSE b.y,
   z |-> IF face = 3 THEN b.z + 1 ELSE b.z]

Opposite(face) == IF face % 2 = 0 THEN face + 1 ELSE face - 1

\* Where eight bits wrap.
AtEnd(b, face) ==
  \/ face = 0 /\ b.y = 0
  \/ face = 1 /\ b.y = Height - 1

\* A block placed on a face of another has that very face in common with it,
\* except below the lowest and above the highest block of a column, where it
\* lands at the other end of that column and nowhere else.  It lies in the
\* same chunk or the next, and a block placed on its opposite face is the
\* first one again (tcpclient.cpp:399-424).
PlacedBeside ==
  \A face \in Faces :
    LET new == Beside(block, face) IN
      /\ IF AtEnd(block, face)
           THEN new = [block EXCEPT !.y = Height - 1 - @]
           ELSE FaceOf(new, Opposite(face)) = FaceOf(block, face)
      /\ Beside(new, Opposite(face)) = block
      /\ Distance(ChunkOf(new).x, ChunkOf(block).x)
           + Distance(ChunkOf(new).z, ChunkOf(block).z) \in {0, 1}
=============================================================================
