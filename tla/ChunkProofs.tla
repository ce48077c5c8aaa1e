---------------------------- MODULE ChunkProofs ----------------------------
(***************************************************************************)
(* What becomes of a chunk, for every chunk: the coordinates that lead to  *)
(* its blocks and to its entry in a file (BlockCoords), the tags that it   *)
(* is stored as (Tags), and the chunk that is read from them (Chunks).     *)
(***************************************************************************)
EXTENDS ConversionsProofs, Tags, Chunks, BlockCoords, FiniteSetTheorems

-----------------------------------------------------------------------------
(* Coordinates, on all sides of the spawn, and for every set of other      *)
(* blocks: arithmetic with 16, 32 and 256, by cases on signs and faces.    *)

\* A digit of base 16 does not run into those above it.
LEMMA DigitApart ==
  \A a, b, u, v \in Int :
    /\ 0 <= u /\ u < 16 /\ 0 <= v /\ v < 16 /\ a * 16 + u = b * 16 + v
    => a = b /\ u = v
  OBVIOUS

\* Nor do the three parts of an index ...
LEMMA IndexParts ==
  ASSUME NEW bx \in Int, NEW by \in Int, NEW bz \in Int,
         NEW cx \in Int, NEW cy \in Int, NEW cz \in Int,
         (by * 16 + (bz % 16)) * 16 + (bx % 16)
           = (cy * 16 + (cz % 16)) * 16 + (cx % 16)
  PROVE  bx % 16 = cx % 16 /\ bz % 16 = cz % 16 /\ by = cy
<1>1. /\ bx % 16 \in Int /\ 0 <= bx % 16 /\ bx % 16 < 16
      /\ cx % 16 \in Int /\ 0 <= cx % 16 /\ cx % 16 < 16
      /\ bz % 16 \in Int /\ 0 <= bz % 16 /\ bz % 16 < 16
      /\ cz % 16 \in Int /\ 0 <= cz % 16 /\ cz % 16 < 16
  OBVIOUS
<1>2. by * 16 + (bz % 16) = cy * 16 + (cz % 16) /\ bx % 16 = cx % 16
  BY <1>1, DigitApart
<1> QED
  BY <1>1, <1>2, DigitApart

\* ... which stays below 16 * 16 * 256.
LEMMA IndexBound ==
  ASSUME NEW bx \in Int, NEW by \in Int, NEW bz \in Int, 0 <= by, by <= 255
  PROVE  /\ (by * 16 + (bz % 16)) * 16 + (bx % 16) \in Int
         /\ 0 <= (by * 16 + (bz % 16)) * 16 + (bx % 16)
         /\ (by * 16 + (bz % 16)) * 16 + (bx % 16) < 65536
  OBVIOUS

\* The two parts of an entry's number.
LEMMA EntryParts ==
  ASSUME NEW mx \in Int, NEW mz \in Int, NEW nx \in Int, NEW nz \in Int,
         (mx % 32) + (mz % 32) * 32 = (nx % 32) + (nz % 32) * 32
  PROVE  mx % 32 = nx % 32 /\ mz % 32 = nz % 32
  OBVIOUS

\* Membership of a range whose end is not spelt out.
LEMMA InRange == \A n, a \in Int : 0 <= a /\ a < n => a \in 0..n - 1
  OBVIOUS

\* A number is told by its quotient and its remainder.
LEMMA QuotientAndRemainder ==
  \A a, b \in Int :
    /\ (a \div 16 = b \div 16) /\ (a % 16 = b % 16) => a = b
    /\ (a \div 32 = b \div 32) /\ (a % 32 = b % 32) => a = b
  OBVIOUS

\* The ranges of the three remainders of the code.
LEMMA SmallRemainders ==
  \A a \in Int : /\ a % 16 \in Int /\ 0 <= a % 16 /\ a % 16 < 16
                 /\ a % 32 \in Int /\ 0 <= a % 32 /\ a % 32 < 32
                 /\ a % 256 \in Int /\ 0 <= a % 256 /\ a % 256 < 256
  OBVIOUS

\* ((a % 32) + 32) % 32 with the remainder of C++ is the mathematical one
\* (RegionFile.cpp:30-31).
LEMMA TwiceRemainder ==
  \A a \in Int : Remainder(Remainder(a, 32) + 32, 32) = a % 32
<1> SUFFICES ASSUME NEW a \in Int
             PROVE  Remainder(Remainder(a, 32) + 32, 32) = a % 32
  OBVIOUS
<1>1. CASE a >= 0
  BY <1>1 DEF Remainder
<1>2. CASE a < 0
  <2>1. Remainder(a, 32) = -((-a) % 32)
    BY <1>2 DEF Remainder
  <2>2. Remainder(a, 32) + 32 \in 1..32
    BY <2>1
  <2>3. Remainder(Remainder(a, 32) + 32, 32) = (Remainder(a, 32) + 32) % 32
    BY <2>2 DEF Remainder
  <2> QED
    BY <2>1, <2>3
<1> QED
  BY <1>1, <1>2

\* A block placed on a face is a block, whatever eight bits make of its height.
LEMMA BesideType ==
  ASSUME NEW b \in Block, NEW face \in Faces
  PROVE  /\ Beside(b, face) \in Block
         /\ Beside(b, face) =
              [x |-> IF face = 4 THEN b.x - 1 ELSE IF face = 5 THEN b.x + 1 ELSE b.x,
               y |-> IF face = 0 THEN (b.y - 1) % Height
                     ELSE IF face = 1 THEN (b.y + 1) % Height ELSE b.y,
               z |-> IF face = 2 THEN b.z - 1 ELSE IF face = 3 THEN b.z + 1 ELSE b.z]
<1>1. face \in {0, 1, 2, 3, 4, 5}
  BY DEF Faces
<1>2. b = [x |-> b.x, y |-> b.y, z |-> b.z] /\ b.x \in Int /\ b.y \in 0..Height - 1
        /\ b.z \in Int
  BY DEF Block
<1>3. (b.y - 1) % Height \in 0..Height - 1 /\ (b.y + 1) % Height \in 0..Height - 1
  BY <1>2, SmallRemainders DEF Height
<1> QED
  BY <1>1, <1>2, <1>3 DEF Beside, Block

-----------------------------------------------------------------------------

\* Wherever the player goes on placing blocks, he points at a block.
THEOREM TypeCorrect == Spec => []TypeOK
<1>1. Init => TypeOK
  BY OthersAssumption DEF Init, TypeOK
<1>2. TypeOK /\ [Next]_block => TypeOK'
  BY BesideType DEF TypeOK, Next, Place
<1> QED
  BY <1>1, <1>2, PTL DEF Spec

\* The address of a block tells it from every other one.
LEMMA CellTells ==
  ASSUME NEW b \in Block, NEW c \in Block,
         ChunkOf(b) = ChunkOf(c), CellOf(b) = CellOf(c)
  PROVE  b = c
<1>1. /\ b = [x |-> b.x, y |-> b.y, z |-> b.z]
      /\ c = [x |-> c.x, y |-> c.y, z |-> c.z]
      /\ b.x \in Int /\ b.z \in Int /\ c.x \in Int /\ c.z \in Int
      /\ b.y \in 0..Height - 1 /\ c.y \in 0..Height - 1
  BY DEF Block
<1>2. b.x \div 16 = c.x \div 16 /\ b.z \div 16 = c.z \div 16
  BY DEF ChunkOf
<1>3. (b.y * 16 + (b.z % 16)) * 16 + (b.x % 16)
        = (c.y * 16 + (c.z % 16)) * 16 + (c.x % 16)
  BY DEF CellOf
<1>4. b.x % 16 = c.x % 16 /\ b.z % 16 = c.z % 16 /\ b.y = c.y
  <2>1. b.y \in Int /\ c.y \in Int
    BY <1>1 DEF Height
  <2> QED
    BY <1>1, <1>3, <2>1, IndexParts
<1> QED
  BY <1>1, <1>2, <1>4, QuotientAndRemainder

\* OwnCell, for every block and every set of others.
THEOREM OwnCells == Spec => []OwnCell
<1>1. TypeOK => OwnCell
  <2> SUFFICES ASSUME TypeOK PROVE OwnCell
    OBVIOUS
  <2>1. CellOf(block) \in 0..CellCount - 1
    <3>1. block.x \in Int /\ block.z \in Int /\ block.y \in 0..Height - 1
      BY DEF TypeOK, Block
    <3>2. block.y \in Int /\ 0 <= block.y /\ block.y <= 255
      BY <3>1 DEF Height
    <3>3. CellCount = 65536
      BY DEF CellCount, Height
    <3>4. /\ CellOf(block) \in Int
          /\ 0 <= CellOf(block) /\ CellOf(block) < CellCount
      BY <3>1, <3>2, <3>3, IndexBound DEF CellOf
    <3>5. CellCount \in Int
      BY <3>3
    <3> QED
      BY <3>4, <3>5, InRange
  <2>2. \A other \in Others :
          ChunkOf(other) = ChunkOf(block) /\ CellOf(other) = CellOf(block)
            => other = block
    BY CellTells, OthersAssumption DEF TypeOK
  <2> QED
    BY <2>1, <2>2, Zenon DEF OwnCell
<1> QED
  BY <1>1, TypeCorrect, PTL

\* File and entry tell a chunk from every other one.
LEMMA EntryTells ==
  ASSUME NEW m \in [x : Int, z : Int], NEW n \in [x : Int, z : Int],
         RegionOf(m) = RegionOf(n), ChunkIndex(m) = ChunkIndex(n)
  PROVE  m = n
<1>1. /\ m = [x |-> m.x, z |-> m.z] /\ n = [x |-> n.x, z |-> n.z]
      /\ m.x \in Int /\ m.z \in Int /\ n.x \in Int /\ n.z \in Int
  OBVIOUS
<1>2. m.x \div 32 = n.x \div 32 /\ m.z \div 32 = n.z \div 32
  BY DEF RegionOf
<1>3. (m.x % 32) + (m.z % 32) * 32 = (n.x % 32) + (n.z % 32) * 32
  BY <1>1, TwiceRemainder DEF ChunkIndex
<1>4. m.x % 32 = n.x % 32 /\ m.z % 32 = n.z % 32
  BY <1>1, <1>3, EntryParts
<1> QED
  BY <1>1, <1>2, <1>4, QuotientAndRemainder

\* A block's chunk is one, and its entry is in the table.
LEMMA ChunkType ==
  ASSUME NEW b \in Block
  PROVE  /\ ChunkOf(b) \in [x : Int, z : Int]
         /\ ChunkIndex(ChunkOf(b)) \in 0..EntryCount - 1
<1>1. ChunkOf(b) \in [x : Int, z : Int]
  BY DEF Block, ChunkOf
<1> DEFINE x == ChunkOf(b).x
           z == ChunkOf(b).z
<1>2. x \in Int /\ z \in Int
  BY <1>1
<1>3. ChunkIndex(ChunkOf(b)) = (x % 32) + (z % 32) * 32
  BY <1>2, TwiceRemainder DEF ChunkIndex
<1> HIDE DEF x, z
<1>4. (x % 32) + (z % 32) * 32 \in 0..1023
  <2>1. x % 32 \in 0..31 /\ z % 32 \in 0..31
    BY <1>2
  <2> QED
    BY <2>1
<1> QED
  BY <1>1, <1>3, <1>4 DEF EntryCount

\* OwnEntry, for every block and every set of others.
THEOREM OwnEntries == Spec => []OwnEntry
<1>1. TypeOK => OwnEntry
  <2> SUFFICES ASSUME TypeOK PROVE OwnEntry
    OBVIOUS
  <2>1. ChunkIndex(ChunkOf(block)) \in 0..EntryCount - 1
    BY ChunkType DEF TypeOK
  <2>2. ASSUME NEW other \in Others,
               RegionOf(ChunkOf(other)) = RegionOf(ChunkOf(block)),
               ChunkIndex(ChunkOf(other)) = ChunkIndex(ChunkOf(block))
        PROVE  ChunkOf(other) = ChunkOf(block)
    BY <2>2, ChunkType, EntryTells, OthersAssumption DEF TypeOK
  <2> QED
    BY <2>1, <2>2 DEF OwnEntry
<1> QED
  BY <1>1, TypeCorrect, PTL

\* PlacedBeside, for every block.
THEOREM Placed == Spec => []PlacedBeside
<1>1. TypeOK => PlacedBeside
  <2> SUFFICES ASSUME TypeOK, NEW face \in Faces
               PROVE  LET new == Beside(block, face) IN
                        /\ IF AtEnd(block, face)
                             THEN new = [block EXCEPT !.y = Height - 1 - @]
                             ELSE FaceOf(new, Opposite(face))
                                    = FaceOf(block, face)
                        /\ Beside(new, Opposite(face)) = block
                        /\ Distance(ChunkOf(new).x, ChunkOf(block).x)
                             + Distance(ChunkOf(new).z, ChunkOf(block).z)
                             \in {0, 1}
    BY DEF PlacedBeside
  <2> DEFINE new == Beside(block, face)
             opposite == Opposite(face)
  <2>1. block \in Block
    BY DEF TypeOK
  <2>2. face \in {0, 1, 2, 3, 4, 5} /\ opposite \in Faces
    BY DEF Faces, Opposite
  <2>3. /\ block = [x |-> block.x, y |-> block.y, z |-> block.z]
        /\ block.x \in Int /\ block.y \in 0..Height - 1 /\ block.z \in Int
    BY <2>1 DEF Block
  <2>4. new \in Block
    BY <2>1, BesideType
  <2>5. /\ new.x = IF face = 4 THEN block.x - 1
                   ELSE IF face = 5 THEN block.x + 1 ELSE block.x
        /\ new.y = IF face = 0 THEN (block.y - 1) % Height
                   ELSE IF face = 1 THEN (block.y + 1) % Height ELSE block.y
        /\ new.z = IF face = 2 THEN block.z - 1
                   ELSE IF face = 3 THEN block.z + 1 ELSE block.z
    BY <2>1, BesideType
  <2>6. Beside(new, opposite) = block
    <3>1. Beside(new, opposite) =
            [x |-> IF opposite = 4 THEN new.x - 1
                   ELSE IF opposite = 5 THEN new.x + 1 ELSE new.x,
             y |-> IF opposite = 0 THEN (new.y - 1) % Height
                   ELSE IF opposite = 1 THEN (new.y + 1) % Height ELSE new.y,
             z |-> IF opposite = 2 THEN new.z - 1
                   ELSE IF opposite = 3 THEN new.z + 1 ELSE new.z]
      BY <2>2, <2>4, BesideType
    <3>2. /\ face = 0 => opposite = 1
          /\ face = 1 => opposite = 0
          /\ face = 2 => opposite = 3
          /\ face = 3 => opposite = 2
          /\ face = 4 => opposite = 5
          /\ face = 5 => opposite = 4
      BY DEF Opposite
    <3>3. (((block.y - 1) % Height) + 1) % Height = block.y
          /\ (((block.y + 1) % Height) - 1) % Height = block.y
      BY <2>3 DEF Height
    <3> QED
      BY <2>2, <2>3, <2>5, <3>1, <3>2, <3>3
  <2>7. Distance(ChunkOf(new).x, ChunkOf(block).x)
          + Distance(ChunkOf(new).z, ChunkOf(block).z) \in {0, 1}
    <3>1. \A a \in Int : /\ Distance(a \div 16, a \div 16) = 0
                         /\ Distance((a + 1) \div 16, a \div 16) \in {0, 1}
                         /\ Distance((a - 1) \div 16, a \div 16) \in {0, 1}
      BY DEF Distance
    <3>2. /\ ChunkOf(new).x = new.x \div 16 /\ ChunkOf(new).z = new.z \div 16
          /\ ChunkOf(block).x = block.x \div 16
          /\ ChunkOf(block).z = block.z \div 16
      BY DEF ChunkOf
    <3> QED
      BY <2>2, <2>3, <2>5, <3>1, <3>2
  <2>8. CASE AtEnd(block, face)
    <3>1. /\ new.x = block.x /\ new.z = block.z
          /\ new.y = Height - 1 - block.y
      BY <2>3, <2>5, <2>8 DEF AtEnd, Height
    <3>2. new = [x |-> new.x, y |-> new.y, z |-> new.z]
      BY <2>4 DEF Block
    <3> HIDE DEF new
    <3>3. new = [block EXCEPT !.y = Height - 1 - @]
      BY <2>3, <3>1, <3>2
    <3> QED
      BY <2>6, <2>7, <2>8, <3>3 DEF new
  <2>9. CASE ~AtEnd(block, face)
    <3>1. /\ face = 0 => new.y = block.y - 1
          /\ face = 1 => new.y = block.y + 1
      BY <2>3, <2>5, <2>9 DEF AtEnd, Height
    <3> HIDE DEF new
    <3>2. FaceOf(new, opposite) = FaceOf(block, face)
      BY <2>2, <2>3, <2>5, <3>1 DEF FaceOf, Opposite
    <3> QED
      BY <2>6, <2>7, <2>9, <3>2 DEF new
  <2> QED
    BY <2>6, <2>7, <2>8, <2>9
<1> QED
  BY <1>1, TypeCorrect, PTL

-----------------------------------------------------------------------------
(* Tags.                                                                   *)


\* The types there are.
LEMMA TypeIds ==
  ASSUME NEW t \in Types
  PROVE  /\ TypeId(t) \in Byte /\ TypeOf(TypeId(t)) = t
<1>1. PICK i \in DOMAIN TagTypes : TagTypes[i] = t
  BY DEF Types, Range
<1>2. DOMAIN TagTypes = 1..12 /\ Len(TagTypes) = 12
  BY DEF TagTypes
<1> DEFINE j == CHOOSE j \in DOMAIN TagTypes : TagTypes[j] = t
<1>3. j \in DOMAIN TagTypes /\ TagTypes[j] = t
  BY <1>1
<1>4. TypeId(t) = j - 1
  BY DEF TypeId
<1> HIDE DEF j
<1>5. 12 <= Radix
  BY <1>2, NBTAssumption
<1>6. TypeId(t) \in Byte
  BY <1>2, <1>3, <1>4, <1>5, RadixType
<1>7. TypeId(t) + 1 = j
  BY <1>2, <1>3, <1>4
<1> QED
  BY <1>3, <1>6, <1>7 DEF TypeOf

\* The levels of a tag, one below the other.
LEMMA LevelsDef ==
  ASSUME NEW t
  PROVE  LET l == Levels(t) IN
         /\ l[0] = {t}
         /\ \A n \in 1..Nesting : l[n] = UNION {Inner(u) : u \in l[n - 1]}
         /\ \A n \in 0..Nesting : l[n] \subseteq Inside(t)
<1> DEFINE First == {t}
           Following(before) == UNION {Inner(u) : u \in before}
           E(g) == [n \in 0..Nesting |->
                      IF n = 0 THEN First ELSE Following(g[n - 1])]
           S == {m \in Nat : \E g : g = [n \in 0..m |->
                      IF n = 0 THEN First ELSE Following(g[n - 1])]}
<1> HIDE DEF First, Following
<1>1. 0 \in S
  <2> DEFINE g == [n \in 0..0 |-> First]
  <2>1. g = [n \in 0..0 |-> IF n = 0 THEN First ELSE Following(g[n - 1])]
    OBVIOUS
  <2> QED
    BY <2>1
<1>2. ASSUME NEW m \in Nat, m \in S
      PROVE  m + 1 \in S
  <2>1. PICK g : g = [n \in 0..m |->
                        IF n = 0 THEN First ELSE Following(g[n - 1])]
    BY <1>2
  <2> DEFINE h == [n \in 0..m + 1 |-> IF n = m + 1 THEN Following(g[m]) ELSE g[n]]
  <2>2. ASSUME NEW n \in 0..m + 1
        PROVE  h[n] = IF n = 0 THEN First ELSE Following(h[n - 1])
    <3>1. CASE n = m + 1
      <4>1. n # 0 /\ n - 1 = m /\ m \in 0..m + 1 /\ m # m + 1
        BY <3>1
      <4>2. h[n] = Following(g[m]) /\ h[m] = g[m]
        BY <3>1, <4>1
      <4> HIDE DEF h
      <4> QED
        BY <4>1, <4>2
    <3>2. CASE n # m + 1
      <4>1. /\ n \in 0..m
            /\ n # 0 => n - 1 \in 0..m /\ n - 1 \in 0..m + 1 /\ n - 1 # m + 1
        BY <3>2
      <4>2. h[n] = g[n] /\ (n # 0 => h[n - 1] = g[n - 1])
        BY <3>2, <4>1
      <4>3. g[n] = IF n = 0 THEN First ELSE Following(g[n - 1])
        BY <2>1, <4>1
      <4> HIDE DEF h
      <4> QED
        BY <4>2, <4>3
    <3> QED
      BY <3>1, <3>2
  <2>3. h = [n \in 0..m + 1 |-> h[n]]
    OBVIOUS
  <2> HIDE DEF h
  <2>4. h = [n \in 0..m + 1 |-> IF n = 0 THEN First ELSE Following(h[n - 1])]
    BY <2>2, <2>3, Zenon
  <2> QED
    BY <2>4
<1>3. Nesting \in S
  <2> HIDE DEF S
  <2>1. \A m \in Nat : m \in S => m + 1 \in S
    BY <1>2
  <2>2. \A m \in Nat : m \in S
    BY <1>1, <2>1, Induction
  <2> QED
    BY <2>2, NBTAssumption
<1> DEFINE l == CHOOSE g : g = E(g)
<1>4. l = E(l)
  <2>1. PICK g : g = E(g)
    BY <1>3
  <2> HIDE DEF E
  <2> QED
    BY <2>1
<1>5. Levels(t) = l
  BY DEF Levels, First, Following
<1> HIDE DEF l
<1>6. Nesting \in Nat
  BY NBTAssumption
<1>7. DOMAIN l = 0..Nesting /\ l[0] = First
  <2>1. 0 \in 0..Nesting
    BY <1>6
  <2> QED
    BY <1>4, <2>1
<1>8. ASSUME NEW n \in 1..Nesting
      PROVE  l[n] = Following(l[n - 1])
  <2>1. n \in 0..Nesting /\ n # 0
    BY <1>6
  <2> QED
    BY <1>4, <2>1
<1>9. ASSUME NEW n \in 0..Nesting
      PROVE  l[n] \subseteq Inside(t)
  BY <1>5, <1>7 DEF Inside, Range
<1> QED
  BY <1>5, <1>7, <1>8, <1>9 DEF First, Following

\* What is written of all tags, written being what is of those inside them.
AllContents(inside, written) == [u \in inside |-> Content(u, written)]

\* What is written of the tags inside a tag, from one level to the next.
LEMMA ContentsDef ==
  ASSUME NEW t
  PROVE  LET c == Contents(t) IN
         /\ c[0] = AllContents(Inside(t), <<>>)
         /\ \A n \in 1..Nesting : c[n] = AllContents(Inside(t), c[n - 1])
<1> DEFINE inside == Inside(t)
<1> HIDE DEF inside
<1> DEFINE First == AllContents(inside, <<>>)
           Following(before) == AllContents(inside, before)
           E(g) == [n \in 0..Nesting |->
                      IF n = 0 THEN First ELSE Following(g[n - 1])]
           S == {m \in Nat : \E g : g = [n \in 0..m |->
                      IF n = 0 THEN First ELSE Following(g[n - 1])]}
<1> HIDE DEF First, Following
<1>1. 0 \in S
  <2> DEFINE g == [n \in 0..0 |-> First]
  <2>1. g = [n \in 0..0 |-> IF n = 0 THEN First ELSE Following(g[n - 1])]
    OBVIOUS
  <2> QED
    BY <2>1
<1>2. ASSUME NEW m \in Nat, m \in S
      PROVE  m + 1 \in S
  <2>1. PICK g : g = [n \in 0..m |->
                        IF n = 0 THEN First ELSE Following(g[n - 1])]
    BY <1>2
  <2> DEFINE h == [n \in 0..m + 1 |-> IF n = m + 1 THEN Following(g[m]) ELSE g[n]]
  <2>2. ASSUME NEW n \in 0..m + 1
        PROVE  h[n] = IF n = 0 THEN First ELSE Following(h[n - 1])
    <3>1. CASE n = m + 1
      <4>1. n # 0 /\ n - 1 = m /\ m \in 0..m + 1 /\ m # m + 1
        BY <3>1
      <4>2. h[n] = Following(g[m]) /\ h[m] = g[m]
        BY <3>1, <4>1
      <4> HIDE DEF h
      <4> QED
        BY <4>1, <4>2
    <3>2. CASE n # m + 1
      <4>1. /\ n \in 0..m
            /\ n # 0 => n - 1 \in 0..m /\ n - 1 \in 0..m + 1 /\ n - 1 # m + 1
        BY <3>2
      <4>2. h[n] = g[n] /\ (n # 0 => h[n - 1] = g[n - 1])
        BY <3>2, <4>1
      <4>3. g[n] = IF n = 0 THEN First ELSE Following(g[n - 1])
        BY <2>1, <4>1
      <4> HIDE DEF h
      <4> QED
        BY <4>2, <4>3
    <3> QED
      BY <3>1, <3>2
  <2>3. h = [n \in 0..m + 1 |-> h[n]]
    OBVIOUS
  <2> HIDE DEF h
  <2>4. h = [n \in 0..m + 1 |-> IF n = 0 THEN First ELSE Following(h[n - 1])]
    BY <2>2, <2>3, Zenon
  <2> QED
    BY <2>4
<1>3. Nesting \in S
  <2> HIDE DEF S
  <2>1. \A m \in Nat : m \in S => m + 1 \in S
    BY <1>2
  <2>2. \A m \in Nat : m \in S
    BY <1>1, <2>1, Induction
  <2> QED
    BY <2>2, NBTAssumption
<1> DEFINE l == CHOOSE g : g = E(g)
<1>4. l = E(l)
  <2>1. PICK g : g = E(g)
    BY <1>3
  <2> HIDE DEF E
  <2> QED
    BY <2>1
<1>5. Contents(t) = l
  BY DEF Contents, inside, First, Following, AllContents
<1> HIDE DEF l
<1>6. Nesting \in Nat
  BY NBTAssumption
<1>7. DOMAIN l = 0..Nesting /\ l[0] = First
  <2>1. 0 \in 0..Nesting
    BY <1>6
  <2> QED
    BY <1>4, <2>1
<1>8. ASSUME NEW n \in 1..Nesting
      PROVE  l[n] = Following(l[n - 1])
  <2>1. n \in 0..Nesting /\ n # 0
    BY <1>6
  <2> QED
    BY <1>4, <2>1
<1> QED
  BY <1>5, <1>7, <1>8 DEF First, Following, inside

\* What is read anywhere, payloads being what is read of the tags inside.
AllPayloads(data, payloads) ==
  [at \in Types \X Nat |-> PayloadAt(at[1], data, at[2], payloads)]

\* What is read anywhere in a vector, from one level to the next.
LEMMA PayloadsDef ==
  ASSUME NEW data
  PROVE  LET p == Payloads(data) IN
         /\ p[0] = AllPayloads(data, <<>>)
         /\ \A n \in 1..Nesting : p[n] = AllPayloads(data, p[n - 1])
<1> DEFINE First == AllPayloads(data, <<>>)
           Following(before) == AllPayloads(data, before)
           E(g) == [n \in 0..Nesting |->
                      IF n = 0 THEN First ELSE Following(g[n - 1])]
           S == {m \in Nat : \E g : g = [n \in 0..m |->
                      IF n = 0 THEN First ELSE Following(g[n - 1])]}
<1> HIDE DEF First, Following
<1>1. 0 \in S
  <2> DEFINE g == [n \in 0..0 |-> First]
  <2>1. g = [n \in 0..0 |-> IF n = 0 THEN First ELSE Following(g[n - 1])]
    OBVIOUS
  <2> QED
    BY <2>1
<1>2. ASSUME NEW m \in Nat, m \in S
      PROVE  m + 1 \in S
  <2>1. PICK g : g = [n \in 0..m |->
                        IF n = 0 THEN First ELSE Following(g[n - 1])]
    BY <1>2
  <2> DEFINE h == [n \in 0..m + 1 |-> IF n = m + 1 THEN Following(g[m]) ELSE g[n]]
  <2>2. ASSUME NEW n \in 0..m + 1
        PROVE  h[n] = IF n = 0 THEN First ELSE Following(h[n - 1])
    <3>1. CASE n = m + 1
      <4>1. n # 0 /\ n - 1 = m /\ m \in 0..m + 1 /\ m # m + 1
        BY <3>1
      <4>2. h[n] = Following(g[m]) /\ h[m] = g[m]
        BY <3>1, <4>1
      <4> HIDE DEF h
      <4> QED
        BY <4>1, <4>2
    <3>2. CASE n # m + 1
      <4>1. /\ n \in 0..m
            /\ n # 0 => n - 1 \in 0..m /\ n - 1 \in 0..m + 1 /\ n - 1 # m + 1
        BY <3>2
      <4>2. h[n] = g[n] /\ (n # 0 => h[n - 1] = g[n - 1])
        BY <3>2, <4>1
      <4>3. g[n] = IF n = 0 THEN First ELSE Following(g[n - 1])
        BY <2>1, <4>1
      <4> HIDE DEF h
      <4> QED
        BY <4>2, <4>3
    <3> QED
      BY <3>1, <3>2
  <2>3. h = [n \in 0..m + 1 |-> h[n]]
    OBVIOUS
  <2> HIDE DEF h
  <2>4. h = [n \in 0..m + 1 |-> IF n = 0 THEN First ELSE Following(h[n - 1])]
    BY <2>2, <2>3, Zenon
  <2> QED
    BY <2>4
<1>3. Nesting \in S
  <2> HIDE DEF S
  <2>1. \A m \in Nat : m \in S => m + 1 \in S
    BY <1>2
  <2>2. \A m \in Nat : m \in S
    BY <1>1, <2>1, Induction
  <2> QED
    BY <2>2, NBTAssumption
<1> DEFINE l == CHOOSE g : g = E(g)
<1>4. l = E(l)
  <2>1. PICK g : g = E(g)
    BY <1>3
  <2> HIDE DEF E
  <2> QED
    BY <2>1
<1>5. Payloads(data) = l
  BY DEF Payloads, First, Following, AllPayloads
<1> HIDE DEF l
<1>6. Nesting \in Nat
  BY NBTAssumption
<1>7. DOMAIN l = 0..Nesting /\ l[0] = First
  <2>1. 0 \in 0..Nesting
    BY <1>6
  <2> QED
    BY <1>4, <2>1
<1>8. ASSUME NEW n \in 1..Nesting
      PROVE  l[n] = Following(l[n - 1])
  <2>1. n \in 0..Nesting /\ n # 0
    BY <1>6
  <2> QED
    BY <1>4, <2>1
<1> QED
  BY <1>5, <1>7, <1>8 DEF First, Following

\* The tags below a tag are those at and below the tags right inside it.
LEMMA LevelsBelow ==
  ASSUME NEW t, NEW n \in 1..Nesting
  PROVE  Levels(t)[n] = UNION {Levels(c)[n - 1] : c \in Inner(t)}
<1> DEFINE S == {m \in Nat : m + 1 \in 1..Nesting =>
                   Levels(t)[m + 1] = UNION {Levels(c)[m] : c \in Inner(t)}}
<1>1. Nesting \in Nat
  BY NBTAssumption
<1>2. 0 \in S
  <2> SUFFICES ASSUME 0 + 1 \in 1..Nesting
               PROVE  Levels(t)[0 + 1] = UNION {Levels(c)[0] : c \in Inner(t)}
    OBVIOUS
  <2>1. Levels(t)[1] = UNION {Inner(u) : u \in Levels(t)[0]}
    BY <1>1, LevelsDef
  <2>2. Levels(t)[0] = {t} /\ \A c : Levels(c)[0] = {c}
    BY LevelsDef
  <2> QED
    BY <2>1, <2>2
<1>3. ASSUME NEW m \in Nat, m \in S
      PROVE  m + 1 \in S
  <2> SUFFICES ASSUME (m + 1) + 1 \in 1..Nesting
               PROVE  Levels(t)[(m + 1) + 1]
                        = UNION {Levels(c)[m + 1] : c \in Inner(t)}
    OBVIOUS
  <2>1. m + 1 \in 1..Nesting /\ ((m + 1) + 1) - 1 = m + 1 /\ (m + 1) - 1 = m
    BY <1>1
  <2>2. Levels(t)[m + 1] = UNION {Levels(c)[m] : c \in Inner(t)}
    BY <1>3, <2>1
  <2>3. Levels(t)[(m + 1) + 1] = UNION {Inner(u) : u \in Levels(t)[m + 1]}
    BY <2>1, LevelsDef
  <2>4. \A c : Levels(c)[m + 1] = UNION {Inner(u) : u \in Levels(c)[m]}
    BY <2>1, LevelsDef
  <2> QED
    BY <2>2, <2>3, <2>4
<1>4. n - 1 \in S
  <2> HIDE DEF S
  <2>1. \A m \in Nat : m \in S => m + 1 \in S
    BY <1>3
  <2>2. \A m \in Nat : m \in S
    BY <1>2, <2>1, Induction
  <2> QED
    BY <2>2
<1> QED
  BY <1>4

-----------------------------------------------------------------------------
(* The tags there are.                                                     *)

TagOK(t) ==
  /\ t = MakeTag(t.type, t.name, t.payload)
  /\ t.type \in Types \ {"End"} /\ t.name \in Names

\* The items of a list have one type and no names; a Compound has its tags
\* under their names; other tags have what a tag of their type may hold.
Sound(t) ==
  /\ TagOK(t)
  /\ t.type = "List" =>
       /\ t.payload \in Seq(Range(t.payload))
       /\ Len(t.payload) \in SignedOf(WordBytes)
       /\ \A c \in Range(t.payload) :
            TagOK(c) /\ c.type = ElementType(t.payload) /\ c.name = <<>>
  /\ t.type = "Compound" =>
       /\ t.payload \in [DOMAIN t.payload -> Range(t.payload)]
       /\ DOMAIN t.payload \subseteq Range(Order)
       /\ \A n \in DOMAIN t.payload : TagOK(t.payload[n]) /\ t.payload[n].name = n
  /\ t.type \notin {"List", "Compound"} => t.payload \in LeafValues(t.type)

\* A tag with at most so many levels below it.
Deep(t, levels) ==
  \A n \in 0..Nesting : \A u \in Levels(t)[n] :
    Sound(u) /\ (n >= levels => Inner(u) = {})

\* A tag with others inside it is one level deeper.
LEMMA DeepAround ==
  ASSUME NEW t, NEW m \in Nat, Sound(t), \A c \in Inner(t) : Deep(c, m)
  PROVE  Deep(t, m + 1)
<1> SUFFICES ASSUME NEW n \in 0..Nesting, NEW u \in Levels(t)[n]
             PROVE  Sound(u) /\ (n >= m + 1 => Inner(u) = {})
  BY DEF Deep
<1>1. Nesting \in Nat
  BY NBTAssumption
<1>2. CASE n = 0
  BY <1>2, LevelsDef
<1>3. CASE n # 0
  <2>1. n \in 1..Nesting /\ n - 1 \in 0..Nesting /\ (n >= m + 1 => n - 1 >= m)
    BY <1>1, <1>3
  <2>2. PICK c \in Inner(t) : u \in Levels(c)[n - 1]
    BY <2>1, LevelsBelow
  <2> QED
    BY <2>1, <2>2 DEF Deep
<1> QED
  BY <1>2, <1>3

\* A tag with none inside it has no level below it.
LEMMA DeepLeaf ==
  ASSUME NEW t, Sound(t), Inner(t) = {}
  PROVE  Deep(t, 0)
<1> SUFFICES ASSUME NEW n \in 0..Nesting, NEW u \in Levels(t)[n]
             PROVE  Sound(u) /\ Inner(u) = {}
  BY DEF Deep
<1>1. Nesting \in Nat
  BY NBTAssumption
<1>2. CASE n = 0
  BY <1>2, LevelsDef
<1>3. CASE n # 0
  <2>1. n \in 1..Nesting
    BY <1>1, <1>3
  <2> QED
    BY <2>1, LevelsBelow
<1> QED
  BY <1>2, <1>3

\* Who has so many levels has as many or more.
LEMMA DeepMore ==
  ASSUME NEW t, NEW m \in Nat, NEW k \in Nat, m <= k, Deep(t, m)
  PROVE  Deep(t, k)
<1> SUFFICES ASSUME NEW n \in 0..Nesting, NEW u \in Levels(t)[n]
             PROVE  Sound(u) /\ (n >= k => Inner(u) = {})
  BY DEF Deep
<1>1. n >= k => n >= m
  BY NBTAssumption
<1> QED
  BY <1>1 DEF Deep

\* A tag is at the top of its levels.
LEMMA DeepSound ==
  ASSUME NEW t, NEW m, Deep(t, m)
  PROVE  Sound(t)
<1>1. 0 \in 0..Nesting
  BY NBTAssumption
<1> QED
  BY <1>1, LevelsDef DEF Deep

-----------------------------------------------------------------------------
(* The parts of a tag.                                                     *)

\* A name and its length.
LEMMA NameType ==
  ASSUME NEW s \in Names
  PROVE  /\ s \in Seq(Byte) /\ Len(s) \in Nat /\ Len(s) \in UnsignedOf(2)
         /\ WriteInt16(Len(s)) = Put(Len(s), 2)
         /\ WriteInt16(Len(s)) \in Seq(Byte) /\ Len(WriteInt16(Len(s))) = 2
<1>1. s \in Seq(Byte) /\ Len(s) \in Nat /\ Len(s) \in UnsignedOf(2)
  BY LenProperties DEF Names
<1>2. Len(s) \in Int /\ 2 \in Nat
  BY <1>1
<1>3. Put(Len(s), 2) \in Seq(Byte) /\ Len(Put(Len(s), 2)) = 2
  BY <1>2, PutType
<1> QED
  BY <1>1, <1>3 DEF WriteInt16

\* A text with its length before it.
LEMMA TextReadBack ==
  ASSUME NEW data \in Seq(Byte), NEW o \in Nat, NEW s \in Names,
         Holds(data, o, WriteInt16(Len(s)) \o s)
  PROVE  /\ Slice(data, ReadShort(data, o).offset, ReadShort(data, o).value)
              = [value |-> s, offset |-> o + Len(WriteInt16(Len(s)) \o s)]
         /\ Len(WriteInt16(Len(s)) \o s) = 2 + Len(s)
         /\ WriteInt16(Len(s)) \o s \in Seq(Byte)
<1> DEFINE n == Len(s)
           w == WriteInt16(n)
           p == o + 2
<1>1. /\ s \in Seq(Byte) /\ n \in Nat /\ n \in UnsignedOf(2)
      /\ w = Put(n, 2) /\ w \in Seq(Byte) /\ Len(w) = 2
  BY NameType
<1>2. /\ Holds(data, o, w) /\ Holds(data, p, s)
      /\ w \o s \in Seq(Byte) /\ Len(w \o s) = 2 + n
  <2> HIDE DEF w
  <2>1. /\ Holds(data, o, w) /\ Holds(data, o + Len(w), s)
        /\ w \o s \in Seq(Byte) /\ Len(w \o s) = Len(w) + Len(s)
    BY <1>1, HoldsParts DEF w
  <2> QED
    BY <1>1, <2>1
<1>3. ReadShort(data, o) = [value |-> n, offset |-> p]
  <2>1. Get(data, o, 2) = [value |-> n, offset |-> o + Len(Put(n, 2))]
    <3>1. Holds(data, o, Put(n, 2))
      BY <1>1, <1>2
    <3> QED
      BY <1>1, <3>1, UnsignedField, WordBytesType
  <2> QED
    BY <1>1, <2>1 DEF ReadShort
<1>4. SubSeq(data, p + 1, p + n) = s
  <2>1. p \in Nat
    OBVIOUS
  <2>2. s \in Seq(Byte) /\ Holds(data, p, s)
    BY <1>1, <1>2
  <2> HIDE DEF p, w
  <2> QED
    BY <2>2, HeldFrom
<1>5. p + n = o + (2 + n)
  BY <1>1
<1>6. Slice(data, p, n) = [value |-> s, offset |-> o + (2 + n)]
  BY <1>4, <1>5 DEF Slice
<1> QED
  BY <1>2, <1>3, <1>6

\* A header is written as bytes, the text of the name behind the type.
LEMMA HeaderType ==
  ASSUME NEW t, TagOK(t)
  PROVE  LET text == WriteInt16(Len(t.name)) \o t.name IN
         /\ Header(t) = <<TypeId(t.type)>> \o text
         /\ Header(t) \in Seq(Byte) /\ Len(Header(t)) = 1 + Len(text)
         /\ <<TypeId(t.type)>> \in Seq(Byte) /\ text \in Seq(Byte)
         /\ Len(<<TypeId(t.type)>>) = 1
<1> DEFINE a == <<TypeId(t.type)>>
           w == WriteInt16(Len(t.name))
           s == t.name
<1>1. a \in Seq(Byte) /\ Len(a) = 1
  <2>1. TypeId(t.type) \in Byte
    BY TypeIds DEF TagOK
  <2> QED
    BY <2>1
<1>2. w \in Seq(Byte) /\ s \in Seq(Byte)
  BY NameType DEF TagOK
<1>3. Header(t) = (a \o w) \o s
  BY DEF Header
<1> HIDE DEF a, w, s
<1>4. (a \o w) \o s = a \o (w \o s)
  BY <1>1, <1>2, BytesAssociative DEF Regroups
<1> DEFINE x == w \o s
<1>5. x \in Seq(Byte)
  BY <1>2, Joined
<1>6. Header(t) = a \o x
  BY <1>3, <1>4
<1> HIDE DEF x
<1>7. a \o x \in Seq(Byte) /\ Len(a \o x) = 1 + Len(x)
  <2>1. a \o x \in Seq(Byte) /\ Len(a \o x) = Len(a) + Len(x)
    BY <1>1, <1>5, Joined
  <2> QED
    BY <1>1, <2>1
<1> QED
  BY <1>1, <1>5, <1>6, <1>7 DEF a, x, w, s

\* The type and the name of a tag.
LEMMA HeaderReadBack ==
  ASSUME NEW data \in Seq(Byte), NEW o \in Nat, NEW t, TagOK(t),
         Holds(data, o, Header(t))
  PROVE  /\ TypeOf(data[o + 1]) = t.type
         /\ NameOf(data, o) = [value |-> t.name, offset |-> o + Len(Header(t))]
<1> DEFINE a == <<TypeId(t.type)>>
           x == WriteInt16(Len(t.name)) \o t.name
           n == Len(x)
<1>1. /\ Header(t) = a \o x /\ Len(Header(t)) = 1 + n
      /\ a \in Seq(Byte) /\ x \in Seq(Byte) /\ Len(a) = 1
  BY HeaderType
<1> HIDE DEF a, x
<1>2. Holds(data, o, a) /\ Holds(data, o + 1, x) /\ n \in Nat
  <2>1. /\ Holds(data, o, a) /\ Holds(data, o + Len(a), x) /\ Len(x) \in Nat
    BY <1>1, HoldsParts
  <2> QED
    BY <1>1, <2>1
<1>3. TypeOf(data[o + 1]) = t.type
  <2>1. data[o + 1] = a[1]
    <3>1. 1 \in 1..Len(a)
      BY <1>1
    <3> QED
      BY <1>2, <3>1 DEF Holds
  <2>2. a[1] = TypeId(t.type)
    BY DEF a
  <2> QED
    BY <2>1, <2>2, TypeIds DEF TagOK
<1>4. NameOf(data, o) = [value |-> t.name, offset |-> (o + 1) + n]
  <2>1. o + 1 \in Nat /\ t.name \in Names
    BY DEF TagOK
  <2>2. Slice(data, ReadShort(data, o + 1).offset, ReadShort(data, o + 1).value)
          = [value |-> t.name, offset |-> (o + 1) + n]
    BY <1>2, <2>1, TextReadBack DEF x
  <2> QED
    BY <2>2 DEF NameOf
<1>5. (o + 1) + n = o + Len(Header(t))
  BY <1>1, <1>2
<1> QED
  BY <1>3, <1>4, <1>5

\* At p stands the payload of the tag, as long as the body.
PayloadIs(payloads, t, p, body) ==
  payloads[<<t.type, p>>] = [value |-> t.payload, offset |-> p + Len(body)]

\* A tag with its header, if what follows is read back.
LEMMA TagAtReadBack ==
  ASSUME NEW data \in Seq(Byte), NEW o \in Nat, NEW t, TagOK(t),
         NEW body \in Seq(Byte), Holds(data, o, Header(t) \o body),
         NEW payloads, NEW p \in Nat, p = o + Len(Header(t)),
         PayloadIs(payloads, t, p, body)
  PROVE  /\ TagAt(data, o, payloads) =
              [value |-> t, offset |-> o + Len(Header(t) \o body)]
         /\ Header(t) \o body \in Seq(Byte)
<1> DEFINE h == Header(t)
           end == p + Len(body)
<1>1. h \in Seq(Byte) /\ Len(h) \in Nat /\ Len(body) \in Nat /\ p = o + Len(h)
  BY HeaderType, LenProperties
<1> HIDE DEF h
<1>2. /\ Holds(data, o, h) /\ h \o body \in Seq(Byte)
      /\ Len(h \o body) = Len(h) + Len(body)
  BY <1>1, HoldsParts DEF h
<1>3. end = o + Len(h \o body)
  <2>1. Len(h) \in Nat /\ Len(body) \in Nat /\ p = o + Len(h)
    BY <1>1
  <2>2. Len(h \o body) = Len(h) + Len(body)
    BY <1>2
  <2> QED
    BY <2>1, <2>2
<1>4. /\ TypeOf(data[o + 1]) = t.type /\ t.type # "End"
      /\ NameOf(data, o) = [value |-> t.name, offset |-> p]
  <2>1. /\ TypeOf(data[o + 1]) = t.type
        /\ NameOf(data, o) = [value |-> t.name, offset |-> o + Len(h)]
    BY <1>2, HeaderReadBack DEF h
  <2> QED
    BY <1>1, <2>1 DEF TagOK
<1>5. payloads[<<t.type, p>>] = [value |-> t.payload, offset |-> end]
  BY DEF PayloadIs
<1> HIDE DEF end
<1>6. TagAt(data, o, payloads) =
        [value |-> MakeTag(t.type, t.name, t.payload), offset |-> end]
  BY <1>4, <1>5 DEF TagAt
<1>7. t = MakeTag(t.type, t.name, t.payload)
  BY DEF TagOK
<1> QED
  BY <1>2, <1>3, <1>6, <1>7 DEF h

-----------------------------------------------------------------------------
(* Numbers of the same width, one after the other.                         *)

\* Blocks of one size.
LEMMA EvenlySpaced ==
  ASSUME NEW n \in Nat, NEW w \in Nat, NEW at \in [0..n -> Nat], at[0] = 0,
         \A i \in 1..n : at[i] = at[i - 1] + w,
         NEW k \in 0..n
  PROVE  at[k] = k * w
<1> DEFINE h == [i \in 0..n |-> i * w]
<1>1. at[0] = h[0]
  <2>1. 0 \in 0..n /\ 0 * w = 0
    OBVIOUS
  <2> QED
    BY <2>1
<1>2. ASSUME NEW i \in 1..k, at[i - 1] = h[i - 1]
      PROVE  at[i] = h[i]
  <2>1. i \in 1..n /\ i \in 0..n /\ i - 1 \in 0..n /\ i \in Int
    OBVIOUS
  <2>2. h[i] = i * w /\ h[i - 1] = (i - 1) * w
    BY <2>1
  <2>3. (i - 1) * w + w = i * w
    BY <2>1
  <2> HIDE DEF h
  <2> QED
    BY <1>2, <2>1, <2>2, <2>3
<1>3. k \in Nat
  OBVIOUS
<1> HIDE DEF h
<1>4. at[k] = h[k]
  BY <1>1, <1>2, <1>3, SameAnswer
<1> QED
  BY <1>4 DEF h

\* The numbers of an array as bytes.
LEMMA BytesHold ==
  ASSUME NEW w \in Nat \ {0}, NEW numbers \in Seq(SignedOf(w))
  PROVE  /\ Bytes(numbers, w) \in Seq(Byte)
         /\ Len(Bytes(numbers, w)) = Len(numbers) * w
         /\ \A i \in 1..Len(numbers) :
              Holds(Bytes(numbers, w), (i - 1) * w, Put(numbers[i], w))
<1> DEFINE n == Len(numbers)
           ss == [i \in 1..n |-> Put(numbers[i], w)]
           b == FlattenSeq(ss)
<1>1. n \in Nat /\ w \in Nat
  BY LenProperties
<1>2. \A i \in 1..n : /\ Put(numbers[i], w) \in Seq(Byte)
                      /\ Len(Put(numbers[i], w)) = w
  <2>1. \A i \in 1..n : numbers[i] \in Int
    BY ElementOfSeq, CastBack
  <2> QED
    BY <1>1, <2>1, PutType
<1>3. /\ ss \in Seq(Seq(Byte)) /\ Len(ss) = n
      /\ \A i \in 1..n : ss[i] = Put(numbers[i], w) /\ Len(ss[i]) = w
  BY <1>1, <1>2
<1>4. Bytes(numbers, w) = b
  BY DEF Bytes
<1> HIDE DEF ss, n
<1>5. b \in Seq(Byte)
  BY <1>3, FlattenType
<1>6. PICK at \in [0..n -> Nat] :
           /\ at[0] = 0 /\ at[n] = Len(b)
           /\ \A i \in 1..n : /\ at[i] = at[i - 1] + Len(ss[i])
                              /\ Holds(b, at[i - 1], ss[i])
  <2>1. \E at \in [0..Len(ss) -> Nat] :
           /\ at[0] = 0 /\ at[Len(ss)] = Len(FlattenSeq(ss))
           /\ \A i \in 1..Len(ss) :
                /\ at[i] = at[i - 1] + Len(ss[i])
                /\ Holds(FlattenSeq(ss), at[i - 1], ss[i])
    BY <1>3, FlattenHolds
  <2> QED
    BY <1>3, <2>1
<1> HIDE DEF b
<1>7. \A k \in 0..n : at[k] = k * w
  <2>1. \A i \in 1..n : at[i] = at[i - 1] + w
    BY <1>3, <1>6
  <2> QED
    BY <1>1, <1>6, <2>1, EvenlySpaced
<1>8. Len(b) = n * w
  <2>1. n \in 0..n
    BY <1>1
  <2> QED
    BY <1>6, <1>7, <2>1
<1>9. ASSUME NEW i \in 1..n
      PROVE  Holds(b, (i - 1) * w, Put(numbers[i], w))
  <2>1. i - 1 \in 0..n
    BY <1>1
  <2>2. at[i - 1] = (i - 1) * w
    BY <1>7, <2>1
  <2> QED
    BY <1>3, <1>6, <2>2
<1> QED
  BY <1>4, <1>5, <1>8, <1>9 DEF n

\* An array and its length.
LEMMA ArrayReadBack ==
  ASSUME NEW data \in Seq(Byte), NEW o \in Nat, NEW w \in Nat \ {0},
         NEW numbers \in Seq(SignedOf(w)), Len(numbers) \in SignedOf(WordBytes),
         Holds(data, o, WriteInt32(Len(numbers)) \o Bytes(numbers, w))
  PROVE  GetArray(data, ReadInt32(data, o), w) =
           [value |-> numbers,
            offset |-> o + Len(WriteInt32(Len(numbers)) \o Bytes(numbers, w))]
<1> DEFINE n == Len(numbers)
           a == WriteInt32(n)
           b == Bytes(numbers, w)
           p == o + Len(a)
           r == ReadInt32(data, o)
<1>1. n \in Nat /\ w \in Nat
  BY LenProperties
<1>2. a \in Seq(Byte) /\ a = Put(n, WordBytes) /\ Len(a) \in Nat
  <2>1. n \in Int /\ WordBytes \in Nat
    BY <1>1, WordBytesType
  <2>2. Put(n, WordBytes) \in Seq(Byte)
    BY <2>1, PutType
  <2> QED
    BY <2>2, LenProperties DEF WriteInt32
<1>3. /\ b \in Seq(Byte) /\ Len(b) = n * w
      /\ \A i \in 1..n : Holds(b, (i - 1) * w, Put(numbers[i], w))
  BY BytesHold
<1> HIDE DEF a, b
<1>4. /\ Holds(data, o, a) /\ Holds(data, p, b)
      /\ Len(a \o b) = Len(a) + Len(b) /\ Len(b) \in Nat
  <2>1. Holds(data, o, a \o b)
    BY DEF a, b
  <2>2. a \in Seq(Byte) /\ b \in Seq(Byte)
    BY <1>2, <1>3
  <2> QED
    BY <2>1, <2>2, HoldsParts
<1>5. r = [value |-> n, offset |-> p]
  <2>1. Holds(data, o, Put(n, WordBytes)) /\ n \in SignedOf(WordBytes)
    BY <1>2, <1>4
  <2>2. GetSigned(data, o, WordBytes) =
          [value |-> n, offset |-> o + Len(Put(n, WordBytes))]
    BY <2>1, SignedField, WordBytesType
  <2> QED
    BY <1>2, <2>2 DEF ReadInt32
<1>6. p \in Nat /\ p + n * w = o + Len(a \o b)
  <2> DEFINE l == n * w
  <2>1. Len(b) = l
    BY <1>3
  <2> HIDE DEF l
  <2> QED
    BY <1>2, <1>4, <2>1 DEF l
<1>7. ASSUME NEW i \in 1..n
      PROVE  GetSigned(data, p + (i - 1) * w, w).value = numbers[i]
  <2> DEFINE q == (i - 1) * w
             m == numbers[i]
             s == Put(m, w)
  <2>1. m \in SignedOf(w)
    BY ElementOfSeq
  <2>2. s \in Seq(Byte)
    <3>1. m \in Int
      BY <2>1, CastBack
    <3> HIDE DEF m
    <3> QED
      BY <1>1, <3>1, PutType
  <2>3. Holds(b, q, s)
    BY <1>3
  <2> HIDE DEF q, m
  <2>4. Holds(data, p + q, s)
    BY <1>3, <1>4, <2>2, <2>3, HoldsInside
  <2>5. p + q \in Nat
    BY <2>4 DEF Holds
  <2>6. GetSigned(data, p + q, w) = [value |-> m, offset |-> (p + q) + Len(s)]
    BY <2>1, <2>4, <2>5, SignedField
  <2>7. GetSigned(data, p + q, w).value = m
    BY <2>6
  <2> QED
    BY <2>7 DEF q, m
<1>8. [i \in 1..n |-> GetSigned(data, p + (i - 1) * w, w).value] = numbers
  <2>1. numbers = [i \in 1..n |-> numbers[i]]
    OBVIOUS
  <2> QED
    BY <1>7, <2>1, Zenon
<1>9. GetArray(data, r, w) =
        [value |-> [i \in 1..r.value |->
                      GetSigned(data, r.offset + (i - 1) * w, w).value],
         offset |-> r.offset + r.value * w]
  BY DEF GetArray
<1>10. r.value = n /\ r.offset = p
  BY <1>5
<1> HIDE DEF r, p, n
<1>11. GetArray(data, r, w) = [value |-> numbers, offset |-> o + Len(a \o b)]
  BY <1>6, <1>8, <1>9, <1>10
<1> QED
  BY <1>11 DEF r, a, b, n

-----------------------------------------------------------------------------
(* Lists.                                                                  *)

\* What is written of a tag's contents is read back from wherever it stands.
ReadBack(data, payloads, written, t) ==
  /\ written[t] \in Seq(Byte)
  /\ \A o \in Nat :
       Holds(data, o, written[t]) =>
         payloads[<<t.type, o>>] =
           [value |-> t.payload, offset |-> o + Len(written[t])]

\* The items of a list are written as bytes.
LEMMA ItemsType ==
  ASSUME NEW items, items \in Seq(Range(items)), NEW written,
         \A t \in Range(items) : written[t] \in Seq(Byte)
  PROVE  LET ss == [i \in 1..Len(items) |-> written[items[i]]] IN
         /\ Len(items) \in Nat
         /\ ss \in Seq(Seq(Byte)) /\ Len(ss) = Len(items)
         /\ WriteItems(items, written) = FlattenSeq(ss)
         /\ WriteItems(items, written) \in Seq(Byte)
<1> DEFINE n == Len(items)
           ss == [i \in 1..n |-> written[items[i]]]
<1>1. n \in Nat
  BY LenProperties
<1>2. \A i \in 1..n : items[i] \in Range(items)
  BY ElementOfSeq
<1>3. ss \in Seq(Seq(Byte)) /\ Len(ss) = n
  BY <1>1, <1>2
<1>4. WriteItems(items, written) = FlattenSeq(ss)
  BY DEF WriteItems
<1> HIDE DEF ss
<1>5. FlattenSeq(ss) \in Seq(Byte)
  BY <1>3, FlattenType
<1> QED
  BY <1>1, <1>3, <1>4, <1>5 DEF ss

\* The items of a list are read one by one as they were written.
LEMMA ItemsReadBack ==
  ASSUME NEW data \in Seq(Byte), NEW o \in Nat, NEW type,
         NEW items, items \in Seq(Range(items)), NEW written, NEW payloads,
         \A t \in Range(items) :
           /\ t = MakeTag(type, <<>>, t.payload)
           /\ ReadBack(data, payloads, written, t),
         Holds(data, o, WriteItems(items, written))
  PROVE  ReadItems(type, Len(items), o, payloads) =
           [value |-> items, offset |-> o + Len(WriteItems(items, written))]
<1> DEFINE n == Len(items)
           ss == [i \in 1..n |-> written[items[i]]]
           b == WriteItems(items, written)
           V == Range(items)
           Item(g, i) == payloads[<<type, g[i - 1].offset>>]
           E(g) == [i \in 0..n |->
             IF i = 0
               THEN [value |-> <<>>, offset |-> o]
               ELSE [value |-> Append(g[i - 1].value,
                                      MakeTag(type, <<>>, Item(g, i).value)),
                     offset |-> Item(g, i).offset]]
           f == CHOOSE g : g = E(g)
<1>1. \A t \in V : written[t] \in Seq(Byte)
  BY DEF ReadBack
<1>2. /\ n \in Nat /\ ss \in Seq(Seq(Byte)) /\ Len(ss) = n
      /\ b = FlattenSeq(ss) /\ b \in Seq(Byte)
  BY <1>1, ItemsType
<1>3. \A i \in 1..n : ss[i] = written[items[i]] /\ items[i] \in V
  BY <1>2, ElementOfSeq
<1>4. ReadItems(type, n, o, payloads) = f[n]
  BY DEF ReadItems
<1>5. items \in Seq(V) /\ Len(items) = n
  OBVIOUS
<1> HIDE DEF V, ss, n
<1>6. PICK at \in [0..n -> Nat] :
           /\ at[0] = 0 /\ at[n] = Len(b)
           /\ \A i \in 1..n : /\ at[i] = at[i - 1] + Len(ss[i])
                              /\ Holds(b, at[i - 1], ss[i])
  <2>1. \E at \in [0..Len(ss) -> Nat] :
           /\ at[0] = 0 /\ at[Len(ss)] = Len(FlattenSeq(ss))
           /\ \A i \in 1..Len(ss) :
                /\ at[i] = at[i - 1] + Len(ss[i])
                /\ Holds(FlattenSeq(ss), at[i - 1], ss[i])
    BY <1>2, FlattenHolds
  <2> QED
    BY <1>2, <2>1
<1>7. Holds(data, o, b) /\ b \in Seq(Byte)
  BY <1>2
<1> HIDE DEF b
<1> DEFINE h == [i \in 0..n |-> [value |-> SubSeq(items, 1, i),
                                 offset |-> o + at[i]]]
<1>8. h[0] = [value |-> <<>>, offset |-> o]
  <2>1. SubSeq(items, 1, 0) = <<>>
    <3>1. 0 \in 0..Len(items)
      BY <1>2, <1>5
    <3>2. SubSeq(items, 1, 0) \in Seq(V) /\ Len(SubSeq(items, 1, 0)) = 0
      BY <1>5, <3>1, FirstProperties
    <3> QED
      BY <3>2, EmptySeq
  <2>2. 0 \in 0..n /\ o + at[0] = o
    BY <1>2, <1>6
  <2> QED
    BY <2>1, <2>2
<1>9. ASSUME NEW i \in 1..n
      PROVE  /\ i - 1 \in 0..n /\ i \in 0..n /\ i # 0
             /\ h[i] = [value |-> Append(h[i - 1].value,
                                         MakeTag(type, <<>>, Item(h, i).value)),
                        offset |-> Item(h, i).offset]
  <2>1. i - 1 \in 0..n /\ i \in 0..n /\ i # 0 /\ i \in 1..Len(items)
    BY <1>2, <1>5
  <2>2. h[i - 1].value = SubSeq(items, 1, i - 1) /\ h[i - 1].offset = o + at[i - 1]
    BY <2>1
  <2>3. h[i] = [value |-> SubSeq(items, 1, i), offset |-> o + at[i]]
    BY <2>1
  <2> HIDE DEF h
  <2> DEFINE q == o + at[i - 1]
             t == items[i]
             s == written[t]
  <2>4. q \in Nat /\ t \in V
    <3>1. at[i - 1] \in Nat
      BY <1>6, <2>1
    <3> QED
      BY <1>3, <3>1
  <2>5. /\ s \in Seq(Byte) /\ s = ss[i]
        /\ t = MakeTag(type, <<>>, t.payload) /\ ReadBack(data, payloads, written, t)
    BY <1>3, <2>4 DEF V, ReadBack
  <2>6. t.type = type
    <3> HIDE DEF t
    <3> QED
      BY <2>5 DEF MakeTag
  <2>7. Holds(data, q, s)
    <3>1. Holds(b, at[i - 1], s)
      BY <1>6, <2>5
    <3> HIDE DEF s
    <3> QED
      BY <1>7, <2>5, <3>1, HoldsInside
  <2> HIDE DEF q, t
  <2>8. payloads[<<type, q>>] = [value |-> t.payload, offset |-> q + Len(s)]
    BY <2>4, <2>5, <2>6, <2>7 DEF ReadBack
  <2>9. q + Len(s) = o + at[i]
    <3>1. at[i] = at[i - 1] + Len(s) /\ at[i - 1] \in Nat
      BY <1>6, <2>1, <2>5
    <3>2. Len(s) \in Nat
      BY <2>5, LenProperties
    <3> QED
      BY <3>1, <3>2 DEF q
  <2>10. Item(h, i) = payloads[<<type, q>>]
    BY <2>2 DEF q
  <2> DEFINE taken == Item(h, i)
  <2>11. taken.value = t.payload /\ taken.offset = o + at[i]
    BY <2>8, <2>9, <2>10
  <2> HIDE DEF taken
  <2>12. MakeTag(type, <<>>, taken.value) = t
    BY <2>5, <2>11
  <2>13. Append(SubSeq(items, 1, i - 1), t) = SubSeq(items, 1, i)
    BY <1>5, <2>1, FirstAppend DEF t
  <2>14. h[i] = [value |-> Append(h[i - 1].value, MakeTag(type, <<>>, taken.value)),
                 offset |-> taken.offset]
    BY <2>2, <2>3, <2>11, <2>12, <2>13
  <2> QED
    BY <2>1, <2>14 DEF taken
<1> HIDE DEF Item
<1>10. h = E(h)
  <2>1. h = [i \in 0..n |-> h[i]]
    OBVIOUS
  <2> HIDE DEF h
  <2>2. \A i \in 0..n : i = 0 \/ i \in 1..n
    BY <1>2
  <2>3. ASSUME NEW i \in 0..n
        PROVE  h[i] = IF i = 0
                 THEN [value |-> <<>>, offset |-> o]
                 ELSE [value |-> Append(h[i - 1].value,
                                        MakeTag(type, <<>>, Item(h, i).value)),
                       offset |-> Item(h, i).offset]
    <3>1. CASE i = 0
      BY <1>8, <3>1
    <3>2. CASE i \in 1..n
      <4>1. i # 0
        BY <3>2
      <4> QED
        BY <1>9, <3>2, <4>1
    <3> QED
      BY <2>2, <3>1, <3>2
  <2> QED
    BY <2>1, <2>3, Zenon
<1> HIDE DEF h
<1>11. f = E(f)
  <2> HIDE DEF E
  <2> QED
    BY <1>10
<1> HIDE DEF f
<1>12. f[0] = h[0]
  <2>1. 0 \in 0..n
    BY <1>2
  <2> QED
    BY <1>8, <1>11, <2>1
<1>13. ASSUME NEW i \in 1..n, f[i - 1] = h[i - 1]
       PROVE  f[i] = h[i]
  <2>1. i - 1 \in 0..n /\ i \in 0..n /\ i # 0
    BY <1>2
  <2>2. f[i] = E(f)[i]
    BY <1>11
  <2>3. E(f)[i] = [value |-> Append(f[i - 1].value,
                                    MakeTag(type, <<>>, Item(f, i).value)),
                   offset |-> Item(f, i).offset]
    BY <2>1
  <2>4. Item(f, i) = Item(h, i)
    BY <1>13 DEF Item
  <2> HIDE DEF E
  <2> QED
    BY <1>9, <1>13, <2>2, <2>3, <2>4
<1>14. f[n] = h[n]
  BY <1>2, <1>12, <1>13, SameAnswer
<1>15. h[n] = [value |-> items, offset |-> o + Len(b)]
  <2>1. SubSeq(items, 1, n) = items
    <3>1. n \in 0..Len(items)
      BY <1>2, <1>5
    <3> DEFINE x == SubSeq(items, 1, n)
    <3>2. x \in Seq(V) /\ Len(x) = n /\ \A i \in 1..n : x[i] = items[i]
      BY <1>5, <3>1, FirstProperties
    <3> HIDE DEF x
    <3>3. x = items
      BY <1>5, <3>2, SeqEqual
    <3> QED
      BY <3>3 DEF x
  <2>2. n \in 0..n
    BY <1>2
  <2> QED
    BY <1>6, <2>1, <2>2 DEF h
<1> QED
  BY <1>4, <1>14, <1>15 DEF b, n

-----------------------------------------------------------------------------
(* Compounds.                                                              *)

\* One round of the loop that reads a Compound.
NextChild(data, payloads, before) ==
  LET child == TagAt(data, before.offset, payloads) IN
  IF before.ended
    THEN before
  ELSE IF child.value.type = "End"
    THEN [value |-> before.value, offset |-> child.offset, ended |-> TRUE]
  ELSE [value |-> With(before.value, child.value),
        offset |-> child.offset, ended |-> FALSE]

\* The rounds of the loop, and what it comes to.
Rounds(f, data, o, payloads) ==
  /\ f[0] = [value |-> <<>>, offset |-> o, ended |-> FALSE]
  /\ \A i \in 1..Len(Order) + 1 : f[i] = NextChild(data, payloads, f[i - 1])
  /\ ReadChildren(data, o, payloads) =
       [value |-> f[Len(Order) + 1].value, offset |-> f[Len(Order) + 1].offset]

\* The loop does these rounds.
LEMMA RoundsDef ==
  ASSUME NEW data, NEW o, NEW payloads
  PROVE  \E f : Rounds(f, data, o, payloads)
<1> DEFINE N == Len(Order) + 1
           First == [value |-> <<>>, offset |-> o, ended |-> FALSE]
           Following(before) == NextChild(data, payloads, before)
           E(g) == [n \in 0..N |->
                      IF n = 0 THEN First ELSE Following(g[n - 1])]
           S == {m \in Nat : \E g : g = [n \in 0..m |->
                      IF n = 0 THEN First ELSE Following(g[n - 1])]}
<1>0. N \in Nat
  BY NBTAssumption, LenProperties
<1> HIDE DEF First, Following, N
<1>1. 0 \in S
  <2> DEFINE g == [n \in 0..0 |-> First]
  <2>1. g = [n \in 0..0 |-> IF n = 0 THEN First ELSE Following(g[n - 1])]
    OBVIOUS
  <2> QED
    BY <2>1
<1>2. ASSUME NEW m \in Nat, m \in S
      PROVE  m + 1 \in S
  <2>1. PICK g : g = [n \in 0..m |->
                        IF n = 0 THEN First ELSE Following(g[n - 1])]
    BY <1>2
  <2> DEFINE h == [n \in 0..m + 1 |-> IF n = m + 1 THEN Following(g[m]) ELSE g[n]]
  <2>2. ASSUME NEW n \in 0..m + 1
        PROVE  h[n] = IF n = 0 THEN First ELSE Following(h[n - 1])
    <3>1. CASE n = m + 1
      <4>1. n # 0 /\ n - 1 = m /\ m \in 0..m + 1 /\ m # m + 1
        BY <3>1
      <4>2. h[n] = Following(g[m]) /\ h[m] = g[m]
        BY <3>1, <4>1
      <4> HIDE DEF h
      <4> QED
        BY <4>1, <4>2
    <3>2. CASE n # m + 1
      <4>1. /\ n \in 0..m
            /\ n # 0 => n - 1 \in 0..m /\ n - 1 \in 0..m + 1 /\ n - 1 # m + 1
        BY <3>2
      <4>2. h[n] = g[n] /\ (n # 0 => h[n - 1] = g[n - 1])
        BY <3>2, <4>1
      <4>3. g[n] = IF n = 0 THEN First ELSE Following(g[n - 1])
        BY <2>1, <4>1
      <4> HIDE DEF h
      <4> QED
        BY <4>2, <4>3
    <3> QED
      BY <3>1, <3>2
  <2>3. h = [n \in 0..m + 1 |-> h[n]]
    OBVIOUS
  <2> HIDE DEF h
  <2>4. h = [n \in 0..m + 1 |-> IF n = 0 THEN First ELSE Following(h[n - 1])]
    BY <2>2, <2>3, Zenon
  <2> QED
    BY <2>4
<1>3. N \in S
  <2> HIDE DEF S
  <2>1. \A m \in Nat : m \in S => m + 1 \in S
    BY <1>2
  <2>2. \A m \in Nat : m \in S
    BY <1>1, <2>1, Induction
  <2> QED
    BY <1>0, <2>2
<1> DEFINE l == CHOOSE g : g = E(g)
<1>4. l = E(l)
  <2>1. PICK g : g = E(g)
    BY <1>3
  <2> HIDE DEF E
  <2> QED
    BY <2>1
<1>5. l[0] = First
  <2>1. 0 \in 0..N
    BY <1>0
  <2> QED
    BY <1>4, <2>1
<1>6. ASSUME NEW i \in 1..N
      PROVE  l[i] = Following(l[i - 1])
  <2>1. i \in 0..N /\ i # 0
    BY <1>0
  <2> QED
    BY <1>4, <2>1
<1>7. ReadChildren(data, o, payloads) = [value |-> l[N].value, offset |-> l[N].offset]
  BY DEF ReadChildren, First, Following, N, NextChild
<1> HIDE DEF l
<1> QED
  BY <1>5, <1>6, <1>7 DEF First, Following, N, Rounds

\* The tags of a Compound.
ChildrenOK(children) ==
  /\ children \in [DOMAIN children -> Range(children)]
  /\ DOMAIN children \subseteq Range(Order)
  /\ \A n \in DOMAIN children : TagOK(children[n]) /\ children[n].name = n

\* They are written as bytes, one after the other.
LEMMA ChildrenType ==
  ASSUME NEW children, ChildrenOK(children), NEW written,
         \A n \in DOMAIN children : written[children[n]] \in Seq(Byte)
  PROVE  LET ss == [i \in 1..Len(Order) |->
                      IF Order[i] \in DOMAIN children
                        THEN Header(children[Order[i]])
                               \o written[children[Order[i]]]
                        ELSE <<>>]
         IN  /\ Len(Order) \in Nat
             /\ ss \in Seq(Seq(Byte)) /\ Len(ss) = Len(Order)
             /\ WriteChildren(children, written) = FlattenSeq(ss)
             /\ WriteChildren(children, written) \in Seq(Byte)
<1> DEFINE N == Len(Order)
           S(i) == IF Order[i] \in DOMAIN children
                     THEN Header(children[Order[i]]) \o written[children[Order[i]]]
                     ELSE <<>>
           ss == [i \in 1..N |-> S(i)]
<1>1. N \in Nat
  BY NBTAssumption, LenProperties
<1>2. ASSUME NEW i \in 1..N
      PROVE  S(i) \in Seq(Byte)
  <2>1. CASE Order[i] \in DOMAIN children
    <3> DEFINE c == children[Order[i]]
    <3>1. TagOK(c) /\ written[c] \in Seq(Byte)
      BY <2>1 DEF ChildrenOK
    <3> HIDE DEF c
    <3>2. Header(c) \in Seq(Byte)
      BY <3>1, HeaderType
    <3>3. Header(c) \o written[c] \in Seq(Byte)
      BY <3>1, <3>2, Joined
    <3> QED
      BY <2>1, <3>3 DEF c
  <2>2. CASE Order[i] \notin DOMAIN children
    BY <2>2
  <2> QED
    BY <2>1, <2>2
<1>3. WriteChildren(children, written) = FlattenSeq(ss)
  BY DEF WriteChildren
<1> HIDE DEF S
<1>4. ss \in Seq(Seq(Byte)) /\ Len(ss) = N
  BY <1>1, <1>2
<1> HIDE DEF ss
<1>5. FlattenSeq(ss) \in Seq(Byte)
  BY <1>4, FlattenType
<1> QED
  BY <1>1, <1>3, <1>4, <1>5 DEF ss, S

\* The tags of a Compound are read up to its End tag as they were written.
LEMMA ChildrenReadBack ==
  ASSUME NEW data \in Seq(Byte), NEW o \in Nat, NEW children,
         ChildrenOK(children), NEW written, NEW payloads,
         \A n \in DOMAIN children :
           ReadBack(data, payloads, written, children[n]),
         Holds(data, o, WriteChildren(children, written) \o <<TypeId("End")>>)
  PROVE  ReadChildren(data, o, payloads) =
           [value |-> children,
            offset |-> o + Len(WriteChildren(children, written)
                                 \o <<TypeId("End")>>)]
<1> DEFINE N == Len(Order)
           D == DOMAIN children
           S(i) == IF Order[i] \in DOMAIN children
                     THEN Header(children[Order[i]]) \o written[children[Order[i]]]
                     ELSE <<>>
           ss == [i \in 1..N |-> S(i)]
           b == WriteChildren(children, written)
           e == <<TypeId("End")>>
<1>1. \A n \in DOMAIN children : written[children[n]] \in Seq(Byte)
  BY DEF ReadBack
<1>2. /\ N \in Nat /\ ss \in Seq(Seq(Byte)) /\ Len(ss) = N
      /\ b = FlattenSeq(ss) /\ b \in Seq(Byte)
  BY <1>1, ChildrenType
<1>3. \A i \in 1..N : ss[i] = S(i) /\ ss[i] \in Seq(Byte)
  BY <1>2, ElementOfSeq
<1> HIDE DEF S
<1>4. PICK f :
           /\ f[0] = [value |-> <<>>, offset |-> o, ended |-> FALSE]
           /\ \A i \in 1..N + 1 : f[i] = NextChild(data, payloads, f[i - 1])
           /\ ReadChildren(data, o, payloads) =
                [value |-> f[N + 1].value, offset |-> f[N + 1].offset]
  <2>1. PICK f : Rounds(f, data, o, payloads)
    BY RoundsDef
  <2> QED
    BY <2>1 DEF Rounds
<1> HIDE DEF ss, N
<1>5. PICK at \in [0..N -> Nat] :
           /\ at[0] = 0 /\ at[N] = Len(b)
           /\ \A i \in 1..N : /\ at[i] = at[i - 1] + Len(ss[i])
                              /\ Holds(b, at[i - 1], ss[i])
  <2>1. \E at \in [0..Len(ss) -> Nat] :
           /\ at[0] = 0 /\ at[Len(ss)] = Len(FlattenSeq(ss))
           /\ \A i \in 1..Len(ss) :
                /\ at[i] = at[i - 1] + Len(ss[i])
                /\ Holds(FlattenSeq(ss), at[i - 1], ss[i])
    BY <1>2, FlattenHolds
  <2> QED
    BY <1>2, <2>1
<1>6. e \in Seq(Byte) /\ Len(e) = 1 /\ "End" \in Types
  <2>1. "End" \in Types
    <3>1. 1 \in DOMAIN TagTypes /\ TagTypes[1] = "End"
      BY DEF TagTypes
    <3> QED
      BY <3>1 DEF Types, Range
  <2>2. TypeId("End") \in Byte
    BY <2>1, TypeIds
  <2> QED
    BY <2>1, <2>2
<1>7. /\ Holds(data, o, b) /\ Holds(data, o + Len(b), e)
      /\ Len(b \o e) = Len(b) + 1 /\ Len(b) \in Nat
  <2>1. Holds(data, o, b \o e)
    OBVIOUS
  <2>2. b \in Seq(Byte) /\ e \in Seq(Byte)
    BY <1>2, <1>6
  <2> HIDE DEF b, e
  <2>3. /\ Holds(data, o, b) /\ Holds(data, o + Len(b), e)
        /\ Len(b \o e) = Len(b) + Len(e) /\ Len(b) \in Nat
    BY <2>1, <2>2, HoldsParts
  <2> QED
    BY <1>6, <2>3
<1> HIDE DEF b
<1> DEFINE Part(i) == {Order[k] : k \in 1..i} \cap D
           Chosen(i) == [n \in Part(i) |-> children[n]]
           P(i) == \E j \in 0..i :
                     f[j] = [value |-> Chosen(i), offset |-> o + at[i],
                             ended |-> FALSE]
           Q == {i \in Nat : i <= N => P(i)}
<1>8. 0 \in Q
  <2>1. Part(0) = {}
    OBVIOUS
  <2>2. Chosen(0) = <<>>
    <3> HIDE DEF Part
    <3> QED
      BY <2>1
  <2> HIDE DEF Chosen
  <2>3. f[0] = [value |-> Chosen(0), offset |-> o + at[0], ended |-> FALSE]
    <3>1. o + at[0] = o
      BY <1>5
    <3> HIDE DEF P, Q
    <3> QED
      BY <1>4, <2>2, <3>1
  <2>4. 0 \in 0..0
    OBVIOUS
  <2>5. P(0)
    BY <2>3, <2>4
  <2> HIDE DEF P
  <2> QED
    BY <2>5
<1>9. ASSUME NEW m \in Nat, m \in Q
      PROVE  m + 1 \in Q
  <2> DEFINE i == m + 1
             n == Order[i]
  <2> HIDE DEF P
  <2> SUFFICES ASSUME i <= N
               PROVE  P(i)
    OBVIOUS
  <2> USE DEF P
  <2>1. i \in 1..N /\ i - 1 = m /\ m <= N /\ m \in 0..N /\ i \in 0..N
    BY <1>2
  <2>2. PICK j \in 0..m :
          f[j] = [value |-> Chosen(m), offset |-> o + at[m], ended |-> FALSE]
    BY <1>9, <2>1
  <2>3. Part(i) = Part(m) \cup ({n} \cap D)
    <3>1. \A k : k \in 1..i <=> k \in 1..m \/ k = i
      OBVIOUS
    <3> QED
      BY <3>1
  <2>4. at[m] \in Nat /\ at[i] = at[m] + Len(ss[i]) /\ Holds(b, at[m], ss[i])
    BY <1>5, <2>1
  <2>5. ss[i] = S(i) /\ ss[i] \in Seq(Byte)
    BY <1>3, <2>1
  <2> HIDE DEF i
  <2>6. CASE n \notin D
    <3>1. ss[i] = <<>>
      BY <2>5, <2>6 DEF S
    <3>2. at[i] = at[m]
      BY <2>4, <3>1
    <3>3. Part(i) = Part(m)
      BY <2>3, <2>6
    <3>4. Chosen(i) = Chosen(m)
      BY <3>3
    <3>5. j \in 0..i
      BY <2>1, <2>2
    <3> QED
      BY <2>2, <3>2, <3>4, <3>5
  <2>7. CASE n \in D
    <3> DEFINE c == children[n]
               q == o + at[m]
               p == q + Len(Header(c))
    <3>1. /\ TagOK(c) /\ c.name = n /\ ReadBack(data, payloads, written, c)
          /\ written[c] \in Seq(Byte)
      BY <1>1, <2>7 DEF ChildrenOK
    <3>2. ss[i] = Header(c) \o written[c]
      BY <2>5, <2>7 DEF S
    <3>3. Holds(data, q, ss[i]) /\ q \in Nat
      <4>1. Holds(data, o + at[m], ss[i])
        BY <1>2, <1>7, <2>4, <2>5, HoldsInside
      <4> QED
        BY <2>4, <4>1
    <3> HIDE DEF c, q
    <3>4. /\ Holds(data, q, Header(c)) /\ Holds(data, p, written[c]) /\ p \in Nat
      <4>1. Header(c) \in Seq(Byte)
        BY <3>1, HeaderType
      <4>2. Holds(data, q, Header(c) \o written[c])
        BY <3>2, <3>3
      <4>3. /\ Holds(data, q, Header(c)) /\ Holds(data, p, written[c])
        BY <3>1, <4>1, <4>2, HoldsParts
      <4> QED
        BY <4>3 DEF Holds
    <3>5. payloads[<<c.type, p>>] =
            [value |-> c.payload, offset |-> p + Len(written[c])]
      BY <3>1, <3>4 DEF ReadBack
    <3>6. TagAt(data, q, payloads) =
            [value |-> c, offset |-> q + Len(Header(c) \o written[c])]
      <4>1. Holds(data, q, Header(c) \o written[c])
        BY <3>2, <3>3
      <4>2. TagOK(c) /\ written[c] \in Seq(Byte) /\ q \in Nat
        BY <3>1, <3>3
      <4> DEFINE body == written[c]
      <4>3. p = q + Len(Header(c)) /\ p \in Nat /\ PayloadIs(payloads, c, p, body)
        BY <3>4, <3>5 DEF PayloadIs
      <4>4. Holds(data, q, Header(c) \o body) /\ body \in Seq(Byte)
        BY <4>1, <4>2
      <4> HIDE DEF body, p
      <4>5. TagAt(data, q, payloads) =
              [value |-> c, offset |-> q + Len(Header(c) \o body)]
        BY <4>2, <4>3, <4>4, TagAtReadBack
      <4> QED
        BY <4>5 DEF body
    <3>7. q + Len(Header(c) \o written[c]) = o + at[i]
      <4>1. Len(ss[i]) \in Nat
        BY <2>5, LenProperties
      <4> QED
        BY <2>4, <3>2, <4>1 DEF q
    <3>8. c.type # "End"
      BY <3>1 DEF TagOK
    <3>9. f[j + 1] = [value |-> With(Chosen(m), c), offset |-> o + at[i],
                      ended |-> FALSE]
      <4>1. f[j + 1] = NextChild(data, payloads, f[j])
        <5>1. j + 1 \in 1..N + 1 /\ (j + 1) - 1 = j
          BY <1>2, <2>1
        <5> QED
          BY <1>4, <5>1
      <4>2. f[j].offset = q /\ f[j].ended = FALSE /\ f[j].value = Chosen(m)
        <5> HIDE DEF Chosen
        <5> QED
          BY <2>2 DEF q
      <4> DEFINE child == TagAt(data, f[j].offset, payloads)
      <4>3. child.value = c /\ child.offset = o + at[i]
        BY <3>6, <3>7, <4>2
      <4>4. NextChild(data, payloads, f[j]) =
              IF f[j].ended
                THEN f[j]
              ELSE IF child.value.type = "End"
                THEN [value |-> f[j].value, offset |-> child.offset, ended |-> TRUE]
              ELSE [value |-> With(f[j].value, child.value),
                    offset |-> child.offset, ended |-> FALSE]
        BY DEF NextChild
      <4> HIDE DEF Chosen, child
      <4>5. ~f[j].ended /\ child.value.type # "End"
        BY <3>8, <4>2, <4>3
      <4> QED
        BY <4>1, <4>2, <4>3, <4>4, <4>5
    <3>10. With(Chosen(m), c) = Chosen(i)
      <4>1. With(Chosen(m), c) =
              [x \in {n} \cup Part(m) |-> IF x = n THEN c ELSE children[x]]
        BY <3>1 DEF With
      <4>2. Part(i) = {n} \cup Part(m)
        BY <2>3, <2>7
      <4> HIDE DEF Part
      <4>3. Chosen(i) = [x \in {n} \cup Part(m) |-> children[x]]
        BY <4>2
      <4> QED
        BY <4>1, <4>3 DEF c
    <3>11. j + 1 \in 0..i
      BY <2>1, <2>2
    <3> HIDE DEF Chosen
    <3> QED
      BY <3>9, <3>10, <3>11
  <2> QED
    BY <2>6, <2>7
<1>10. P(N)
  <2> HIDE DEF P
  <2>0. \A m \in Nat : m \in Q => m + 1 \in Q
    BY <1>9
  <2>1. \A m \in Nat : m \in Q
    <3> HIDE DEF Q
    <3> QED
      BY <1>8, <2>0, Induction
  <2> QED
    BY <1>2, <2>1
<1>11. Chosen(N) = children
  <2>1. Part(N) = D
    <3>1. \A n \in D : \E k \in 1..N : Order[k] = n
      <4>1. Range(Order) = {Order[k] : k \in 1..N}
        BY NBTAssumption DEF Range, N
      <4> QED
        BY <4>1 DEF ChildrenOK
    <3> QED
      BY <3>1
  <2>2. children = [n \in D |-> children[n]]
    BY DEF ChildrenOK
  <2> HIDE DEF Part, D
  <2> QED
    BY <2>1, <2>2
<1>12. PICK j \in 0..N :
         f[j] = [value |-> children, offset |-> o + Len(b), ended |-> FALSE]
  <2> HIDE DEF Chosen
  <2> QED
    BY <1>5, <1>10, <1>11
<1> HIDE DEF P, Q, Chosen, Part
<1> DEFINE last == [value |-> children, offset |-> o + Len(b) + 1, ended |-> TRUE]
<1>13. f[j + 1] = last
  <2> DEFINE q == o + Len(b)
  <2>1. f[j + 1] = NextChild(data, payloads, f[j])
    <3>1. j + 1 \in 1..N + 1 /\ (j + 1) - 1 = j
      BY <1>2
    <3> QED
      BY <1>4, <3>1
  <2>2. TypeOf(data[q + 1]) = "End"
    <3>1. data[q + 1] = e[1]
      <4>1. 1 \in 1..Len(e)
        BY <1>6
      <4> QED
        BY <1>7, <4>1 DEF Holds
    <3> QED
      BY <1>6, <3>1, TypeIds
  <2>3. TagAt(data, q, payloads) = [value |-> EndTag, offset |-> q + 1]
    BY <2>2 DEF TagAt
  <2>4. EndTag.type = "End"
    BY DEF EndTag, MakeTag
  <2> HIDE DEF q
  <2>5. f[j] = [value |-> children, offset |-> q, ended |-> FALSE]
    BY <1>12 DEF q
  <2> DEFINE child == TagAt(data, f[j].offset, payloads)
  <2>6. child.value = EndTag /\ child.offset = q + 1
    BY <2>3, <2>5
  <2>7. NextChild(data, payloads, f[j]) =
          IF f[j].ended
            THEN f[j]
          ELSE IF child.value.type = "End"
            THEN [value |-> f[j].value, offset |-> child.offset, ended |-> TRUE]
          ELSE [value |-> With(f[j].value, child.value),
                offset |-> child.offset, ended |-> FALSE]
    BY DEF NextChild
  <2> HIDE DEF child
  <2>8. ~f[j].ended /\ child.value.type = "End"
    BY <2>4, <2>5, <2>6
  <2>9. f[j + 1] = [value |-> children, offset |-> q + 1, ended |-> TRUE]
    BY <2>1, <2>5, <2>6, <2>7, <2>8
  <2> QED
    BY <2>9 DEF q
<1> DEFINE R == {m \in Nat : (j + 1) + m <= N + 1 => f[(j + 1) + m] = last}
<1>14. 0 \in R
  BY <1>13
<1>15. ASSUME NEW m \in Nat, m \in R
       PROVE  m + 1 \in R
  <2> DEFINE i == (j + 1) + (m + 1)
  <2> SUFFICES ASSUME i <= N + 1
               PROVE  f[i] = last
    OBVIOUS
  <2>1. i \in 1..N + 1 /\ i - 1 = (j + 1) + m /\ (j + 1) + m <= N + 1
    BY <1>2
  <2>2. f[i] = NextChild(data, payloads, f[i - 1]) /\ f[i - 1] = last
    BY <1>4, <1>15, <2>1
  <2>3. last.ended = TRUE
    OBVIOUS
  <2> HIDE DEF i, last
  <2> QED
    BY <2>2, <2>3 DEF NextChild
<1>16. f[N + 1] = last
  <2>0. \A m \in Nat : m \in R => m + 1 \in R
    BY <1>15
  <2>1. \A m \in Nat : m \in R
    <3> HIDE DEF R
    <3> QED
      BY <1>14, <2>0, Induction
  <2>2. N - j \in Nat /\ (j + 1) + (N - j) = N + 1
    BY <1>2
  <2>3. N - j \in R
    BY <2>1, <2>2
  <2> HIDE DEF last
  <2> QED
    BY <1>2, <2>2, <2>3
<1>17. o + Len(b) + 1 = o + Len(b \o e)
  BY <1>7
<1>18. ReadChildren(data, o, payloads) =
         [value |-> last.value, offset |-> last.offset]
  <2> HIDE DEF last
  <2> QED
    BY <1>4, <1>16
<1> QED
  BY <1>17, <1>18 DEF b, e

-----------------------------------------------------------------------------
(* What a tag holds, of every type.                                        *)

\* The types by their names.
LEMMA TypesAre ==
  Types = {"End", "Byte", "Short", "Int", "Long", "Float", "Double",
           "ByteArray", "String", "List", "Compound", "IntArray"}
<1>1. /\ DOMAIN TagTypes = 1..12
      /\ TagTypes[1] = "End" /\ TagTypes[2] = "Byte" /\ TagTypes[3] = "Short"
      /\ TagTypes[4] = "Int" /\ TagTypes[5] = "Long" /\ TagTypes[6] = "Float"
      /\ TagTypes[7] = "Double" /\ TagTypes[8] = "ByteArray"
      /\ TagTypes[9] = "String" /\ TagTypes[10] = "List"
      /\ TagTypes[11] = "Compound" /\ TagTypes[12] = "IntArray"
  BY DEF TagTypes
<1>2. \A i : i \in 1..12 <=> i \in {1, 2, 3, 4, 5, 6, 7, 8, 9, 10, 11, 12}
  OBVIOUS
<1>3. Types = {TagTypes[i] : i \in {1, 2, 3, 4, 5, 6, 7, 8, 9, 10, 11, 12}}
  BY <1>1, <1>2 DEF Types, Range
<1> QED
  BY <1>1, <1>3

\* The number of a length.
LEMMA LengthType ==
  ASSUME NEW n \in Nat, n \in SignedOf(WordBytes)
  PROVE  /\ WriteInt32(n) \in Seq(Byte)
         /\ Len(WriteInt32(n)) = WordBytes /\ WordBytes \in Nat
         /\ \A data, o :
              o \in Nat /\ Holds(data, o, WriteInt32(n)) =>
                ReadInt32(data, o) = [value |-> n, offset |-> o + WordBytes]
<1>1. n \in Int /\ WordBytes \in Nat /\ WordBytes \in Nat \ {0}
  BY WordBytesType
<1>2. Put(n, WordBytes) \in Seq(Byte) /\ Len(Put(n, WordBytes)) = WordBytes
  BY <1>1, PutType
<1>3. ASSUME NEW data, NEW o \in Nat, Holds(data, o, WriteInt32(n))
      PROVE  ReadInt32(data, o) = [value |-> n, offset |-> o + WordBytes]
  <2>1. Holds(data, o, Put(n, WordBytes))
    BY <1>3 DEF WriteInt32
  <2>2. GetSigned(data, o, WordBytes) =
          [value |-> n, offset |-> o + Len(Put(n, WordBytes))]
    BY <1>1, <2>1, SignedField
  <2> QED
    BY <1>2, <2>2 DEF ReadInt32
<1> QED
  BY <1>1, <1>2, <1>3 DEF WriteInt32

\* A list as bytes: the type of its items, their number, the items.
LEMMA ListType ==
  ASSUME NEW t, Sound(t), t.type = "List", NEW written,
         \A c \in Inner(t) : written[c] \in Seq(Byte)
  PROVE  LET items == t.payload
             a == <<TypeId(ElementType(items))>>
             w == WriteInt32(Len(items))
             b == WriteItems(items, written)
         IN  /\ Content(t, written) = (a \o w) \o b
             /\ Content(t, written) \in Seq(Byte)
             /\ items \in Seq(Range(items)) /\ Len(items) \in Nat
             /\ Len(items) \in SignedOf(WordBytes)
             /\ ElementType(items) \in Types
             /\ a \in Seq(Byte) /\ Len(a) = 1 /\ w \in Seq(Byte)
             /\ a \o w \in Seq(Byte) /\ b \in Seq(Byte)
<1> DEFINE items == t.payload
           a == <<TypeId(ElementType(items))>>
           w == WriteInt32(Len(items))
           b == WriteItems(items, written)
<1>1. /\ items \in Seq(Range(items)) /\ Len(items) \in SignedOf(WordBytes)
      /\ \A c \in Range(items) : TagOK(c) /\ c.type = ElementType(items)
      /\ Inner(t) = Range(items)
  BY DEF Sound, Inner
<1>2. Len(items) \in Nat
  BY <1>1, LenProperties
<1>3. ElementType(items) \in Types
  <2>1. CASE items = <<>>
    BY <2>1, TypesAre DEF ElementType
  <2>2. CASE items # <<>>
    <3>1. Len(items) # 0
      BY <1>1, <2>2, EmptySeq
    <3>2. 1 \in 1..Len(items)
      BY <1>2, <3>1
    <3>3. items[1] \in Range(items)
      BY <1>1, <3>2, ElementOfSeq
    <3> QED
      BY <1>1, <3>3 DEF TagOK
  <2> QED
    BY <2>1, <2>2
<1>4. a \in Seq(Byte) /\ Len(a) = 1
  <2>1. TypeId(ElementType(items)) \in Byte
    BY <1>3, TypeIds
  <2> QED
    BY <2>1
<1>5. w \in Seq(Byte)
  BY <1>1, <1>2, LengthType
<1>6. b \in Seq(Byte)
  <2>1. \A c \in Range(items) : written[c] \in Seq(Byte)
    BY <1>1
  <2> HIDE DEF items
  <2> QED
    BY <1>1, <2>1, ItemsType
<1>7. Content(t, written) = (a \o w) \o b
  BY DEF Content
<1> HIDE DEF a, w, b
<1> DEFINE h == a \o w
<1>8. h \in Seq(Byte)
  BY <1>4, <1>5, Joined
<1> HIDE DEF h
<1>9. h \o b \in Seq(Byte)
  BY <1>6, <1>8, Joined
<1> QED
  BY <1>1, <1>2, <1>3, <1>4, <1>5, <1>6, <1>7, <1>8, <1>9 DEF a, w, b, h

\* A list is read back.
LEMMA ListReadBack ==
  ASSUME NEW data \in Seq(Byte), NEW o \in Nat, NEW t, Sound(t),
         t.type = "List", NEW written, NEW payloads,
         \A c \in Inner(t) : ReadBack(data, payloads, written, c),
         Holds(data, o, Content(t, written))
  PROVE  PayloadAt("List", data, o, payloads) =
           [value |-> t.payload, offset |-> o + Len(Content(t, written))]
<1> DEFINE items == t.payload
           type == ElementType(items)
           a == <<TypeId(type)>>
           w == WriteInt32(Len(items))
           b == WriteItems(items, written)
           h == a \o w
           p == (o + 1) + WordBytes
           n == Len(items)
<1>1. \A c \in Inner(t) : written[c] \in Seq(Byte)
  BY DEF ReadBack
<1>2. /\ Content(t, written) = h \o b
      /\ items \in Seq(Range(items)) /\ n \in Nat /\ n \in SignedOf(WordBytes)
      /\ type \in Types
      /\ a \in Seq(Byte) /\ Len(a) = 1 /\ w \in Seq(Byte)
      /\ h \in Seq(Byte) /\ b \in Seq(Byte)
  BY <1>1, ListType
<1>3. /\ w = WriteInt32(n) /\ Len(w) = WordBytes /\ WordBytes \in Nat
      /\ \A q : q \in Nat /\ Holds(data, q, w) =>
           ReadInt32(data, q) = [value |-> n, offset |-> q + WordBytes]
  BY <1>2, LengthType
<1>4. /\ b = WriteItems(items, written) /\ a[1] = TypeId(type)
      /\ \A c \in Range(items) : /\ c = MakeTag(type, <<>>, c.payload)
                                 /\ ReadBack(data, payloads, written, c)
  <2>1. Inner(t) = Range(items)
    BY DEF Inner
  <2>2. \A c \in Range(items) : TagOK(c) /\ c.type = type /\ c.name = <<>>
    BY DEF Sound
  <2> HIDE DEF items, type
  <2>3. \A c \in Range(items) : c = MakeTag(type, <<>>, c.payload)
    BY <2>2 DEF TagOK
  <2> QED
    BY <2>1, <2>3 DEF a, b
<1> HIDE DEF a, w, b, n, type, items
<1>5. /\ Holds(data, o, h) /\ Holds(data, o + Len(h), b)
      /\ Len(h \o b) = Len(h) + Len(b) /\ Len(b) \in Nat
  <2>1. Holds(data, o, h \o b)
    BY <1>2
  <2>2. h \in Seq(Byte) /\ b \in Seq(Byte)
    BY <1>2
  <2> HIDE DEF h
  <2> QED
    BY <2>1, <2>2, HoldsParts
<1>6. Holds(data, o, a) /\ Holds(data, o + 1, w) /\ Len(h) = 1 + WordBytes
  <2>1. a \in Seq(Byte) /\ w \in Seq(Byte) /\ Holds(data, o, a \o w)
    BY <1>2, <1>5
  <2>2. /\ Holds(data, o, a) /\ Holds(data, o + Len(a), w)
        /\ Len(a \o w) = Len(a) + Len(w)
    BY <2>1, HoldsParts
  <2> QED
    BY <1>2, <1>3, <2>2
<1> HIDE DEF h
<1>7. TypeOf(data[o + 1]) = type
  <2>1. data[o + 1] = a[1]
    <3>1. 1 \in 1..Len(a)
      BY <1>2
    <3> QED
      BY <1>6, <3>1 DEF Holds
  <2> QED
    BY <1>2, <1>4, <2>1, TypeIds
<1>8. ReadInt32(data, o + 1) = [value |-> n, offset |-> p]
  <2>1. o + 1 \in Nat
    OBVIOUS
  <2> QED
    BY <1>3, <1>6, <2>1
<1>9. p \in Nat /\ p = o + Len(h) /\ p + Len(b) = o + Len(h \o b)
  BY <1>3, <1>5, <1>6
<1>10. ReadItems(type, n, p, payloads) = [value |-> items, offset |-> p + Len(b)]
  <2>1. Holds(data, p, b)
    BY <1>5, <1>9
  <2>2. p \in Nat /\ items \in Seq(Range(items))
    BY <1>2, <1>9
  <2> HIDE DEF p
  <2>3. Holds(data, p, WriteItems(items, written))
    BY <1>4, <2>1
  <2>4. ReadItems(type, Len(items), p, payloads) =
          [value |-> items, offset |-> p + Len(WriteItems(items, written))]
    BY <1>4, <2>2, <2>3, ItemsReadBack, SMTT(20)
  <2> QED
    BY <1>4, <2>4 DEF n
<1> HIDE DEF p
<1>11. PayloadAt("List", data, o, payloads) = ReadItems(type, n, p, payloads)
  BY <1>7, <1>8 DEF PayloadAt
<1> QED
  BY <1>2, <1>9, <1>10, <1>11 DEF items

\* An array as bytes, its length before it.
LEMMA ArrayType ==
  ASSUME NEW w \in Nat \ {0}, NEW numbers \in Seq(SignedOf(w)),
         Len(numbers) \in SignedOf(WordBytes)
  PROVE  WriteInt32(Len(numbers)) \o Bytes(numbers, w) \in Seq(Byte)
<1>1. Len(numbers) \in Nat
  BY LenProperties
<1>2. WriteInt32(Len(numbers)) \in Seq(Byte)
  BY <1>1, LengthType
<1>3. Bytes(numbers, w) \in Seq(Byte)
  BY BytesHold
<1> QED
  BY <1>2, <1>3, Joined

\* What a tag holds is written as bytes, if what is inside it is.
LEMMA ContentType ==
  ASSUME NEW t, Sound(t), NEW written,
         \A c \in Inner(t) : written[c] \in Seq(Byte)
  PROVE  Content(t, written) \in Seq(Byte)
<1> DEFINE v == t.payload
<1>1. WordBytes \in Nat /\ 2 * WordBytes \in Nat /\ 1 \in Nat /\ 2 \in Nat
  BY WordBytesType
<1>2. t.type \in Types \ {"End"}
  BY DEF Sound, TagOK
<1>3. t.type \notin {"List", "Compound"} => v \in LeafValues(t.type)
  BY DEF Sound
<1>4. CASE t.type = "Byte"
  <2>1. v \in SignedOf(1)
    BY <1>3, <1>4 DEF LeafValues
  <2>2. v \in Int
    BY <2>1, CastBack, WordBytesType
  <2>3. Put(v, 1) \in Seq(Byte)
    BY <1>1, <2>2, PutType
  <2> QED
    BY <1>4, <2>3 DEF Content, WriteInt8
<1>5. CASE t.type = "Short"
  <2>1. v \in SignedOf(2)
    BY <1>3, <1>5 DEF LeafValues
  <2>2. v \in Int
    BY <2>1, CastBack, WordBytesType
  <2>3. Put(v, 2) \in Seq(Byte)
    BY <1>1, <2>2, PutType
  <2> QED
    BY <1>5, <2>3 DEF Content, WriteInt16
<1>6. CASE t.type = "Int"
  <2>1. v \in SignedOf(WordBytes)
    BY <1>3, <1>6 DEF LeafValues
  <2>2. v \in Int
    BY <2>1, CastBack, WordBytesType
  <2>3. Put(v, WordBytes) \in Seq(Byte)
    BY <1>1, <2>2, PutType
  <2> QED
    BY <1>6, <2>3 DEF Content, WriteInt32
<1>7. CASE t.type = "Long"
  <2>1. v \in SignedOf(2 * WordBytes)
    BY <1>3, <1>7 DEF LeafValues
  <2>2. v \in Int
    BY <2>1, CastBack, WordBytesType
  <2>3. Put(v, 2 * WordBytes) \in Seq(Byte)
    BY <1>1, <2>2, PutType
  <2> QED
    BY <1>7, <2>3 DEF Content, WriteInt64
<1>8. CASE t.type = "Float"
  <2>1. v \in UnsignedOf(WordBytes)
    BY <1>3, <1>8 DEF LeafValues
  <2>2. Cast(v, WordBytes) \in Int
    BY <2>1, CastBack, WordBytesType
  <2>3. Put(Cast(v, WordBytes), WordBytes) \in Seq(Byte)
    BY <1>1, <2>2, PutType
  <2> QED
    BY <1>8, <2>3 DEF Content, WriteFloat, WriteInt32
<1>9. CASE t.type = "Double"
  <2>1. v \in UnsignedOf(2 * WordBytes)
    BY <1>3, <1>9 DEF LeafValues
  <2>2. Cast(v, 2 * WordBytes) \in Int
    BY <2>1, CastBack, WordBytesType
  <2>3. Put(Cast(v, 2 * WordBytes), 2 * WordBytes) \in Seq(Byte)
    BY <1>1, <2>2, PutType
  <2> QED
    BY <1>9, <2>3 DEF Content, WriteDouble, WriteInt64
<1>10. CASE t.type = "ByteArray"
  <2>1. v \in Seq(SignedOf(1)) /\ Len(v) \in SignedOf(WordBytes)
    BY <1>3, <1>10 DEF LeafValues
  <2>2. WriteInt32(Len(v)) \o Bytes(v, 1) \in Seq(Byte)
    BY <2>1, ArrayType, WordBytesType
  <2> QED
    BY <1>10, <2>2 DEF Content
<1>11. CASE t.type = "IntArray"
  <2>1. v \in Seq(SignedOf(WordBytes)) /\ Len(v) \in SignedOf(WordBytes)
    BY <1>3, <1>11 DEF LeafValues
  <2>2. WriteInt32(Len(v)) \o Bytes(v, WordBytes) \in Seq(Byte)
    BY <2>1, ArrayType, WordBytesType
  <2> QED
    BY <1>11, <2>2 DEF Content
<1>12. CASE t.type = "String"
  <2>1. v \in Names
    BY <1>3, <1>12 DEF LeafValues
  <2>2. WriteInt16(Len(v)) \in Seq(Byte) /\ v \in Seq(Byte)
    BY <2>1, NameType
  <2>3. WriteInt16(Len(v)) \o v \in Seq(Byte)
    BY <2>2, Joined
  <2> QED
    BY <1>12, <2>3 DEF Content
<1>13. CASE t.type = "List"
  BY <1>13, ListType
<1>14. CASE t.type = "Compound"
  <2> DEFINE b == WriteChildren(v, written)
             e == <<TypeId("End")>>
  <2>1. ChildrenOK(v) /\ \A n \in DOMAIN v : written[v[n]] \in Seq(Byte)
    BY <1>14 DEF Sound, ChildrenOK, Inner, Range
  <2>2. b \in Seq(Byte) /\ e \in Seq(Byte)
    <3>1. TypeId("End") \in Byte
      BY TypesAre, TypeIds
    <3> HIDE DEF v
    <3>2. WriteChildren(v, written) \in Seq(Byte)
      BY <2>1, ChildrenType
    <3> QED
      BY <3>1, <3>2
  <2>3. b \o e \in Seq(Byte)
    <3> HIDE DEF b, e
    <3> QED
      BY <2>2, Joined
  <2> QED
    BY <1>14, <2>3 DEF Content
<1> QED
  BY <1>2, <1>4, <1>5, <1>6, <1>7, <1>8, <1>9, <1>10, <1>11, <1>12, <1>13, <1>14, TypesAre

\* What a tag holds is read back to its last byte, if what is inside it is.
LEMMA ContentReadBack ==
  ASSUME NEW data \in Seq(Byte), NEW o \in Nat, NEW t, Sound(t),
         NEW written, NEW payloads,
         \A c \in Inner(t) : ReadBack(data, payloads, written, c),
         Holds(data, o, Content(t, written))
  PROVE  PayloadAt(t.type, data, o, payloads) =
           [value |-> t.payload, offset |-> o + Len(Content(t, written))]
<1> DEFINE v == t.payload
           b == Content(t, written)
<1>1. t.type \in Types \ {"End"}
  BY DEF Sound, TagOK
<1>2. t.type \notin {"List", "Compound"} => v \in LeafValues(t.type)
  BY DEF Sound
<1>3. Holds(data, o, b)
  OBVIOUS
<1>4. CASE t.type = "Byte"
  <2>1. v \in SignedOf(1)
    BY <1>2, <1>4 DEF LeafValues
  <2>2. b = Put(v, 1)
    BY <1>4 DEF Content, WriteInt8
  <2>3. PayloadAt(t.type, data, o, payloads) = GetSigned(data, o, 1)
    BY <1>4 DEF PayloadAt
  <2> HIDE DEF b
  <2>4. GetSigned(data, o, 1) = [value |-> v, offset |-> o + Len(Put(v, 1))]
    BY <1>3, <2>1, <2>2, SignedField, WordBytesType
  <2> QED
    BY <2>2, <2>3, <2>4 DEF b
<1>5. CASE t.type = "Short"
  <2>1. v \in SignedOf(2)
    BY <1>2, <1>5 DEF LeafValues
  <2>2. b = Put(v, 2)
    BY <1>5 DEF Content, WriteInt16
  <2>3. PayloadAt(t.type, data, o, payloads) = GetSigned(data, o, 2)
    BY <1>5 DEF PayloadAt
  <2> HIDE DEF b
  <2>4. GetSigned(data, o, 2) = [value |-> v, offset |-> o + Len(Put(v, 2))]
    BY <1>3, <2>1, <2>2, SignedField, WordBytesType
  <2> QED
    BY <2>2, <2>3, <2>4 DEF b
<1>6. CASE t.type = "Int"
  <2>1. v \in SignedOf(WordBytes)
    BY <1>2, <1>6 DEF LeafValues
  <2>2. b = Put(v, WordBytes)
    BY <1>6 DEF Content, WriteInt32
  <2>3. PayloadAt(t.type, data, o, payloads) = GetSigned(data, o, WordBytes)
    BY <1>6 DEF PayloadAt, ReadInt32
  <2> HIDE DEF b
  <2>4. GetSigned(data, o, WordBytes) = [value |-> v, offset |-> o + Len(Put(v, WordBytes))]
    BY <1>3, <2>1, <2>2, SignedField, WordBytesType
  <2> QED
    BY <2>2, <2>3, <2>4 DEF b
<1>7. CASE t.type = "Long"
  <2> DEFINE k == 2 * WordBytes
  <2>1. v \in SignedOf(k) /\ k \in Nat \ {0}
    BY <1>2, <1>7, WordBytesType DEF LeafValues
  <2>2. b = Put(v, k)
    BY <1>7 DEF Content, WriteInt64
  <2>3. PayloadAt(t.type, data, o, payloads) = GetSigned(data, o, k)
    BY <1>7 DEF PayloadAt
  <2> HIDE DEF k, b
  <2>4. GetSigned(data, o, k) = [value |-> v, offset |-> o + Len(Put(v, k))]
    BY <1>3, <2>1, <2>2, SignedField
  <2> QED
    BY <2>2, <2>3, <2>4 DEF b
<1>8. CASE t.type = "Float"
  <2>1. v \in UnsignedOf(WordBytes)
    BY <1>2, <1>8 DEF LeafValues
  <2>2. b = Put(Cast(v, WordBytes), WordBytes)
    BY <1>8 DEF Content, WriteFloat, WriteInt32
  <2>3. PayloadAt(t.type, data, o, payloads) = Get(data, o, WordBytes)
    BY <1>8 DEF PayloadAt, ReadFloat, ReadUint32
  <2> HIDE DEF b
  <2>4. Get(data, o, WordBytes) = [value |-> v, offset |-> o + Len(Put(Cast(v, WordBytes), WordBytes))]
    BY <1>3, <2>1, <2>2, BitsField, WordBytesType
  <2> QED
    BY <2>2, <2>3, <2>4 DEF b
<1>9. CASE t.type = "Double"
  <2> DEFINE k == 2 * WordBytes
  <2>1. v \in UnsignedOf(k) /\ k \in Nat \ {0}
    BY <1>2, <1>9, WordBytesType DEF LeafValues
  <2>2. b = Put(Cast(v, k), k)
    BY <1>9 DEF Content, WriteDouble, WriteInt64
  <2>3. PayloadAt(t.type, data, o, payloads) = Get(data, o, k)
    BY <1>9 DEF PayloadAt, ReadDouble, ReadUint64
  <2> HIDE DEF k, b
  <2>4. Get(data, o, k) = [value |-> v, offset |-> o + Len(Put(Cast(v, k), k))]
    BY <1>3, <2>1, <2>2, BitsField
  <2> QED
    BY <2>2, <2>3, <2>4 DEF b
<1>10. CASE t.type = "ByteArray"
  <2>1. v \in Seq(SignedOf(1)) /\ Len(v) \in SignedOf(WordBytes)
    BY <1>2, <1>10 DEF LeafValues
  <2>2. b = WriteInt32(Len(v)) \o Bytes(v, 1)
    BY <1>10 DEF Content
  <2>3. PayloadAt(t.type, data, o, payloads) =
          GetArray(data, ReadInt32(data, o), 1)
    BY <1>10 DEF PayloadAt
  <2> HIDE DEF b
  <2>4. GetArray(data, ReadInt32(data, o), 1) =
          [value |-> v, offset |-> o + Len(WriteInt32(Len(v)) \o Bytes(v, 1))]
    BY <1>3, <2>1, <2>2, ArrayReadBack, WordBytesType
  <2> QED
    BY <2>2, <2>3, <2>4 DEF b
<1>11. CASE t.type = "IntArray"
  <2>1. v \in Seq(SignedOf(WordBytes)) /\ Len(v) \in SignedOf(WordBytes)
    BY <1>2, <1>11 DEF LeafValues
  <2>2. b = WriteInt32(Len(v)) \o Bytes(v, WordBytes)
    BY <1>11 DEF Content
  <2>3. PayloadAt(t.type, data, o, payloads) =
          GetArray(data, ReadInt32(data, o), WordBytes)
    BY <1>11 DEF PayloadAt
  <2> HIDE DEF b
  <2>4. GetArray(data, ReadInt32(data, o), WordBytes) =
          [value |-> v, offset |-> o + Len(WriteInt32(Len(v)) \o Bytes(v, WordBytes))]
    BY <1>3, <2>1, <2>2, ArrayReadBack, WordBytesType
  <2> QED
    BY <2>2, <2>3, <2>4 DEF b
<1>12. CASE t.type = "String"
  <2>1. v \in Names
    BY <1>2, <1>12 DEF LeafValues
  <2>2. b = WriteInt16(Len(v)) \o v
    BY <1>12 DEF Content
  <2>3. PayloadAt(t.type, data, o, payloads) =
          Slice(data, ReadShort(data, o).offset, ReadShort(data, o).value)
    BY <1>12 DEF PayloadAt
  <2> HIDE DEF b
  <2>4. Slice(data, ReadShort(data, o).offset, ReadShort(data, o).value)
          = [value |-> v, offset |-> o + Len(WriteInt16(Len(v)) \o v)]
    BY <1>3, <2>1, <2>2, TextReadBack
  <2> QED
    BY <2>2, <2>3, <2>4 DEF b
<1>13. CASE t.type = "List"
  BY <1>13, ListReadBack
<1>14. CASE t.type = "Compound"
  <2>1. b = WriteChildren(v, written) \o <<TypeId("End")>>
    BY <1>14 DEF Content
  <2>2. /\ ChildrenOK(v)
        /\ \A n \in DOMAIN v : ReadBack(data, payloads, written, v[n])
    BY <1>14 DEF Sound, ChildrenOK, Inner, Range
  <2>3. PayloadAt(t.type, data, o, payloads) = ReadChildren(data, o, payloads)
    BY <1>14 DEF PayloadAt
  <2> HIDE DEF b, v
  <2>4. ReadChildren(data, o, payloads) =
          [value |-> v,
           offset |-> o + Len(WriteChildren(v, written) \o <<TypeId("End")>>)]
    BY <1>3, <2>1, <2>2, ChildrenReadBack
  <2> QED
    BY <2>1, <2>3, <2>4 DEF b, v
<1> HIDE DEF b, v
<1> QED
  BY <1>1, <1>4, <1>5, <1>6, <1>7, <1>8, <1>9, <1>10, <1>11, <1>12, <1>13, <1>14, TypesAre DEF b, v

-----------------------------------------------------------------------------
(* A tag and all that is inside it.                                        *)

\* What is written of a tag is read back, if what is inside it is.
LEMMA LevelStep ==
  ASSUME NEW data \in Seq(Byte), NEW inside, NEW u \in inside, Sound(u),
         NEW written, NEW payloads,
         \A x \in Inner(u) : ReadBack(data, payloads, written, x)
  PROVE  ReadBack(data, AllPayloads(data, payloads), AllContents(inside, written), u)
<1> DEFINE c == AllContents(inside, written)
           p == AllPayloads(data, payloads)
           b == Content(u, written)
<1>1. c[u] = b
  BY DEF AllContents
<1>2. \A x \in Inner(u) : written[x] \in Seq(Byte)
  BY DEF ReadBack
<1>3. b \in Seq(Byte)
  BY <1>2, ContentType
<1>4. ASSUME NEW o \in Nat, Holds(data, o, b)
      PROVE  p[<<u.type, o>>] = [value |-> u.payload, offset |-> o + Len(b)]
  <2>1. <<u.type, o>> \in Types \X Nat
    BY DEF Sound, TagOK
  <2>2. p[<<u.type, o>>] = PayloadAt(u.type, data, o, payloads)
    BY <2>1 DEF AllPayloads
  <2>3. PayloadAt(u.type, data, o, payloads) =
          [value |-> u.payload, offset |-> o + Len(b)]
    BY <1>4, ContentReadBack, SMTT(20)
  <2> QED
    BY <2>2, <2>3
<1> HIDE DEF c, p, b
<1>5. ReadBack(data, p, c, u)
  BY <1>1, <1>3, <1>4 DEF ReadBack
<1> QED
  BY <1>5 DEF c, p

\* At every level, what is written of a tag is read back.
LEMMA LevelReadBack ==
  ASSUME NEW root, Deep(root, Nesting), NEW data \in Seq(Byte),
         NEW n \in 0..Nesting, NEW t \in Levels(root)[Nesting - n]
  PROVE  ReadBack(data, Payloads(data)[n], Contents(root)[n], t)
<1> DEFINE c == Contents(root)
           p == Payloads(data)
           S == {m \in Nat : m <= Nesting =>
                   \A u \in Levels(root)[Nesting - m] :
                     ReadBack(data, p[m], c[m], u)}
<1>1. Nesting \in Nat
  BY NBTAssumption
<1>2. ASSUME NEW m \in Nat, m <= Nesting
      PROVE  \A u \in Levels(root)[Nesting - m] : Sound(u) /\ u \in Inside(root)
  <2>1. Nesting - m \in 0..Nesting
    BY <1>1, <1>2
  <2> QED
    BY <2>1, LevelsDef DEF Deep
<1>3. /\ c[0] = AllContents(Inside(root), <<>>)
      /\ \A m \in 1..Nesting : c[m] = AllContents(Inside(root), c[m - 1])
      /\ p[0] = AllPayloads(data, <<>>)
      /\ \A m \in 1..Nesting : p[m] = AllPayloads(data, p[m - 1])
  BY ContentsDef, PayloadsDef
<1> HIDE DEF c, p
<1>4. 0 \in S
  <2> SUFFICES ASSUME NEW u \in Levels(root)[Nesting - 0]
               PROVE  ReadBack(data, p[0], c[0], u)
    OBVIOUS
  <2>1. Nesting - 0 = Nesting /\ Nesting \in 0..Nesting /\ Nesting >= Nesting
        /\ 0 \in Nat /\ 0 <= Nesting
    BY <1>1
  <2>2. Inner(u) = {}
    BY <2>1 DEF Deep
  <2>3. Sound(u) /\ u \in Inside(root)
    BY <1>2, <2>1
  <2>4. ReadBack(data, AllPayloads(data, <<>>), AllContents(Inside(root), <<>>), u)
    BY <2>2, <2>3, LevelStep
  <2> QED
    BY <1>3, <2>4
<1>5. ASSUME NEW m \in Nat, m \in S
      PROVE  m + 1 \in S
  <2> SUFFICES ASSUME m + 1 <= Nesting, NEW u \in Levels(root)[Nesting - (m + 1)]
               PROVE  ReadBack(data, p[m + 1], c[m + 1], u)
    OBVIOUS
  <2>1. /\ Nesting - m \in 1..Nesting /\ (Nesting - m) - 1 = Nesting - (m + 1)
        /\ m + 1 \in 1..Nesting /\ m + 1 \in Nat /\ m <= Nesting
        /\ (m + 1) - 1 = m
    BY <1>1
  <2>2. Sound(u) /\ u \in Inside(root)
    BY <1>2
  <2>3. ASSUME NEW x \in Inner(u)
        PROVE  ReadBack(data, p[m], c[m], x)
    <3>1. Levels(root)[Nesting - m] =
            UNION {Inner(y) : y \in Levels(root)[(Nesting - m) - 1]}
      BY <2>1, LevelsDef
    <3>2. x \in Levels(root)[Nesting - m]
      BY <2>1, <3>1
    <3> QED
      BY <1>5, <2>1, <3>2
  <2>4. ReadBack(data, AllPayloads(data, p[m]), AllContents(Inside(root), c[m]), u)
    BY <2>2, <2>3, LevelStep
  <2>5. c[m + 1] = AllContents(Inside(root), c[m]) /\ p[m + 1] = AllPayloads(data, p[m])
    BY <1>3, <2>1
  <2> QED
    BY <2>4, <2>5
<1>6. \A m \in Nat : m \in S
  <2>1. \A m \in Nat : m \in S => m + 1 \in S
    BY <1>5
  <2> HIDE DEF S
  <2> QED
    BY <1>4, <2>1, Induction
<1>7. n \in S /\ n <= Nesting
  BY <1>1, <1>6
<1> QED
  BY <1>7 DEF c, p

\* A tag with what is inside it is read back between any other bytes, to its
\* last byte, and every tag inside it under its name or at its place.
THEOREM TagReadBack ==
  ASSUME NEW t, Deep(t, Nesting), NEW data \in Seq(Byte), NEW o \in Nat,
         Holds(data, o, WriteTag(t))
  PROVE  /\ ReadTag(data, o) = [value |-> t, offset |-> o + Len(WriteTag(t))]
         /\ WriteTag(t) \in Seq(Byte)
<1> DEFINE body == WritePayload(t)
           payloads == Payloads(data)[Nesting]
<1>1. Nesting \in Nat /\ Nesting \in 0..Nesting /\ Nesting - Nesting = 0
  BY NBTAssumption
<1>2. TagOK(t) /\ t.type # "End"
  BY DeepSound DEF Sound, TagOK
<1>3. WriteTag(t) = Header(t) \o body
  BY <1>2 DEF WriteTag
<1>4. ReadBack(data, payloads, Contents(t)[Nesting], t)
  <2>1. t \in Levels(t)[Nesting - Nesting]
    BY <1>1, LevelsDef
  <2> QED
    BY <1>1, <2>1, LevelReadBack
<1>5. body \in Seq(Byte) /\ body = Contents(t)[Nesting][t]
  BY <1>4 DEF ReadBack, WritePayload
<1> HIDE DEF body
<1> DEFINE h == Header(t)
           p == o + Len(h)
<1>6. h \in Seq(Byte)
  BY <1>2, HeaderType
<1>7. Holds(data, p, body) /\ p \in Nat
  <2>1. Holds(data, o, h \o body)
    BY <1>3
  <2> HIDE DEF h
  <2>2. Holds(data, p, body)
    BY <1>5, <1>6, <2>1, HoldsParts
  <2> QED
    BY <2>2 DEF Holds
<1> HIDE DEF payloads
<1>8. payloads[<<t.type, p>>] = [value |-> t.payload, offset |-> p + Len(body)]
  BY <1>4, <1>5, <1>7 DEF ReadBack
<1>9. /\ TagAt(data, o, payloads) = [value |-> t, offset |-> o + Len(h \o body)]
      /\ h \o body \in Seq(Byte)
  <2>1. Holds(data, o, Header(t) \o body)
    BY <1>3
  <2>2. TagOK(t) /\ body \in Seq(Byte)
    BY <1>2, <1>5
  <2>3. p = o + Len(Header(t)) /\ p \in Nat /\ PayloadIs(payloads, t, p, body)
    BY <1>7, <1>8 DEF PayloadIs
  <2> HIDE DEF p
  <2>4. /\ TagAt(data, o, payloads) =
             [value |-> t, offset |-> o + Len(Header(t) \o body)]
        /\ Header(t) \o body \in Seq(Byte)
    BY <2>1, <2>2, <2>3, TagAtReadBack
  <2> QED
    BY <2>4
<1> QED
  BY <1>3, <1>9 DEF ReadTag, payloads

\* A tag is written as bytes.
LEMMA WriteTagType ==
  ASSUME NEW t, Deep(t, Nesting)
  PROVE  WriteTag(t) \in Seq(Byte)
<1>1. Nesting \in Nat /\ Nesting \in 0..Nesting /\ Nesting - Nesting = 0
  BY NBTAssumption
<1>2. TagOK(t) /\ t.type # "End"
  BY DeepSound DEF Sound, TagOK
<1>3. WritePayload(t) \in Seq(Byte)
  <2>1. t \in Levels(t)[Nesting - Nesting]
    BY <1>1, LevelsDef
  <2>2. <<>> \in Seq(Byte)
    OBVIOUS
  <2>3. ReadBack(<<>>, Payloads(<<>>)[Nesting], Contents(t)[Nesting], t)
    BY <1>1, <2>1, <2>2, LevelReadBack
  <2> QED
    BY <2>3 DEF ReadBack, WritePayload
<1>4. Header(t) \in Seq(Byte)
  BY <1>2, HeaderType
<1>5. WriteTag(t) = Header(t) \o WritePayload(t)
  BY <1>2 DEF WriteTag
<1> QED
  BY <1>3, <1>4, <1>5, Joined

\* A tag stands alone in the bytes that are written of it.
LEMMA TagAlone ==
  ASSUME NEW t, Deep(t, Nesting)
  PROVE  ReadTag(WriteTag(t), 0).value = t
<1> DEFINE b == WriteTag(t)
<1>1. b \in Seq(Byte)
  BY WriteTagType
<1>2. Holds(b, 0, b)
  BY <1>1, HoldsItself
<1>3. 0 \in Nat
  OBVIOUS
<1>4. ReadTag(b, 0) = [value |-> t, offset |-> 0 + Len(b)]
  <2>1. Holds(b, 0, WriteTag(t))
    BY <1>2
  <2> HIDE DEF b
  <2>2. ReadTag(b, 0) = [value |-> t, offset |-> 0 + Len(WriteTag(t))]
    BY <1>1, <1>3, <2>1, TagReadBack
  <2> QED
    BY <2>2 DEF b
<1> QED
  BY <1>4

-----------------------------------------------------------------------------
(* Lists and Compounds of tags.                                            *)

\* A tag of any length may be empty.
LEMMA EmptyLengths ==
  /\ 0 \in SignedOf(WordBytes) /\ <<>> \in Names
  /\ Order \in Seq(Names) /\ Range(Order) \subseteq Names
<1>1. Span[WordBytes] \div 2 \in Nat /\ Span[WordBytes] = 2 * (Span[WordBytes] \div 2)
  BY WordBytesType, SpanEven
<1>2. Span[WordBytes] \in Nat /\ Span[WordBytes] > 0 /\ Span[2] \in Nat /\ Span[2] > 0
  BY WordBytesType, SpanPositive
<1>3. 0 \in SignedOf(WordBytes)
  <2> DEFINE h == Span[WordBytes] \div 2
  <2>1. h \in Nat /\ h > 0
    BY <1>1, <1>2
  <2> HIDE DEF h
  <2>2. 0 \in -h..h - 1
    BY <2>1
  <2> QED
    BY <2>2 DEF SignedOf, h
<1>4. <<>> \in Names
  <2>1. 0 \in UnsignedOf(2)
    BY <1>2 DEF UnsignedOf
  <2> QED
    BY <2>1 DEF Names
<1>5. Order \in Seq(Names)
  BY NBTAssumption
<1>6. Range(Order) \subseteq Names
  BY <1>5, ElementOfSeq DEF Range
<1> QED
  BY <1>3, <1>4, <1>5, <1>6

\* What the items of one list have in common.
ItemsOK(S, type) == \A c \in S : TagOK(c) /\ c.type = type /\ c.name = <<>>

\* A list of tags of one type.
LEMMA ListSound ==
  ASSUME NEW n \in Names, NEW type, NEW S, NEW items \in Seq(S),
         Len(items) \in SignedOf(WordBytes), ItemsOK(S, type)
  PROVE  LET t == MakeTag("List", n, items) IN
         /\ Sound(t) /\ Inner(t) = Range(items) /\ Range(items) \subseteq S
         /\ t.type = "List" /\ t.name = n /\ t.payload = items
<1> DEFINE t == MakeTag("List", n, items)
<1>1. t.type = "List" /\ t.name = n /\ t.payload = items
  BY DEF MakeTag
<1>2. TagOK(t)
  <2>1. "List" \in Types \ {"End"}
    BY TypesAre
  <2> QED
    BY <2>1 DEF TagOK, MakeTag
<1> HIDE DEF t
<1>3. Range(items) \subseteq S /\ Len(items) \in Nat
  BY ElementOfSeq, LenProperties DEF Range
<1>4. items \in Seq(Range(items))
  <2>1. \A i \in 1..Len(items) : items[i] \in Range(items)
    BY DEF Range
  <2>2. items = [i \in 1..Len(items) |-> items[i]]
    OBVIOUS
  <2> QED
    BY <1>3, <2>1, <2>2
<1>5. ASSUME NEW c \in Range(items)
      PROVE  TagOK(c) /\ c.type = ElementType(items) /\ c.name = <<>>
  <2>1. c \in S
    BY <1>3
  <2>2. Len(items) # 0
    BY <1>3 DEF Range
  <2>3. items # <<>> /\ 1 \in 1..Len(items)
    BY <1>3, <2>2
  <2>4. items[1] \in S
    BY <2>3, ElementOfSeq
  <2> QED
    BY <2>1, <2>3, <2>4 DEF ElementType, ItemsOK
<1>6. Inner(t) = Range(items)
  BY <1>1 DEF Inner
<1>7. Sound(t)
  BY <1>1, <1>2, <1>4, <1>5 DEF Sound
<1> QED
  BY <1>1, <1>3, <1>6, <1>7 DEF t

\* A Compound of tags of different names.
LEMMA CompoundSound ==
  ASSUME NEW n \in Names, NEW tags,
         \A t \in tags : TagOK(t) /\ t.name \in Range(Order),
         \A t, u \in tags : t.name = u.name => t = u
  PROVE  LET c == MakeCompound(n, tags) IN
         /\ Sound(c) /\ Inner(c) = tags
         /\ c.type = "Compound" /\ c.name = n
         /\ DOMAIN c.payload = {t.name : t \in tags}
         /\ \A t \in tags : c.payload[t.name] = t
<1> DEFINE c == MakeCompound(n, tags)
           D == {t.name : t \in tags}
           f == [m \in D |-> CHOOSE t \in tags : t.name = m]
<1>1. c = MakeTag("Compound", n, f)
  BY DEF MakeCompound
<1>2. c.type = "Compound" /\ c.name = n /\ c.payload = f
  BY <1>1 DEF MakeTag
<1>3. TagOK(c)
  <2>1. "Compound" \in Types \ {"End"}
    BY TypesAre
  <2> HIDE DEF f
  <2> QED
    BY <1>1, <1>2, <2>1 DEF TagOK, MakeTag
<1> HIDE DEF c
<1>4. ASSUME NEW t \in tags
      PROVE  t.name \in D /\ f[t.name] = t
  OBVIOUS
<1>5. ASSUME NEW m \in D
      PROVE  f[m] \in tags /\ f[m].name = m
  OBVIOUS
<1>6. f \in [D -> tags] /\ DOMAIN f = D
  BY <1>5
<1> HIDE DEF f
<1>7. Range(f) = tags
  BY <1>4, <1>5, <1>6 DEF Range
<1>8. D \subseteq Range(Order)
  OBVIOUS
<1>9. Sound(c)
  <2>1. f \in [DOMAIN f -> Range(f)] /\ DOMAIN f \subseteq Range(Order)
    BY <1>6, <1>7, <1>8
  <2>2. \A m \in DOMAIN f : TagOK(f[m]) /\ f[m].name = m
    BY <1>5, <1>6
  <2> QED
    BY <1>2, <1>3, <2>1, <2>2 DEF Sound
<1>10. Inner(c) = tags
  BY <1>2, <1>7 DEF Inner
<1> QED
  BY <1>2, <1>4, <1>6, <1>9, <1>10 DEF c

\* A tag with no others inside it.
LEMMA LeafSound ==
  ASSUME NEW t, t = MakeTag(t.type, t.name, t.payload),
         t.type \in Types \ {"End"}, t.name \in Names,
         t.payload \in LeafValues(t.type)
  PROVE  Sound(t) /\ Deep(t, 0)
<1>1. TagOK(t)
  BY DEF TagOK
<1>2. CASE t.type = "List"
  <2>1. t.payload = <<>>
    BY <1>2 DEF LeafValues
  <2>2. Range(t.payload) = {}
    BY <2>1 DEF Range
  <2>3. t.payload \in Seq(Range(t.payload)) /\ Len(t.payload) = 0
    BY <2>1
  <2>4. Inner(t) = {}
    BY <1>2, <2>2 DEF Inner
  <2>5. Sound(t)
    BY <1>1, <1>2, <2>2, <2>3, EmptyLengths DEF Sound
  <2> QED
    BY <2>4, <2>5, DeepLeaf
<1>3. CASE t.type = "Compound"
  <2>1. t.payload = <<>>
    BY <1>3 DEF LeafValues
  <2>2. Range(t.payload) = {} /\ DOMAIN t.payload = {}
    BY <2>1 DEF Range
  <2>3. t.payload \in [DOMAIN t.payload -> Range(t.payload)]
    BY <2>1, <2>2
  <2>4. Inner(t) = {}
    BY <1>3, <2>2 DEF Inner
  <2>5. Sound(t)
    BY <1>1, <1>3, <2>2, <2>3 DEF Sound
  <2> QED
    BY <2>4, <2>5, DeepLeaf
<1>4. CASE t.type \notin {"List", "Compound"}
  <2>1. Sound(t)
    BY <1>1, <1>4 DEF Sound
  <2>2. Inner(t) = {}
    BY <1>4 DEF Inner
  <2> QED
    BY <2>1, <2>2, DeepLeaf
<1> QED
  BY <1>2, <1>3, <1>4

-----------------------------------------------------------------------------
(* The tags of Tags.                                                       *)

TagsOK == /\ depth \in 0..Nesting /\ Deep(tag, depth)
          /\ tag.name \in Range(Order)

\* The tags to begin with.
LEMMA LeavesDeep ==
  ASSUME NEW t \in Leaves
  PROVE  /\ TagOK(t) /\ t.name \in Range(Order)
         /\ \A m \in Nat : Deep(t, m)
<1>1. /\ t = MakeTag(t.type, t.name, t.payload)
      /\ t.type \in Types \ {"End"} /\ t.name \in Range(Order)
      /\ t.payload \in LeafValues(t.type)
  BY TagsAssumption
<1>2. t.name \in Names
  BY <1>1, EmptyLengths
<1>3. Sound(t) /\ Deep(t, 0)
  BY <1>1, <1>2, LeafSound
<1>4. ASSUME NEW m \in Nat
      PROVE  Deep(t, m)
  <2>1. 0 \in Nat /\ 0 <= m
    OBVIOUS
  <2> QED
    BY <1>3, <2>1, DeepMore
<1> QED
  BY <1>1, <1>3, <1>4 DEF Sound

\* A tag without its name.
LEMMA UnnamedDeep ==
  ASSUME NEW t, NEW m \in Nat, Deep(t, m)
  PROVE  LET u == Unnamed(t) IN
         /\ TagOK(u) /\ u.type = t.type /\ u.name = <<>> /\ Deep(u, m)
<1> DEFINE u == Unnamed(t)
<1>1. Sound(t) /\ TagOK(t)
  BY DeepSound DEF Sound
<1>2. u = MakeTag(t.type, <<>>, t.payload)
  BY <1>1 DEF Unnamed, TagOK, MakeTag
<1>3. u.type = t.type /\ u.name = <<>> /\ u.payload = t.payload
  BY <1>2 DEF MakeTag
<1> HIDE DEF u
<1>4. TagOK(u)
  BY <1>1, <1>2, <1>3, EmptyLengths DEF TagOK
<1>5. Sound(u)
  BY <1>1, <1>3, <1>4 DEF Sound
<1>6. Inner(u) = Inner(t)
  BY <1>3 DEF Inner
<1>7. Deep(u, m)
  <2> SUFFICES ASSUME NEW n \in 0..Nesting, NEW x \in Levels(u)[n]
               PROVE  Sound(x) /\ (n >= m => Inner(x) = {})
    BY DEF Deep
  <2>1. Nesting \in Nat /\ 0 \in 0..Nesting
    BY NBTAssumption
  <2>2. CASE n = 0
    <3>1. x = u /\ t \in Levels(t)[0]
      BY <2>2, LevelsDef
    <3>2. n >= m => Inner(t) = {}
      BY <2>1, <2>2, <3>1 DEF Deep
    <3> QED
      BY <1>5, <1>6, <3>1, <3>2
  <2>3. CASE n # 0
    <3>1. n \in 1..Nesting
      BY <2>1, <2>3
    <3>2. Levels(u)[n] = Levels(t)[n]
      BY <1>6, <3>1, LevelsBelow
    <3> QED
      BY <3>2 DEF Deep
  <2> QED
    BY <2>2, <2>3
<1> QED
  BY <1>3, <1>4, <1>7 DEF u

\* Every tag that TagSpec comes to is well formed and no deeper than told.
LEMMA TagsOKInvariant == TagSpec => []TagsOK
<1>0. Nesting \in Nat /\ MaxBeside \in Nat /\ MaxBeside + 1 \in SignedOf(WordBytes)
  BY NBTAssumption, TagsAssumption
<1>1. TagInit => TagsOK
  BY <1>0, LeavesDeep DEF TagInit, TagsOK
<1>2. ASSUME TagsOK, depth < Nesting, NEW n \in TagNames, NEW S,
             \A c \in S : Deep(c, depth)
      PROVE  /\ n \in Names /\ n \in Range(Order)
             /\ \A t : Sound(t) /\ t.name = n /\ Inner(t) \subseteq S =>
                  /\ depth + 1 \in 0..Nesting /\ Deep(t, depth + 1)
                  /\ t.name \in Range(Order)
  <2>1. n \in Names /\ n \in Range(Order)
    BY TagsAssumption, EmptyLengths
  <2>2. depth \in Nat /\ depth + 1 \in 0..Nesting
    BY <1>0, <1>2 DEF TagsOK
  <2> QED
    BY <1>2, <2>1, <2>2, DeepAround
<1>3. ASSUME TagsOK, IntoList
      PROVE  TagsOK'
  <2>1. PICK n \in TagNames, k \in 0..MaxBeside :
          \E others \in [1..k -> {t \in Leaves : t.type = tag.type}] :
            tag' = MakeTag("List", n,
                     <<Unnamed(tag)>> \o [i \in 1..k |-> Unnamed(others[i])])
    BY <1>3 DEF IntoList
  <2>2. PICK others \in [1..k -> {t \in Leaves : t.type = tag.type}] :
          tag' = MakeTag("List", n,
                   <<Unnamed(tag)>> \o [i \in 1..k |-> Unnamed(others[i])])
    BY <2>1
  <2>3. depth < Nesting /\ depth' = depth + 1
    BY <1>3 DEF IntoList
  <2> DEFINE S == {Unnamed(tag)} \cup {Unnamed(others[i]) : i \in 1..k}
             first == <<Unnamed(tag)>>
             more == [i \in 1..k |-> Unnamed(others[i])]
             items == first \o more
  <2>4. depth \in Nat /\ Deep(tag, depth)
    BY <1>0, <1>3 DEF TagsOK
  <2>5. \A c \in S : /\ TagOK(c) /\ c.type = tag.type /\ c.name = <<>>
                     /\ Deep(c, depth)
    <3>1. LET c == Unnamed(tag) IN
            TagOK(c) /\ c.type = tag.type /\ c.name = <<>> /\ Deep(c, depth)
      BY <2>4, UnnamedDeep
    <3>2. ASSUME NEW i \in 1..k
          PROVE  LET c == Unnamed(others[i]) IN
                   TagOK(c) /\ c.type = tag.type /\ c.name = <<>> /\ Deep(c, depth)
      <4> DEFINE l == others[i]
      <4>1. l \in Leaves /\ l.type = tag.type
        OBVIOUS
      <4> HIDE DEF l
      <4>2. Deep(l, depth)
        BY <2>4, <4>1, LeavesDeep
      <4>3. LET c == Unnamed(l) IN
              TagOK(c) /\ c.type = l.type /\ c.name = <<>> /\ Deep(c, depth)
        BY <2>4, <4>2, UnnamedDeep
      <4> QED
        BY <4>1, <4>3 DEF l
    <3> QED
      BY <3>1, <3>2
  <2>6. first \in Seq(S) /\ Len(first) = 1 /\ more \in Seq(S) /\ Len(more) = k
    <3>1. k \in Nat
      BY <1>0
    <3>2. Unnamed(tag) \in S /\ \A i \in 1..k : Unnamed(others[i]) \in S
      OBVIOUS
    <3> HIDE DEF S
    <3> QED
      BY <3>1, <3>2
  <2> HIDE DEF S, first, more
  <2>7. items \in Seq(S) /\ Len(items) = 1 + k
    <3>1. items \in Seq(S) /\ Len(items) = Len(first) + Len(more)
      BY <2>6, Joined
    <3> QED
      BY <2>6, <3>1
  <2> HIDE DEF items
  <2>8. Len(items) \in SignedOf(WordBytes)
    <3> DEFINE h == Span[WordBytes] \div 2
    <3>1. h \in Nat
      BY SpanEven, WordBytesType
    <3>2. MaxBeside + 1 \in -h..h - 1
      BY <1>0 DEF SignedOf
    <3> HIDE DEF h
    <3>3. 1 + k \in -h..h - 1
      BY <1>0, <3>1, <3>2
    <3> QED
      BY <2>7, <3>3 DEF SignedOf, h
  <2>9. n \in Names /\ n \in Range(Order)
    BY TagsAssumption, EmptyLengths
  <2>10. tag' = MakeTag("List", n, items)
    BY <2>2 DEF items, first, more
  <2>11. Sound(tag') /\ Inner(tag') \subseteq S /\ tag'.name = n
    <3> DEFINE t == MakeTag("List", n, items)
               type == tag.type
    <3>1. ItemsOK(S, type)
      BY <2>5 DEF ItemsOK
    <3>2. items \in Seq(S) /\ n \in Names
      BY <2>7, <2>9
    <3> HIDE DEF type
    <3>3. Sound(t) /\ Inner(t) = Range(items) /\ Range(items) \subseteq S /\ t.name = n
      BY <2>8, <3>1, <3>2, ListSound
    <3> QED
      BY <2>10, <3>3
  <2>12. /\ depth + 1 \in 0..Nesting /\ Deep(tag', depth + 1)
         /\ tag'.name \in Range(Order)
    BY <1>2, <1>3, <2>3, <2>5, <2>11
  <2> QED
    BY <2>3, <2>12 DEF TagsOK, Deep
<1>4. ASSUME TagsOK, IntoCompound
      PROVE  TagsOK'
  <2>1. PICK n \in TagNames, k \in 0..MaxBeside :
          \E others \in [1..k -> {t \in Leaves : t.name # tag.name}] :
            /\ \A i, j \in 1..k : others[i].name = others[j].name => i = j
            /\ tag' = MakeCompound(n, {tag} \cup Range(others))
    BY <1>4 DEF IntoCompound
  <2>2. PICK others \in [1..k -> {t \in Leaves : t.name # tag.name}] :
            /\ \A i, j \in 1..k : others[i].name = others[j].name => i = j
            /\ tag' = MakeCompound(n, {tag} \cup Range(others))
    BY <2>1
  <2>3. depth < Nesting /\ depth' = depth + 1
    BY <1>4 DEF IntoCompound
  <2> DEFINE S == {tag} \cup Range(others)
  <2>4. depth \in Nat /\ Deep(tag, depth) /\ tag.name \in Range(Order)
    BY <1>0, <1>4 DEF TagsOK
  <2>5. \A c \in Range(others) :
          /\ c \in Leaves /\ c.name # tag.name
          /\ \A d \in Range(others) : c.name = d.name => c = d
    BY <2>2 DEF Range
  <2>6. \A c \in S : TagOK(c) /\ c.name \in Range(Order) /\ Deep(c, depth)
    BY <2>4, <2>5, LeavesDeep, DeepSound DEF Sound
  <2>7. \A c, d \in S : c.name = d.name => c = d
    BY <2>5
  <2>8. n \in Names /\ n \in Range(Order)
    BY TagsAssumption, EmptyLengths
  <2>9. tag' = MakeCompound(n, S)
    BY <2>2
  <2> HIDE DEF S
  <2>10. Sound(tag') /\ Inner(tag') \subseteq S /\ tag'.name = n
    <3> DEFINE t == MakeCompound(n, S)
    <3>1. Sound(t) /\ Inner(t) = S /\ t.name = n
      BY <2>6, <2>7, <2>8, CompoundSound
    <3> QED
      BY <2>9, <3>1
  <2>11. /\ depth + 1 \in 0..Nesting /\ Deep(tag', depth + 1)
         /\ tag'.name \in Range(Order)
    BY <1>2, <1>4, <2>3, <2>6, <2>10
  <2> QED
    BY <2>3, <2>11 DEF TagsOK, Deep
<1>5. TagsOK /\ UNCHANGED <<tag, depth>> => TagsOK'
  BY DEF TagsOK, Deep
<1>6. TagsOK /\ [TagNext]_<<tag, depth>> => TagsOK'
  BY <1>3, <1>4, <1>5 DEF TagNext
<1> QED
  BY <1>1, <1>6, PTL DEF TagSpec

\* Every tag, whatever lists and Compounds it stands in, is read back as it was
\* written, between any other bytes and to its last byte (NBT.cpp:8-218).
THEOREM TagsReadBack == TagSpec => []TagRoundTrip
<1>1. TagsOK => TagRoundTrip
  <2> SUFFICES ASSUME TagsOK, NEW before \in Around, NEW behind \in Around
               PROVE  LET written == WriteTag(tag) IN
                      ReadTag(before \o written \o behind, Len(before)) =
                        [value |-> tag, offset |-> Len(before) + Len(written)]
    BY DEF TagRoundTrip
  <2> DEFINE w == WriteTag(tag)
             d == before \o w
             data == d \o behind
  <2>1. before \in Seq(Byte) /\ behind \in Seq(Byte) /\ Len(before) \in Nat
    BY TagsAssumption, LenProperties
  <2>2. Deep(tag, Nesting)
    <3>1. depth \in Nat /\ Nesting \in Nat /\ depth <= Nesting /\ Deep(tag, depth)
      BY NBTAssumption DEF TagsOK
    <3> QED
      BY <3>1, DeepMore
  <2>3. w \in Seq(Byte)
    BY <2>2, WriteTagType
  <2> HIDE DEF w
  <2>4. d \in Seq(Byte) /\ Holds(d, Len(before), w)
    BY <2>1, <2>3, Joined, HoldsBehind
  <2> HIDE DEF d
  <2>5. data \in Seq(Byte) /\ Holds(data, Len(before), w)
    BY <2>1, <2>3, <2>4, Joined, HoldsLonger
  <2> HIDE DEF data
  <2>6. Holds(data, Len(before), WriteTag(tag))
    BY <2>5 DEF w
  <2>7. ReadTag(data, Len(before)) =
          [value |-> tag, offset |-> Len(before) + Len(WriteTag(tag))]
    BY <2>1, <2>2, <2>5, <2>6, TagReadBack
  <2> QED
    BY <2>7 DEF data, d, w
<1> QED
  BY <1>1, TagsOKInvariant, PTL

-----------------------------------------------------------------------------
(* Cells and nibbles.                                                      *)

HalfSize == SectionSize \div 2

\* The sizes of a section and of a chunk, in blocks and in pairs of them.
LEMMA Sizes ==
  /\ Side \in Nat /\ Side > 0 /\ Side * Side \in Nat /\ Side * Side > 0
  /\ SectionSize = Side * (Side * Side)
  /\ HalfSize \in Nat /\ HalfSize > 0
  /\ SectionSize \in Nat /\ SectionSize = 2 * HalfSize
  /\ Sections \in Nat /\ Sections > 0
  /\ ChunkSize = Sections * SectionSize /\ ChunkSize \in Nat
  /\ ChunkSize \div 2 = Sections * HalfSize /\ ChunkSize \div 2 \in Nat
<1>1. Side \in Nat /\ Side > 0 /\ Side % 2 = 0 /\ Sections \in Nat /\ Sections > 0
  BY ChunkAssumption
<1> DEFINE e == Side \div 2
           q == Side * Side
<1>2. e \in Nat /\ Side = 2 * e /\ e > 0
  BY <1>1
<1> HIDE DEF e
<1>3. q \in Nat /\ q > 0
  BY <1>1
<1>4. SectionSize = q * Side
  BY DEF SectionSize
<1>5. SectionSize = Side * q
  BY <1>1, <1>3, <1>4
<1> HIDE DEF q
<1>6. SectionSize = 2 * (e * q) /\ e * q \in Nat /\ e * q > 0
  BY <1>2, <1>3, <1>5
<1> DEFINE h == e * q
<1>7. SectionSize = 2 * h /\ h \in Nat /\ h > 0
  BY <1>6
<1> HIDE DEF h
<1>8. HalfSize = h
  BY <1>7 DEF HalfSize
<1>9. ChunkSize = Sections * SectionSize /\ ChunkSize = 2 * (Sections * h)
  <2>1. ChunkSize = SectionSize * Sections
    BY DEF ChunkSize
  <2> QED
    BY <1>1, <1>7, <2>1
<1> DEFINE g == Sections * h
<1>10. g \in Nat
  BY <1>1, <1>7
<1>11. ChunkSize = 2 * g
  BY <1>9
<1> HIDE DEF g
<1>12. ChunkSize \div 2 = g /\ ChunkSize \in Nat
  BY <1>10, <1>11
<1> QED
  BY <1>1, <1>3, <1>5, <1>7, <1>8, <1>9, <1>10, <1>12 DEF q, g

\* The loops over y, z and x go through a section in the order of the arrays.
LEMMA IdxAtIs ==
  ASSUME NEW s \in Nat, NEW i \in 0..SectionSize - 1
  PROVE  IdxAt(s, i) = s * SectionSize + i
<1> DEFINE q == i \div Side
           x == i % Side
           y == q \div Side
           z == q % Side
<1>1. i \in Nat /\ Side \in Nat /\ Side > 0 /\ SectionSize = Side * (Side * Side)
  BY Sizes
<1>2. q \in Nat /\ x \in Nat /\ i = q * Side + x
  BY <1>1, Division
<1>3. y \in Nat /\ z \in Nat /\ q = y * Side + z
  <2> HIDE DEF q
  <2> QED
    BY <1>1, <1>2, Division
<1>4. i \div (Side * Side) = y
  BY <1>1, DivisionStep
<1>5. IdxAt(s, i) = ((s * Side + y) * Side + z) * Side + x
  BY <1>4 DEF IdxAt, CellAt, ChunkIdx
<1> HIDE DEF q, x, y, z
<1>6. ((s * Side + y) * Side + z) * Side + x
        = s * (Side * (Side * Side)) + ((y * Side + z) * Side + x)
  <2>1. (s * Side + y) * Side = s * (Side * Side) + y * Side
    BY <1>1, <1>3
  <2> DEFINE A == Side * Side
             b == y * Side + z
  <2>2. A \in Nat /\ b \in Nat
    BY <1>1, <1>3
  <2>3. (s * Side + y) * Side + z = s * A + b
    BY <1>1, <1>2, <1>3, <2>1
  <2>4. (s * A + b) * Side + x = s * (Side * A) + (b * Side + x)
    <3> HIDE DEF A, b
    <3> QED
      BY <1>1, <1>2, <2>2
  <2> QED
    BY <2>3, <2>4
<1> QED
  BY <1>1, <1>2, <1>3, <1>5, <1>6

\* Two nibbles make a byte, and a byte is two nibbles.
LEMMA NibbleType ==
  /\ Nibble \in Nat /\ Nibble > 0
  /\ \A a, b \in 0..Nibble - 1 :
       /\ a + b * Nibble \in Byte
       /\ (a + b * Nibble) % Nibble = a /\ (a + b * Nibble) \div Nibble = b
  /\ \A p \in Byte :
       /\ p % Nibble \in 0..Nibble - 1 /\ p \div Nibble \in 0..Nibble - 1
       /\ (p % Nibble) + (p \div Nibble) * Nibble = p
<1>1. Nibble \in Nat /\ Nibble > 0 /\ Nibble * Nibble = Radix
  <2>1. \E n \in 1..Radix : n * n = Radix
    BY ChunkAssumption
  <2>2. Nibble \in 1..Radix /\ Nibble * Nibble = Radix
    BY <2>1, Zenon DEF Nibble
  <2> QED
    BY <2>2, RadixType
<1> DEFINE w == Nibble
<1> HIDE DEF w
<1>2. ASSUME NEW a \in 0..w - 1, NEW b \in 0..w - 1
      PROVE  /\ a + b * w \in Byte /\ (a + b * w) % w = a /\ (a + b * w) \div w = b
  <2>1. a \in Nat /\ b \in Nat /\ w \in Nat /\ w > 0 /\ a < w /\ b + 1 <= w
    BY <1>1 DEF w
  <2>2. (b + 1) * w <= w * w /\ (b + 1) * w = b * w + w
    BY <2>1
  <2>3. a + b * w \in Nat /\ a + b * w < w * w
    BY <2>1, <2>2
  <2>4. a + b * w \in Byte
    BY <1>1, <2>3, RadixType DEF w
  <2> DEFINE n == a + b * w
  <2>5. n \in Int /\ n = b * w + a /\ b \in Int
    BY <2>1
  <2> HIDE DEF n
  <2>6. b = n \div w /\ a = n % w
    BY <2>1, <2>5, DivisionUnique
  <2> QED
    BY <2>4, <2>6 DEF n
<1>3. ASSUME NEW p \in Byte
      PROVE  /\ p % w \in 0..w - 1 /\ p \div w \in 0..w - 1
             /\ (p % w) + (p \div w) * w = p
  <2>1. p \in Nat /\ p < w * w /\ w \in Nat /\ w > 0
    BY <1>1, RadixType DEF w
  <2> DEFINE q == p \div w
             r == p % w
  <2>2. q \in Nat /\ r \in Nat /\ r < w /\ p = q * w + r
    BY <2>1, Division
  <2> HIDE DEF q, r
  <2>3. q < w
    <3> SUFFICES ASSUME q >= w PROVE FALSE
      BY <2>1, <2>2
    <3>1. w * w <= q * w
      BY <2>1, <2>2
    <3> QED
      BY <2>1, <2>2, <3>1
  <2>4. q \in 0..w - 1 /\ r \in 0..w - 1 /\ r + q * w = p
    BY <2>1, <2>2, <2>3
  <2> QED
    BY <2>4 DEF q, r
<1> QED
  BY <1>1, <1>2, <1>3 DEF w

\* An array of pairs with n nibbles put over it, from the one at base on.
Over(a, base, v, n) ==
  [k \in DOMAIN a |->
     (IF 2 * k \in base..base + n - 1 THEN v[2 * k - base] ELSE a[k] % Nibble)
       + (IF 2 * k + 1 \in base..base + n - 1 THEN v[2 * k + 1 - base]
                                              ELSE a[k] \div Nibble) * Nibble]

\* Putting none changes nothing ...
LEMMA OverNone ==
  ASSUME NEW h \in Nat, NEW a \in [0..h - 1 -> Byte], NEW base \in Nat, NEW v
  PROVE  Over(a, base, v, 0) = a
<1>1. ASSUME NEW k \in 0..h - 1
      PROVE  Over(a, base, v, 0)[k] = a[k]
  <2>1. 2 * k \notin base..base + 0 - 1 /\ 2 * k + 1 \notin base..base + 0 - 1
    OBVIOUS
  <2>2. Over(a, base, v, 0)[k] = (a[k] % Nibble) + (a[k] \div Nibble) * Nibble
    BY <2>1, Zenon DEF Over
  <2> QED
    BY <2>2, NibbleType
<1>2. DOMAIN a = 0..h - 1 /\ Over(a, base, v, 0) = [k \in 0..h - 1 |-> Over(a, base, v, 0)[k]]
  BY DEF Over
<1> QED
  BY <1>1, <1>2

\* ... and SetNibble puts one more.
LEMMA OverOneMore ==
  ASSUME NEW h \in Nat, NEW a \in [0..h - 1 -> Byte], NEW base \in Nat,
         NEW n \in Nat, base + n < 2 * h,
         NEW v, \A i \in 0..n : v[i] \in 0..Nibble - 1
  PROVE  SetNibble(Over(a, base, v, n), base + n, v[n]) = Over(a, base, v, n + 1)
<1> DEFINE o == Over(a, base, v, n)
           p == Over(a, base, v, n + 1)
           j == base + n
           m == j \div 2
           Low(k, c) == IF 2 * k \in base..base + c - 1
                          THEN v[2 * k - base] ELSE a[k] % Nibble
           High(k, c) == IF 2 * k + 1 \in base..base + c - 1
                           THEN v[2 * k + 1 - base] ELSE a[k] \div Nibble
<1>1. DOMAIN o = 0..h - 1 /\ DOMAIN p = 0..h - 1
  BY DEF Over
<1>2. \A k \in 0..h - 1 : /\ o[k] = Low(k, n) + High(k, n) * Nibble
                          /\ p[k] = Low(k, n + 1) + High(k, n + 1) * Nibble
  BY DEF Over
<1>3. ASSUME NEW k \in 0..h - 1, NEW c \in 0..n + 1
      PROVE  Low(k, c) \in 0..Nibble - 1 /\ High(k, c) \in 0..Nibble - 1
  <2>1. a[k] % Nibble \in 0..Nibble - 1 /\ a[k] \div Nibble \in 0..Nibble - 1
    BY NibbleType
  <2>2. 2 * k \in base..base + c - 1 => v[2 * k - base] \in 0..Nibble - 1
    OBVIOUS
  <2>3. 2 * k + 1 \in base..base + c - 1 => v[2 * k + 1 - base] \in 0..Nibble - 1
    OBVIOUS
  <2> QED
    BY <2>1, <2>2, <2>3
<1>4. m \in 0..h - 1 /\ m \in Nat /\ j \in Nat
      /\ (j % 2 = 1 => j = 2 * m + 1) /\ (j % 2 # 1 => j = 2 * m)
  OBVIOUS
<1>5. ASSUME NEW k \in 0..h - 1, 2 * k # j
      PROVE  Low(k, n + 1) = Low(k, n)
  <2>1. 2 * k \in base..base + (n + 1) - 1 <=> 2 * k \in base..base + n - 1
    BY <1>5
  <2> QED
    BY <2>1, Zenon
<1>6. ASSUME NEW k \in 0..h - 1, 2 * k + 1 # j
      PROVE  High(k, n + 1) = High(k, n)
  <2>1. 2 * k + 1 \in base..base + (n + 1) - 1 <=> 2 * k + 1 \in base..base + n - 1
    BY <1>6
  <2> QED
    BY <2>1, Zenon
<1>7. ASSUME NEW k \in 0..h - 1, 2 * k = j
      PROVE  Low(k, n + 1) = v[n]
  <2>1. 2 * k \in base..base + (n + 1) - 1 /\ 2 * k - base = n
    BY <1>7
  <2> QED
    BY <2>1, Zenon
<1>8. ASSUME NEW k \in 0..h - 1, 2 * k + 1 = j
      PROVE  High(k, n + 1) = v[n]
  <2>1. 2 * k + 1 \in base..base + (n + 1) - 1 /\ 2 * k + 1 - base = n
    BY <1>8
  <2> QED
    BY <2>1, Zenon
<1> DEFINE s == SetNibble(o, j, v[n])
<1>9. /\ DOMAIN s = 0..h - 1
      /\ s[m] = IF j % 2 = 1 THEN (o[m] % Nibble) + v[n] * Nibble
                             ELSE (o[m] - (o[m] % Nibble)) + v[n]
      /\ \A k \in 0..h - 1 : k # m => s[k] = o[k]
  BY <1>1, <1>4 DEF SetNibble
<1> HIDE DEF s, o, p, m, j, Low, High
<1>10. n \in 0..n + 1 /\ n + 1 \in 0..n + 1 /\ n \in 0..n
  OBVIOUS
<1>11. ASSUME NEW k \in 0..h - 1
       PROVE  s[k] = p[k]
  <2> DEFINE l == Low(k, n)
             u == High(k, n)
  <2>4. l \in 0..Nibble - 1 /\ u \in 0..Nibble - 1 /\ o[k] = l + u * Nibble
    BY <1>2, <1>3, <1>10
  <2> HIDE DEF l, u
  <2>5. o[k] % Nibble = l
    BY <2>4, NibbleType
  <2>6. l \in Int /\ u * Nibble \in Int /\ v[n] \in Int
    <3>1. u \in Int /\ Nibble \in Int /\ l \in Int
      BY <2>4, NibbleType
    <3>2. v[n] \in Int
      BY <1>10, NibbleType
    <3> QED
      BY <3>1, <3>2
  <2>1. CASE k # m
    <3>1. 2 * k # j /\ 2 * k + 1 # j
      BY <1>4, <2>1
    <3> QED
      BY <1>2, <1>5, <1>6, <1>9, <2>1, <3>1
  <2>2. CASE k = m /\ j % 2 = 1
    <3>1. 2 * k + 1 = j /\ 2 * k # j
      BY <1>4, <2>2
    <3>2. s[k] = (o[k] % Nibble) + v[n] * Nibble
      BY <1>9, <2>2
    <3>3. p[k] = l + v[n] * Nibble
      BY <1>2, <1>5, <1>8, <3>1 DEF l
    <3> QED
      BY <2>5, <3>2, <3>3
  <2>3. CASE k = m /\ j % 2 # 1
    <3>1. 2 * k = j /\ 2 * k + 1 # j
      BY <1>4, <2>3
    <3>2. s[k] = (o[k] - (o[k] % Nibble)) + v[n]
      BY <1>9, <2>3
    <3>3. p[k] = v[n] + u * Nibble
      BY <1>2, <1>6, <1>7, <3>1 DEF u
    <3> DEFINE g == u * Nibble
    <3>4. o[k] = l + g /\ g \in Int /\ p[k] = v[n] + g
      BY <2>4, <2>6, <3>3
    <3> HIDE DEF g
    <3> QED
      BY <2>5, <2>6, <3>2, <3>4
  <2> QED
    BY <2>1, <2>2, <2>3
<1>12. s = [k \in 0..h - 1 |-> s[k]] /\ p = [k \in 0..h - 1 |-> p[k]]
  BY <1>1, <1>9 DEF s, p, SetNibble, Over
<1> QED
  BY <1>11, <1>12 DEF s, o, p, j

\* So many nibbles, and the room there is for them.
NibblesOK(v, n) == \A i \in 0..n - 1 : v[i] \in 0..Nibble - 1
Room(h, base, n) == base + n <= 2 * h
ArrayOK(a, h) == a \in [0..h - 1 -> Byte]

\* The steps of a loop that puts nibbles.
LEMMA OverSteps ==
  ASSUME NEW h \in Nat, NEW a, ArrayOK(a, h), NEW base \in Nat,
         NEW n \in Nat, Room(h, base, n), NEW v, NibblesOK(v, n)
  PROVE  /\ Over(a, base, v, 0) = a
         /\ \A i \in 1..n : Over(a, base, v, i) =
              SetNibble(Over(a, base, v, i - 1), base + (i - 1), v[i - 1])
<1>0. /\ a \in [0..h - 1 -> Byte] /\ base + n <= 2 * h
      /\ \A i \in 0..n - 1 : v[i] \in 0..Nibble - 1
  BY DEF ArrayOK, Room, NibblesOK
<1>1. ASSUME NEW i \in 1..n
      PROVE  Over(a, base, v, i) =
               SetNibble(Over(a, base, v, i - 1), base + (i - 1), v[i - 1])
  <2> DEFINE m == i - 1
  <2>1. m \in Nat /\ i = m + 1 /\ base + m < 2 * h
    BY <1>0
  <2>2. \A l \in 0..m : v[l] \in 0..Nibble - 1
    BY <1>0
  <2> HIDE DEF m
  <2>3. SetNibble(Over(a, base, v, m), base + m, v[m]) = Over(a, base, v, m + 1)
    BY <1>0, <2>1, <2>2, OverOneMore
  <2> QED
    BY <2>1, <2>3 DEF m
<1> QED
  BY <1>0, <1>1, OverNone

\* The nibbles of a section are packed as they are in the chunk's array.
LEMMA PackedIs ==
  ASSUME NEW source \in Halves, NEW s \in 0..Sections - 1, NEW fill \in Byte
  PROVE  Packed(source, s, fill) =
           [k \in 1..HalfSize |-> Cast(source[s * HalfSize + (k - 1)], 1)]
<1> DEFINE n == SectionSize
           a == [h \in 0..n \div 2 - 1 |-> fill]
           v == [i \in 0..n - 1 |-> GetNibble(source, IdxAt(s, i))]
           E(g) == [i \in 0..n |->
             IF i = 0
               THEN a
               ELSE SetNibble(g[i - 1], i - 1, GetNibble(source, IdxAt(s, i - 1)))]
           f == CHOOSE g : g = E(g)
           W == [i \in 0..n |-> Over(a, 0, v, i)]
<1>1. /\ n \in Nat /\ n = 2 * HalfSize /\ n \div 2 = HalfSize /\ HalfSize \in Nat
      /\ s \in Nat /\ s * HalfSize \in Nat
      /\ s * HalfSize + HalfSize <= ChunkSize \div 2
      /\ source \in [0..ChunkSize \div 2 - 1 -> Byte]
  <2>1. s \in Nat /\ Sections \in Nat /\ s + 1 <= Sections /\ HalfSize \in Nat
    BY Sizes
  <2>2. (s + 1) * HalfSize <= Sections * HalfSize
    BY <2>1, Times
  <2>3. (s + 1) * HalfSize = s * HalfSize + HalfSize /\ s * HalfSize \in Nat
    BY <2>1
  <2> QED
    BY <2>1, <2>2, <2>3, Sizes DEF HalfSize, Halves
<1>2. ASSUME NEW k \in 0..HalfSize - 1
      PROVE  /\ v[2 * k] = source[s * HalfSize + k] % Nibble
             /\ v[2 * k + 1] = source[s * HalfSize + k] \div Nibble
             /\ source[s * HalfSize + k] \in Byte
  <2> DEFINE m == s * HalfSize + k
  <2>1. m \in 0..ChunkSize \div 2 - 1 /\ m \in Nat
    <3> DEFINE g == s * HalfSize
               c == ChunkSize \div 2
    <3>1. g \in Nat /\ g + HalfSize <= c /\ c \in Nat /\ HalfSize \in Nat
      BY <1>1, Sizes
    <3> HIDE DEF g, c
    <3>2. g + k \in 0..c - 1 /\ g + k \in Nat
      BY <3>1
    <3> QED
      BY <3>2 DEF g, c
  <2>2. 2 * k \in 0..n - 1 /\ 2 * k + 1 \in 0..n - 1
    BY <1>1
  <2>3. s * n + 2 * k = 2 * m /\ s * n + (2 * k + 1) = 2 * m + 1
    <3>1. s * (2 * HalfSize) = 2 * (s * HalfSize)
      BY <1>1
    <3> DEFINE g == s * HalfSize
    <3>2. g \in Nat /\ s * n = 2 * g
      BY <1>1, <3>1
    <3> HIDE DEF g
    <3> QED
      BY <3>2 DEF g
  <2>4. IdxAt(s, 2 * k) = 2 * m /\ IdxAt(s, 2 * k + 1) = 2 * m + 1
    BY <1>1, <2>2, <2>3, IdxAtIs
  <2> HIDE DEF m
  <2>5. /\ (2 * m) % 2 # 1 /\ (2 * m + 1) % 2 = 1
        /\ (2 * m) \div 2 = m /\ (2 * m + 1) \div 2 = m
    BY <2>1
  <2>6. /\ GetNibble(source, 2 * m) = source[m] % Nibble
        /\ GetNibble(source, 2 * m + 1) = source[m] \div Nibble
    BY <2>5 DEF GetNibble
  <2>7. source[m] \in Byte
    BY <1>1, <2>1
  <2>8. /\ v[2 * k] = GetNibble(source, 2 * m)
        /\ v[2 * k + 1] = GetNibble(source, 2 * m + 1)
    BY <2>2, <2>4
  <2> HIDE DEF v
  <2> QED
    BY <2>6, <2>7, <2>8 DEF m
<1>3. \A i \in 0..n - 1 : v[i] \in 0..Nibble - 1
  <2> SUFFICES ASSUME NEW i \in 0..n - 1 PROVE v[i] \in 0..Nibble - 1
    OBVIOUS
  <2> DEFINE k == i \div 2
  <2>1. k \in 0..HalfSize - 1 /\ (i = 2 * k \/ i = 2 * k + 1)
    BY <1>1
  <2> HIDE DEF k, v
  <2>2. /\ v[2 * k] = source[s * HalfSize + k] % Nibble
        /\ v[2 * k + 1] = source[s * HalfSize + k] \div Nibble
        /\ source[s * HalfSize + k] \in Byte
    BY <1>2, <2>1
  <2> DEFINE b == source[s * HalfSize + k]
  <2>3. v[2 * k] = b % Nibble /\ v[2 * k + 1] = b \div Nibble /\ b \in Byte
    BY <2>2
  <2> HIDE DEF b
  <2>4. v[2 * k] \in 0..Nibble - 1 /\ v[2 * k + 1] \in 0..Nibble - 1
    BY <2>3, NibbleType
  <2> QED
    BY <2>1, <2>4
<1>4. a \in [0..HalfSize - 1 -> Byte]
  BY <1>1
<1>5. /\ W[0] = a
      /\ \A i \in 1..n : W[i] = SetNibble(W[i - 1], i - 1, v[i - 1])
  <2>1. \A i \in 1..n : /\ i \in 0..n /\ i - 1 \in 0..n /\ i - 1 \in Int
                        /\ 0 + (i - 1) = i - 1
    BY <1>1
  <2>2. 0 \in 0..n /\ 0 \in Nat /\ 0 + n <= 2 * HalfSize
    BY <1>1
  <2> HIDE DEF v, a
  <2>3. /\ Over(a, 0, v, 0) = a
        /\ \A i \in 1..n : Over(a, 0, v, i) =
             SetNibble(Over(a, 0, v, i - 1), 0 + (i - 1), v[i - 1])
    <3>1. n \in Nat /\ HalfSize \in Nat
      BY <1>1
    <3>2. NibblesOK(v, n) /\ ArrayOK(a, HalfSize) /\ Room(HalfSize, 0, n)
      BY <1>3, <1>4, <2>2 DEF NibblesOK, ArrayOK, Room
    <3> HIDE DEF n
    <3> QED
      BY <2>2, <3>1, <3>2, OverSteps
  <2> QED
    BY <2>1, <2>2, <2>3
<1>6. \A i \in 1..n : v[i - 1] = GetNibble(source, IdxAt(s, i - 1))
  <2>1. \A i \in 1..n : i - 1 \in 0..n - 1
    BY <1>1
  <2> QED
    BY <2>1
<1> HIDE DEF a, v
<1>7. W = E(W)
  <2>1. ASSUME NEW i \in 0..n
        PROVE  W[i] = IF i = 0 THEN a ELSE SetNibble(W[i - 1], i - 1,
                        GetNibble(source, IdxAt(s, i - 1)))
    <3>1. i # 0 => i \in 1..n
      BY <1>1
    <3> HIDE DEF W
    <3> QED
      BY <1>5, <1>6, <3>1
  <2>2. W = [i \in 0..n |-> W[i]]
    OBVIOUS
  <2> HIDE DEF W
  <2> QED
    BY <2>1, <2>2, Zenon
<1>8. f = E(f)
  <2> HIDE DEF E, W
  <2> QED
    BY <1>7
<1> HIDE DEF f, W
<1>9. f[n] = W[n]
  <2>1. f[0] = a /\ \A i \in 1..n : f[i] = SetNibble(f[i - 1], i - 1,
                                       GetNibble(source, IdxAt(s, i - 1)))
    <3>1. 0 \in 0..n /\ \A i \in 1..n : i \in 0..n /\ i # 0
      BY <1>1
    <3> QED
      BY <1>8, <3>1
  <2>2. f[0] = W[0] /\ \A i \in 1..n : f[i - 1] = W[i - 1] => f[i] = W[i]
    BY <1>5, <1>6, <2>1
  <2> HIDE DEF E
  <2> QED
    BY <1>1, <2>2, SameAnswer
<1>10. W[n] = Over(a, 0, v, n)
  <2>1. n \in 0..n
    BY <1>1
  <2> QED
    BY <2>1 DEF W
<1>11. ASSUME NEW k \in 1..HalfSize
       PROVE  W[n][k - 1] = source[s * HalfSize + (k - 1)]
  <2> DEFINE l == k - 1
  <2>1. l \in 0..HalfSize - 1
    BY <1>1
  <2>2. /\ 2 * l \in 0..0 + n - 1 /\ 2 * l + 1 \in 0..0 + n - 1
        /\ 2 * l - 0 = 2 * l /\ 2 * l + 1 - 0 = 2 * l + 1
    BY <1>1, <2>1
  <2>3. DOMAIN a = 0..HalfSize - 1
    BY <1>4
  <2> HIDE DEF l
  <2>4. Over(a, 0, v, n)[l] = v[2 * l] + v[2 * l + 1] * Nibble
    BY <2>1, <2>2, <2>3 DEF Over
  <2> DEFINE b == source[s * HalfSize + l]
  <2>5. v[2 * l] = b % Nibble /\ v[2 * l + 1] = b \div Nibble /\ b \in Byte
    BY <1>2, <2>1
  <2> HIDE DEF b
  <2>6. Over(a, 0, v, n)[l] = b
    BY <2>4, <2>5, NibbleType
  <2> QED
    BY <1>10, <2>6 DEF b, l
<1>12. Packed(source, s, fill) = Int8s(f[n], n \div 2)
  BY DEF Packed, f, a
<1> QED
  BY <1>1, <1>9, <1>11, <1>12 DEF Int8s

\* The two nibbles of a pair.
LEMMA NibblesOfPair ==
  ASSUME NEW array, NEW k \in Nat
  PROVE  /\ GetNibble(array, 2 * k) = array[k] % Nibble
         /\ GetNibble(array, 2 * k + 1) = array[k] \div Nibble
<1>1. /\ (2 * k) % 2 # 1 /\ (2 * k + 1) % 2 = 1
      /\ (2 * k) \div 2 = k /\ (2 * k + 1) \div 2 = k
  OBVIOUS
<1> QED
  BY <1>1 DEF GetNibble

\* Where section s begins and ends in an array of pairs.
LEMMA SectionInHalves ==
  ASSUME NEW s \in 0..Sections - 1
  PROVE  /\ s \in Nat /\ s * HalfSize \in Nat /\ HalfSize \in Nat /\ HalfSize > 0
         /\ s * SectionSize = 2 * (s * HalfSize) /\ SectionSize = 2 * HalfSize
         /\ s * HalfSize + HalfSize <= ChunkSize \div 2 /\ ChunkSize \div 2 \in Nat
<1>1. s \in Nat /\ Sections \in Nat /\ s + 1 <= Sections /\ HalfSize \in Nat
  BY Sizes
<1>2. (s + 1) * HalfSize <= Sections * HalfSize
  BY <1>1, Times
<1>3. (s + 1) * HalfSize = s * HalfSize + HalfSize /\ s * HalfSize \in Nat
  BY <1>1
<1>4. s * (2 * HalfSize) = 2 * (s * HalfSize)
  BY <1>1
<1> QED
  BY <1>1, <1>2, <1>3, <1>4, Sizes

\* What an array of pairs has in one section, taken from a sequence.
InSection(target, s, packed) ==
  [j \in 0..ChunkSize \div 2 - 1 |->
     IF j \in s * HalfSize..s * HalfSize + HalfSize - 1
       THEN packed[j - s * HalfSize + 1] % Radix ELSE target[j]]

\* The nibbles of a section are unpacked to where they belong.
LEMMA UnpackedIs ==
  ASSUME NEW target \in Halves, NEW s \in 0..Sections - 1,
         NEW packed \in Seq(SignedOf(1)), Len(packed) = HalfSize
  PROVE  Unpacked(target, s, packed) = InSection(target, s, packed)
<1> DEFINE n == SectionSize
           c == ChunkSize \div 2
           o == s * HalfSize
           bytes == [h \in 0..Len(packed) - 1 |-> packed[h + 1] % Radix]
           v == [i \in 0..n - 1 |-> GetNibble(bytes, i)]
           E(g) == [i \in 0..n |->
             IF i = 0 THEN target
             ELSE IF (i - 1) \div 2 < Len(packed)
               THEN SetNibble(g[i - 1], IdxAt(s, i - 1), GetNibble(bytes, i - 1))
               ELSE g[i - 1]]
           f == CHOOSE g : g = E(g)
           W == [i \in 0..n |-> Over(target, s * n, v, i)]
<1>1. /\ n \in Nat /\ n = 2 * HalfSize /\ HalfSize \in Nat /\ HalfSize > 0
      /\ s \in Nat /\ o \in Nat /\ s * n = 2 * o /\ c \in Nat
      /\ o + HalfSize <= c
      /\ target \in [0..c - 1 -> Byte]
  BY SectionInHalves DEF Halves
<1>2. ASSUME NEW k \in 0..HalfSize - 1
      PROVE  /\ v[2 * k] = bytes[k] % Nibble
             /\ v[2 * k + 1] = bytes[k] \div Nibble
             /\ bytes[k] \in Byte /\ bytes[k] = packed[k + 1] % Radix
  <2>1. k \in Nat /\ 2 * k \in 0..n - 1 /\ 2 * k + 1 \in 0..n - 1 /\ k + 1 \in 1..Len(packed)
    BY <1>1
  <2>2. packed[k + 1] \in Int
    BY <2>1, ElementOfSeq, CastBack, WordBytesType
  <2>3. bytes[k] = packed[k + 1] % Radix
    OBVIOUS
  <2>4. bytes[k] \in Byte
    BY <2>2, <2>3, RadixType
  <2> HIDE DEF bytes
  <2>5. v[2 * k] = GetNibble(bytes, 2 * k) /\ v[2 * k + 1] = GetNibble(bytes, 2 * k + 1)
    BY <2>1
  <2> HIDE DEF v
  <2> QED
    BY <2>1, <2>3, <2>4, <2>5, NibblesOfPair
<1>3. NibblesOK(v, n)
  <2> SUFFICES ASSUME NEW i \in 0..n - 1 PROVE v[i] \in 0..Nibble - 1
    BY DEF NibblesOK
  <2> DEFINE k == i \div 2
  <2>1. k \in 0..HalfSize - 1 /\ (i = 2 * k \/ i = 2 * k + 1)
    BY <1>1
  <2> HIDE DEF k, v, bytes
  <2> DEFINE b == bytes[k]
  <2>3. v[2 * k] = b % Nibble /\ v[2 * k + 1] = b \div Nibble /\ b \in Byte
    BY <1>2, <2>1
  <2> HIDE DEF b
  <2>4. v[2 * k] \in 0..Nibble - 1 /\ v[2 * k + 1] \in 0..Nibble - 1
    BY <2>3, NibbleType
  <2> QED
    BY <2>1, <2>4
<1>5. /\ W[0] = target
      /\ \A i \in 1..n : W[i] = SetNibble(W[i - 1], IdxAt(s, i - 1), v[i - 1])
  <2>1. \A i \in 1..n : /\ i \in 0..n /\ i - 1 \in 0..n /\ i - 1 \in 0..n - 1
    BY <1>1
  <2>2. 0 \in 0..n /\ s * n \in Nat /\ Room(c, s * n, n) /\ ArrayOK(target, c)
    BY <1>1 DEF Room, ArrayOK
  <2> HIDE DEF v
  <2>3. /\ Over(target, s * n, v, 0) = target
        /\ \A i \in 1..n : Over(target, s * n, v, i) =
             SetNibble(Over(target, s * n, v, i - 1), s * n + (i - 1), v[i - 1])
    <3>1. n \in Nat /\ c \in Nat
      BY <1>1
    <3> DEFINE base == s * n
    <3>2. base \in Nat /\ Room(c, base, n)
      BY <2>2
    <3> HIDE DEF n, c, base
    <3> QED
      BY <1>3, <2>2, <3>1, <3>2, OverSteps DEF base
  <2>4. \A i \in 1..n : IdxAt(s, i - 1) = s * n + (i - 1)
    BY <1>1, <2>1, IdxAtIs
  <2> QED
    BY <2>1, <2>2, <2>3, <2>4
<1>6. \A i \in 1..n : v[i - 1] = GetNibble(bytes, i - 1) /\ (i - 1) \div 2 < Len(packed)
  <2>1. \A i \in 1..n : i - 1 \in 0..n - 1 /\ (i - 1) \div 2 < HalfSize
    BY <1>1
  <2> QED
    BY <2>1
<1> HIDE DEF bytes, v
<1>7. W = E(W)
  <2>1. ASSUME NEW i \in 0..n
        PROVE  W[i] = IF i = 0 THEN target
                      ELSE IF (i - 1) \div 2 < Len(packed)
                        THEN SetNibble(W[i - 1], IdxAt(s, i - 1),
                                       GetNibble(bytes, i - 1))
                        ELSE W[i - 1]
    <3>1. i # 0 => i \in 1..n
      BY <1>1
    <3> HIDE DEF W
    <3> QED
      BY <1>5, <1>6, <3>1
  <2>2. W = [i \in 0..n |-> W[i]]
    OBVIOUS
  <2> HIDE DEF W
  <2> QED
    BY <2>1, <2>2, Zenon
<1>8. f = E(f)
  <2> HIDE DEF E, W
  <2> QED
    BY <1>7
<1> HIDE DEF f, W
<1>9. f[n] = W[n]
  <2>1. f[0] = target /\ \A i \in 1..n : f[i] = SetNibble(f[i - 1], IdxAt(s, i - 1),
                                            GetNibble(bytes, i - 1))
    <3>1. 0 \in 0..n /\ \A i \in 1..n : i \in 0..n /\ i # 0
      BY <1>1
    <3>2. f[0] = target
      BY <1>8, <3>1
    <3>3. ASSUME NEW i \in 1..n
          PROVE  f[i] = SetNibble(f[i - 1], IdxAt(s, i - 1), GetNibble(bytes, i - 1))
      <4>1. i \in 0..n /\ i # 0 /\ (i - 1) \div 2 < Len(packed)
        BY <1>6, <3>1
      <4> QED
        BY <1>8, <4>1
    <3> QED
      BY <3>2, <3>3
  <2>2. f[0] = W[0] /\ \A i \in 1..n : f[i - 1] = W[i - 1] => f[i] = W[i]
    BY <1>5, <1>6, <2>1
  <2> HIDE DEF E
  <2> QED
    BY <1>1, <2>2, SameAnswer
<1>10. W[n] = Over(target, s * n, v, n)
  <2>1. n \in 0..n
    BY <1>1
  <2> QED
    BY <2>1 DEF W
<1> HIDE DEF n
<1>11. ASSUME NEW j \in 0..c - 1
       PROVE  Over(target, s * n, v, n)[j] =
                IF j \in o..o + HalfSize - 1 THEN packed[j - o + 1] % Radix
                                             ELSE target[j]
  <2> DEFINE k == j - o
             base == s * n
  <2>1. DOMAIN target = 0..c - 1 /\ target[j] \in Byte
    BY <1>1
  <2>2. base \in Nat /\ n \in Nat /\ base = 2 * o /\ n = 2 * HalfSize /\ j \in Nat
    BY <1>1
  <2> HIDE DEF base, o, c
  <2>3. Over(target, base, v, n)[j] =
          (IF 2 * j \in base..base + n - 1 THEN v[2 * j - base] ELSE target[j] % Nibble)
             + (IF 2 * j + 1 \in base..base + n - 1 THEN v[2 * j + 1 - base]
                                                 ELSE target[j] \div Nibble) * Nibble
    BY <2>1, Zenon DEF Over
  <2>4. CASE j \in o..o + HalfSize - 1
    <3>1. /\ k \in 0..HalfSize - 1
          /\ 2 * j \in base..base + n - 1 /\ 2 * j + 1 \in base..base + n - 1
          /\ 2 * j - base = 2 * k /\ 2 * j + 1 - base = 2 * k + 1
      BY <1>1, <2>2, <2>4
    <3> HIDE DEF k
    <3>2. Over(target, base, v, n)[j] = v[2 * k] + v[2 * k + 1] * Nibble
      BY <2>3, <3>1
    <3> DEFINE b == bytes[k]
    <3>3. /\ v[2 * k] = b % Nibble /\ v[2 * k + 1] = b \div Nibble /\ b \in Byte
          /\ b = packed[k + 1] % Radix
      BY <1>2, <3>1
    <3> HIDE DEF b
    <3>4. Over(target, base, v, n)[j] = b
      BY <3>2, <3>3, NibbleType
    <3> QED
      BY <2>4, <3>3, <3>4 DEF k, base
  <2>5. CASE j \notin o..o + HalfSize - 1
    <3>1. 2 * j \notin base..base + n - 1 /\ 2 * j + 1 \notin base..base + n - 1
      BY <1>1, <2>2, <2>5
    <3>2. Over(target, base, v, n)[j] = (target[j] % Nibble) + (target[j] \div Nibble) * Nibble
      BY <2>3, <3>1
    <3> QED
      BY <2>1, <2>5, <3>2, NibbleType DEF base
  <2> QED
    BY <2>4, <2>5
<1>12. Over(target, s * n, v, n) = [j \in 0..c - 1 |-> Over(target, s * n, v, n)[j]]
  <2>1. DOMAIN target = 0..c - 1
    BY <1>1
  <2> HIDE DEF c
  <2> QED
    BY <2>1, Zenon DEF Over
<1>13. Unpacked(target, s, packed) = f[n]
  BY DEF Unpacked, f, bytes, n
<1>14. f[n] = Over(target, s * n, v, n)
  BY <1>9, <1>10
<1> HIDE DEF E
<1> QED
  BY <1>11, <1>12, <1>13, <1>14, Zenon DEF InSection

\* Where section s begins and ends in the array of blocks.
LEMMA SectionInBlocks ==
  ASSUME NEW s \in 0..Sections - 1
  PROVE  /\ s \in Nat /\ s * SectionSize \in Nat
         /\ SectionSize \in Nat /\ SectionSize > 0
         /\ s * SectionSize + SectionSize <= ChunkSize /\ ChunkSize \in Nat
<1>1. s \in Nat /\ Sections \in Nat /\ s + 1 <= Sections
      /\ SectionSize \in Nat /\ SectionSize > 0
  BY Sizes
<1>2. (s + 1) * SectionSize <= Sections * SectionSize
  BY <1>1, Times
<1>3. (s + 1) * SectionSize = s * SectionSize + SectionSize /\ s * SectionSize \in Nat
  BY <1>1
<1> QED
  BY <1>1, <1>2, <1>3, Sizes

\* The first n blocks of a section put over an array, from base on.
BlocksOver(target, base, b, n) ==
  [j \in 0..ChunkSize - 1 |->
     IF j \in base..base + n - 1 THEN b[j - base + 1] % Radix ELSE target[j]]

\* That one more block gives the next array.
BlockFits(target, base, b, n) ==
  [BlocksOver(target, base, b, n) EXCEPT ![base + n] = b[n + 1] % Radix]
    = BlocksOver(target, base, b, n + 1)

\* One more block.
LEMMA OneMoreBlock ==
  ASSUME NEW target, NEW base \in Nat, NEW b, NEW n \in Nat,
         base + n \in 0..ChunkSize - 1
  PROVE  BlockFits(target, base, b, n)
<1> DEFINE C == ChunkSize - 1
           A == BlocksOver(target, base, b, n)
           B == BlocksOver(target, base, b, n + 1)
           m == base + n
           x == b[n + 1] % Radix
<1>1. DOMAIN A = 0..C /\ DOMAIN B = 0..C
  BY DEF BlocksOver
<1>2. ASSUME NEW j \in 0..C
      PROVE  [A EXCEPT ![m] = x][j] = B[j]
  <2>1. A[j] = IF j \in base..base + n - 1 THEN b[j - base + 1] % Radix ELSE target[j]
    BY Zenon DEF BlocksOver
  <2>2. B[j] = IF j \in base..base + (n + 1) - 1 THEN b[j - base + 1] % Radix
                                                 ELSE target[j]
    BY Zenon DEF BlocksOver
  <2>3. CASE j = m
    <3>1. j \in base..base + (n + 1) - 1 /\ j - base + 1 = n + 1
      BY <2>3
    <3>2. [A EXCEPT ![m] = x][j] = x
      BY <1>1, <2>3
    <3> HIDE DEF A
    <3> QED
      BY <2>2, <3>1, <3>2
  <2>4. CASE j # m
    <3>1. j \in base..base + (n + 1) - 1 <=> j \in base..base + n - 1
      BY <2>4
    <3>2. [A EXCEPT ![m] = x][j] = A[j]
      BY <1>1, <2>4
    <3> HIDE DEF A
    <3> QED
      BY <2>1, <2>2, <3>1, <3>2
  <2> QED
    BY <2>3, <2>4
<1>3. /\ [A EXCEPT ![m] = x] = [j \in 0..C |-> [A EXCEPT ![m] = x][j]]
      /\ B = [j \in 0..C |-> B[j]]
  BY <1>1 DEF BlocksOver
<1> HIDE DEF A, B, C, m, x
<1>4. [A EXCEPT ![m] = x] = B
  <2> DEFINE D == [A EXCEPT ![m] = x]
  <2>1. D = [j \in 0..C |-> D[j]] /\ \A j \in 0..C : D[j] = B[j]
    BY <1>2, <1>3
  <2> HIDE DEF D
  <2>2. D = B
    BY <1>3, <2>1
  <2> QED
    BY <2>2 DEF D
<1> QED
  BY <1>4 DEF A, B, m, x, BlockFits

\* The blocks of a section are put where they belong.
LEMMA PutBlocksIs ==
  ASSUME NEW target \in [0..ChunkSize - 1 -> Byte], NEW section,
         NEW s \in 0..Sections - 1, SectionOf(section) = s, NEW b,
         Has(section, "Blocks"), Child(section, "Blocks").payload = b
  PROVE  PutBlocks(target, section) = BlocksOver(target, s * SectionSize, b, SectionSize)
<1> DEFINE n == SectionSize
           base == s * n
           E(g) == [i \in 0..n |->
             IF i = 0 THEN target
             ELSE [g[i - 1] EXCEPT ![IdxAt(SectionOf(section), i - 1)] =
                    Child(section, "Blocks").payload[i] % Radix]]
           f == CHOOSE g : g = E(g)
           W == [i \in 0..n |-> BlocksOver(target, base, b, i)]
<1>1. /\ n \in Nat /\ base \in Nat /\ s \in Nat /\ base + n <= ChunkSize
      /\ ChunkSize \in Nat
  BY SectionInBlocks
<1>2. ASSUME NEW i \in 1..n
      PROVE  /\ i \in 0..n /\ i - 1 \in 0..n /\ i # 0
             /\ IdxAt(SectionOf(section), i - 1) = base + (i - 1)
             /\ [BlocksOver(target, base, b, i - 1) EXCEPT ![base + (i - 1)] =
                    b[i] % Radix]
                  = BlocksOver(target, base, b, i)
  <2> DEFINE m == i - 1
  <2>1. /\ i \in 0..n /\ i - 1 \in 0..n /\ i # 0 /\ m \in 0..n - 1 /\ m \in Nat
        /\ i = m + 1
    BY <1>1
  <2>2. IdxAt(SectionOf(section), m) = base + m
    BY <1>1, <2>1, IdxAtIs
  <2>3. base + m \in 0..ChunkSize - 1
    <3> HIDE DEF n, base
    <3> QED
      BY <1>1, <2>1
  <2> HIDE DEF m, base
  <2>4. BlockFits(target, base, b, m)
    BY <1>1, <2>1, <2>3, OneMoreBlock
  <2> QED
    BY <2>1, <2>2, <2>4 DEF m, BlockFits
<1>3. BlocksOver(target, base, b, 0) = target
  <2>1. \A j \in 0..ChunkSize - 1 : j \notin base..base + 0 - 1
    BY <1>1
  <2> HIDE DEF base
  <2> QED
    BY <2>1 DEF BlocksOver
<1>4. /\ W[0] = target
      /\ \A i \in 1..n : W[i] = [W[i - 1] EXCEPT ![IdxAt(SectionOf(section), i - 1)] =
                                  Child(section, "Blocks").payload[i] % Radix]
  <2>1. 0 \in 0..n
    BY <1>1
  <2> HIDE DEF base, n
  <2> QED
    BY <1>2, <1>3, <2>1
<1>7. W = E(W)
  <2>1. ASSUME NEW i \in 0..n
        PROVE  W[i] = IF i = 0 THEN target
                      ELSE [W[i - 1] EXCEPT ![IdxAt(SectionOf(section), i - 1)] =
                              Child(section, "Blocks").payload[i] % Radix]
    <3>1. i # 0 => i \in 1..n
      BY <1>1
    <3> HIDE DEF W
    <3> QED
      BY <1>4, <3>1
  <2>2. W = [i \in 0..n |-> W[i]]
    OBVIOUS
  <2> HIDE DEF W
  <2> QED
    BY <2>1, <2>2, Zenon
<1>8. f = E(f)
  <2> HIDE DEF E, W
  <2> QED
    BY <1>7
<1> HIDE DEF f, W
<1>9. f[n] = W[n]
  <2>1. f[0] = target
        /\ \A i \in 1..n : f[i] = [f[i - 1] EXCEPT ![IdxAt(SectionOf(section), i - 1)] =
                                    Child(section, "Blocks").payload[i] % Radix]
    <3>1. 0 \in 0..n /\ \A i \in 1..n : i \in 0..n /\ i # 0
      BY <1>1
    <3> QED
      BY <1>8, <3>1
  <2>2. f[0] = W[0] /\ \A i \in 1..n : f[i - 1] = W[i - 1] => f[i] = W[i]
    BY <1>4, <2>1
  <2> HIDE DEF E
  <2> QED
    BY <1>1, <2>2, SameAnswer
<1>10. W[n] = BlocksOver(target, base, b, n)
  <2>1. n \in 0..n
    BY <1>1
  <2> QED
    BY <2>1 DEF W
<1>11. PutBlocks(target, section) = f[n]
  BY DEF PutBlocks, f
<1> QED
  BY <1>9, <1>10, <1>11

-----------------------------------------------------------------------------
(* The tags of a chunk.                                                    *)

\* A byte is what it was after a cast to int8_t and back.
LEMMA ByteCast ==
  /\ SignedOf(1) = -Base..Base - 1 /\ Base \in Nat /\ Base >= 2
  /\ \A b \in Byte : Cast(b, 1) \in SignedOf(1) /\ Cast(b, 1) % Radix = b
<1>1. Span[1] = Radix
  <2>1. Span[0 + 1] = Radix * Span[0] /\ Span[0] = 1
    BY SpanStep
  <2> QED
    BY <2>1, RadixType
<1>2. Base \in Nat /\ Base >= 2 /\ Radix = 2 * Base /\ Radix \div 2 = Base
  BY Constants DEF Radix
<1>3. SignedOf(1) = -Base..Base - 1
  BY <1>1, <1>2 DEF SignedOf
<1>4. ASSUME NEW b \in Byte
      PROVE  Cast(b, 1) \in SignedOf(1) /\ Cast(b, 1) % Radix = b
  <2>1. b \in UnsignedOf(1) /\ b \in 0..Radix - 1
    BY <1>1, RadixType DEF UnsignedOf
  <2>2. Cast(b, 1) % Radix = b
    BY <1>1, <2>1, CastBack, WordBytesType
  <2>3. b % Radix = b
    BY <2>1, RadixType
  <2>4. Cast(b, 1) = IF 2 * b < Radix THEN b ELSE b - Radix
    BY <1>1, <2>3 DEF Cast
  <2> QED
    BY <1>2, <1>3, <2>1, <2>2, <2>4
<1> QED
  BY <1>2, <1>3, <1>4

\* The lengths of the arrays in a chunk's NBT.
LEMMA ChunkLengths ==
  ASSUME NEW n \in Nat, n <= ChunkSize
  PROVE  n \in SignedOf(WordBytes)
<1> DEFINE h == Span[WordBytes] \div 2
<1>1. h \in Nat
  BY SpanEven, WordBytesType
<1>2. ChunkSize \in -h..h - 1
  BY ChunkAssumption DEF SignedOf
<1> HIDE DEF h
<1>3. n \in -h..h - 1
  BY <1>1, <1>2
<1> QED
  BY <1>3 DEF SignedOf, h

\* Each name has a byte of its own.
LEMMA KeysAre ==
  /\ Key("Level") = <<1>> /\ Key("xPos") = <<2>> /\ Key("zPos") = <<3>>
  /\ Key("TerrainPopulated") = <<4>> /\ Key("InhabitedTime") = <<5>>
  /\ Key("LastUpdate") = <<6>> /\ Key("Sections") = <<7>>
  /\ Key("Biomes") = <<8>> /\ Key("Entities") = <<9>>
  /\ Key("TileEntities") = <<10>> /\ Key("Y") = <<11>> /\ Key("Blocks") = <<12>>
  /\ Key("Data") = <<13>> /\ Key("BlockLight") = <<14>> /\ Key("SkyLight") = <<15>>
  /\ \A i \in 1..15 : <<i>> \in Range(Order) /\ <<i>> \in Names
<1> DEFINE K == Keys
<1>1. /\ DOMAIN K = 1..15
      /\ K[1] = "Level" /\ K[2] = "xPos" /\ K[3] = "zPos"
      /\ K[4] = "TerrainPopulated" /\ K[5] = "InhabitedTime"
      /\ K[6] = "LastUpdate" /\ K[7] = "Sections"
      /\ K[8] = "Biomes" /\ K[9] = "Entities"
      /\ K[10] = "TileEntities" /\ K[11] = "Y" /\ K[12] = "Blocks"
      /\ K[13] = "Data" /\ K[14] = "BlockLight" /\ K[15] = "SkyLight"
  BY DEF Keys
<1>2. \A i \in 1..15 : i = 1 \/ i = 2 \/ i = 3 \/ i = 4 \/ i = 5 \/ i = 6 \/ i = 7
        \/ i = 8 \/ i = 9 \/ i = 10 \/ i = 11 \/ i = 12 \/ i = 13 \/ i = 14 \/ i = 15
  OBVIOUS
<1>3. \A i, j \in 1..15 : K[i] = K[j] => i = j
  <2> HIDE DEF K
  <2> QED
    BY <1>1, <1>2
<1>4. ASSUME NEW i \in 1..15
      PROVE  Key(K[i]) = <<i>>
  <2>1. \A j \in DOMAIN K : K[j] = K[i] <=> j = i
    BY <1>1, <1>3
  <2> DEFINE c == CHOOSE j \in DOMAIN K : K[j] = K[i]
  <2>2. \E j \in DOMAIN K : K[j] = K[i]
    BY <1>1
  <2>3. c \in DOMAIN K /\ K[c] = K[i]
    BY <2>2, Zenon
  <2>4. Key(K[i]) = <<c>>
    BY DEF Key
  <2> HIDE DEF c, K
  <2> QED
    BY <2>1, <2>3, <2>4
<1>5. \A i \in 1..15 : <<i>> \in Range(Order) /\ <<i>> \in Names
  BY <1>1, KeysAssumption, EmptyLengths
<1> HIDE DEF K
<1> QED
  BY <1>1, <1>4, <1>5

\* A tag with no others inside it, from its parts.
LEMMA LeafMade ==
  ASSUME NEW type \in Types \ {"End"}, NEW n \in Names,
         NEW v \in LeafValues(type)
  PROVE  LET t == MakeTag(type, n, v) IN
         /\ TagOK(t) /\ Deep(t, 0)
         /\ t.type = type /\ t.name = n /\ t.payload = v
<1> DEFINE t == MakeTag(type, n, v)
<1>1. t.type = type /\ t.name = n /\ t.payload = v
  BY DEF MakeTag
<1>2. t = MakeTag(t.type, t.name, t.payload)
  BY <1>1
<1> HIDE DEF t
<1>3. t.type \in Types \ {"End"} /\ t.name \in Names
  BY <1>1
<1>4. t.payload \in LeafValues(t.type)
  BY <1>1
<1>5. Sound(t) /\ Deep(t, 0)
  BY <1>2, <1>3, <1>4, LeafSound
<1> QED
  BY <1>1, <1>5 DEF t, Sound

\* So many bytes of an array as they are stored.
Piece(a, from, n) == [i \in 1..n |-> Cast(a[from + (i - 1)], 1)]

\* They are numbers of type int8_t, and the bytes can be told from them.
LEMMA PieceType ==
  ASSUME NEW m \in Nat, NEW a, ArrayOK(a, m), NEW from \in Nat, NEW n \in Nat,
         from + n <= m
  PROVE  /\ Piece(a, from, n) \in Seq(SignedOf(1)) /\ Len(Piece(a, from, n)) = n
         /\ \A i \in 1..n : Piece(a, from, n)[i] % Radix = a[from + (i - 1)]
<1>1. ASSUME NEW i \in 1..n
      PROVE  a[from + (i - 1)] \in Byte
  <2>1. from + (i - 1) \in 0..m - 1
    OBVIOUS
  <2> QED
    BY <2>1 DEF ArrayOK
<1> DEFINE p == Piece(a, from, n)
<1>2. p = [i \in 1..n |-> Cast(a[from + (i - 1)], 1)]
  BY DEF Piece
<1>3. ASSUME NEW i \in 1..n
      PROVE  p[i] \in SignedOf(1) /\ p[i] % Radix = a[from + (i - 1)]
  <2> DEFINE b == a[from + (i - 1)]
  <2>1. b \in Byte /\ p[i] = Cast(b, 1)
    BY <1>1, <1>2
  <2> HIDE DEF b, p
  <2> QED
    BY <2>1, ByteCast DEF b
<1> HIDE DEF p
<1>4. p \in Seq(SignedOf(1)) /\ Len(p) = n
  <2>1. p = [i \in 1..n |-> p[i]]
    BY <1>2
  <2>2. \A i \in 1..n : p[i] \in SignedOf(1)
    BY <1>3
  <2> QED
    BY <2>1, <2>2
<1> QED
  BY <1>3, <1>4 DEF p

\* The arrays of a chunk and the names of their parts in a section.
ArrayKeys == {"Blocks", "Data", "BlockLight", "SkyLight"}

PieceOf(c, k, s) ==
  IF k = "Blocks" THEN Piece(c.blocks, s * SectionSize, SectionSize)
  ELSE IF k = "Data" THEN Piece(c.meta, s * HalfSize, HalfSize)
  ELSE IF k = "BlockLight" THEN Piece(c.blockLight, s * HalfSize, HalfSize)
  ELSE Piece(c.skyLight, s * HalfSize, HalfSize)

\* The arrays of a chunk.
LEMMA ChunkArrays ==
  ASSUME NEW c \in Chunk
  PROVE  /\ c = [blocks |-> c.blocks, meta |-> c.meta,
                 blockLight |-> c.blockLight, skyLight |-> c.skyLight]
         /\ c.blocks \in [0..ChunkSize - 1 -> Byte] /\ c.meta \in Halves
         /\ c.blockLight \in Halves /\ c.skyLight \in Halves
         /\ ArrayOK(c.blocks, ChunkSize) /\ ArrayOK(c.meta, ChunkSize \div 2)
         /\ ArrayOK(c.blockLight, ChunkSize \div 2)
         /\ ArrayOK(c.skyLight, ChunkSize \div 2)
BY DEF Chunk, Halves, ArrayOK

\* What a section has of each array.
LEMMA PiecesType ==
  ASSUME NEW c \in Chunk, NEW s \in 0..Sections - 1, NEW k \in ArrayKeys
  PROVE  /\ PieceOf(c, k, s) \in Seq(SignedOf(1))
         /\ Len(PieceOf(c, k, s)) = IF k = "Blocks" THEN SectionSize ELSE HalfSize
         /\ PieceOf(c, k, s) \in LeafValues("ByteArray")
<1> DEFINE p == PieceOf(c, k, s)
<1>1. /\ s * SectionSize \in Nat /\ SectionSize \in Nat
      /\ s * SectionSize + SectionSize <= ChunkSize /\ ChunkSize \in Nat
  BY SectionInBlocks
<1>2. /\ s * HalfSize \in Nat /\ HalfSize \in Nat
      /\ s * HalfSize + HalfSize <= ChunkSize \div 2 /\ ChunkSize \div 2 \in Nat
      /\ SectionSize = 2 * HalfSize
  BY SectionInHalves
<1>3. p \in Seq(SignedOf(1)) /\ Len(p) = IF k = "Blocks" THEN SectionSize ELSE HalfSize
  <2>1. CASE k = "Blocks"
    BY <1>1, <2>1, ChunkArrays, PieceType DEF PieceOf
  <2>2. CASE k = "Data"
    BY <1>2, <2>2, ChunkArrays, PieceType DEF PieceOf
  <2>3. CASE k = "BlockLight"
    BY <1>2, <2>3, ChunkArrays, PieceType DEF PieceOf
  <2>4. CASE k = "SkyLight"
    BY <1>2, <2>4, ChunkArrays, PieceType DEF PieceOf
  <2> QED
    BY <2>1, <2>2, <2>3, <2>4 DEF ArrayKeys
<1> HIDE DEF p
<1>4. Len(p) \in SignedOf(WordBytes)
  <2>1. SectionSize <= ChunkSize /\ HalfSize <= ChunkSize
    <3> DEFINE o == s * SectionSize
    <3>1. o \in Nat /\ o + SectionSize <= ChunkSize
      BY <1>1
    <3> HIDE DEF o
    <3> QED
      BY <1>1, <1>2, <3>1
  <2> QED
    BY <1>1, <1>2, <1>3, <2>1, ChunkLengths
<1>5. p \in LeafValues("ByteArray")
  BY <1>3, <1>4 DEF LeafValues
<1> QED
  BY <1>3, <1>5 DEF p

\* A section of c, with the arrays in G.
SectionHas(t, c, s, G) ==
  /\ Sound(t) /\ \A u \in Inner(t) : Deep(u, 0)
  /\ t.type = "Compound" /\ t.name = <<>>
  /\ Has(t, "Y") /\ Child(t, "Y").type = "Byte" /\ SectionOf(t) = s
  /\ \A k \in ArrayKeys : Has(t, k) <=> k \in G
  /\ \A k \in G : /\ Child(t, k).type = "ByteArray"
                  /\ Child(t, k).payload = PieceOf(c, k, s)

\* The arrays of a section as buildChunkNBT makes them.
LEMMA BuiltArrays ==
  ASSUME NEW c \in Chunk, NEW s \in 0..Sections - 1
  PROVE  /\ [i \in 1..SectionSize |-> Cast(c.blocks[IdxAt(s, i - 1)], 1)]
              = PieceOf(c, "Blocks", s)
         /\ Packed(c.meta, s, 0) = PieceOf(c, "Data", s)
         /\ Packed(c.blockLight, s, 0) = PieceOf(c, "BlockLight", s)
         /\ Packed(c.skyLight, s, Radix - 1) = PieceOf(c, "SkyLight", s)
<1>1. s \in Nat /\ SectionSize \in Nat
  BY SectionInBlocks
<1>2. \A i \in 1..SectionSize : IdxAt(s, i - 1) = s * SectionSize + (i - 1)
  <2>1. \A i \in 1..SectionSize : i - 1 \in 0..SectionSize - 1
    BY <1>1
  <2> QED
    BY <1>1, <2>1, IdxAtIs
<1>3. 0 \in Byte /\ Radix - 1 \in Byte
  BY RadixType
<1>4. c.meta \in Halves /\ c.blockLight \in Halves /\ c.skyLight \in Halves
  BY ChunkArrays
<1>5. [i \in 1..SectionSize |-> Cast(c.blocks[IdxAt(s, i - 1)], 1)]
        = PieceOf(c, "Blocks", s)
  BY <1>2 DEF PieceOf, Piece
<1>6. Packed(c.meta, s, 0) = PieceOf(c, "Data", s)
  BY <1>3, <1>4, PackedIs DEF PieceOf, Piece
<1>7. Packed(c.blockLight, s, 0) = PieceOf(c, "BlockLight", s)
  BY <1>3, <1>4, PackedIs DEF PieceOf, Piece
<1>8. Packed(c.skyLight, s, Radix - 1) = PieceOf(c, "SkyLight", s)
  BY <1>3, <1>4, PackedIs DEF PieceOf, Piece
<1> QED
  BY <1>5, <1>6, <1>7, <1>8

\* buildChunkNBT gives a section all of them.
LEMMA BuiltSection ==
  ASSUME NEW c \in Chunk, NEW s \in 0..Sections - 1
  PROVE  SectionHas(BuildSection(c, s), c, s, ArrayKeys)
<1> DEFINE P(k) == PieceOf(c, k, s)
           y == MakeTag("Byte", <<11>>, s)
           b == MakeTag("ByteArray", <<12>>, P("Blocks"))
           d == MakeTag("ByteArray", <<13>>, P("Data"))
           l == MakeTag("ByteArray", <<14>>, P("BlockLight"))
           h == MakeTag("ByteArray", <<15>>, P("SkyLight"))
           S == {y, b, d, l, h}
           t == BuildSection(c, s)
<1>1. t = MakeCompound(<<>>, S)
  BY BuiltArrays, KeysAre DEF BuildSection, Make
<1>2. /\ "Byte" \in Types \ {"End"} /\ "ByteArray" \in Types \ {"End"}
      /\ <<>> \in Names
  BY TypesAre, EmptyLengths
<1>3. s \in LeafValues("Byte")
  <2>1. s \in -Base..Base - 1
    BY ByteCast, ChunkAssumption
  <2> QED
    BY <2>1, ByteCast DEF LeafValues
<1>4. \A i \in {11, 12, 13, 14, 15} : <<i>> \in Range(Order) /\ <<i>> \in Names
  BY KeysAre
<1>5. /\ TagOK(y) /\ Deep(y, 0) /\ y.type = "Byte" /\ y.name = <<11>> /\ y.payload = s
  BY <1>2, <1>3, <1>4, LeafMade
<1>6. \A k \in ArrayKeys : P(k) \in LeafValues("ByteArray")
  BY PiecesType
<1>7. /\ TagOK(b) /\ Deep(b, 0) /\ b.type = "ByteArray" /\ b.name = <<12>>
      /\ b.payload = P("Blocks")
  <2>1. P("Blocks") \in LeafValues("ByteArray")
    BY <1>6 DEF ArrayKeys
  <2> HIDE DEF P
  <2> QED
    BY <1>2, <2>1, <1>4, LeafMade
<1>8. /\ TagOK(d) /\ Deep(d, 0) /\ d.type = "ByteArray" /\ d.name = <<13>>
      /\ d.payload = P("Data")
  <2>1. P("Data") \in LeafValues("ByteArray")
    BY <1>6 DEF ArrayKeys
  <2> HIDE DEF P
  <2> QED
    BY <1>2, <2>1, <1>4, LeafMade
<1>9. /\ TagOK(l) /\ Deep(l, 0) /\ l.type = "ByteArray" /\ l.name = <<14>>
      /\ l.payload = P("BlockLight")
  <2>1. P("BlockLight") \in LeafValues("ByteArray")
    BY <1>6 DEF ArrayKeys
  <2> HIDE DEF P
  <2> QED
    BY <1>2, <2>1, <1>4, LeafMade
<1>10. /\ TagOK(h) /\ Deep(h, 0) /\ h.type = "ByteArray" /\ h.name = <<15>>
       /\ h.payload = P("SkyLight")
  <2>1. P("SkyLight") \in LeafValues("ByteArray")
    BY <1>6 DEF ArrayKeys
  <2> HIDE DEF P
  <2> QED
    BY <1>2, <2>1, <1>4, LeafMade
<1> HIDE DEF P, y, b, d, l, h, t
<1>11. /\ \A u \in S : TagOK(u) /\ u.name \in Range(Order) /\ Deep(u, 0)
       /\ \A u, v \in S : u.name = v.name => u = v
  <2>1. \A u \in S : TagOK(u) /\ u.name \in Range(Order) /\ Deep(u, 0)
    BY <1>4, <1>5, <1>7, <1>8, <1>9, <1>10
  <2>2. \A i, j \in {11, 12, 13, 14, 15} : <<i>> = <<j>> => i = j
    OBVIOUS
  <2>3. \A u, v \in S : u.name = v.name => u = v
    BY <1>5, <1>7, <1>8, <1>9, <1>10, <2>2
  <2> QED
    BY <2>1, <2>3
<1>12. /\ Sound(t) /\ Inner(t) = S /\ t.type = "Compound" /\ t.name = <<>>
       /\ DOMAIN t.payload = {u.name : u \in S}
       /\ \A u \in S : t.payload[u.name] = u
  <2> HIDE DEF S
  <2> QED
    BY <1>1, <1>2, <1>11, CompoundSound
<1>13. /\ t.payload[<<11>>] = y /\ t.payload[<<12>>] = b /\ t.payload[<<13>>] = d
       /\ t.payload[<<14>>] = l /\ t.payload[<<15>>] = h
  BY <1>5, <1>7, <1>8, <1>9, <1>10, <1>12
<1>14. /\ Has(t, "Y") /\ Child(t, "Y") = y
       /\ Has(t, "Blocks") /\ Child(t, "Blocks") = b
       /\ Has(t, "Data") /\ Child(t, "Data") = d
       /\ Has(t, "BlockLight") /\ Child(t, "BlockLight") = l
       /\ Has(t, "SkyLight") /\ Child(t, "SkyLight") = h
  <2>1. \A i \in {11, 12, 13, 14, 15} : <<i>> \in DOMAIN t.payload
    BY <1>5, <1>7, <1>8, <1>9, <1>10, <1>12
  <2> HIDE DEF S
  <2> QED
    BY <1>13, <2>1, KeysAre DEF Has, Child
<1> HIDE DEF S
<1>15. \A k \in ArrayKeys : /\ Has(t, k) /\ Child(t, k).type = "ByteArray"
                            /\ Child(t, k).payload = P(k)
  BY <1>7, <1>8, <1>9, <1>10, <1>14 DEF ArrayKeys
<1>16. SectionOf(t) = s /\ Child(t, "Y").type = "Byte"
  BY <1>5, <1>14 DEF SectionOf
<1> QED
  BY <1>11, <1>12, <1>14, <1>15, <1>16 DEF SectionHas, t, P

\* Some of the tags of a Compound.
LEMMA PartSound ==
  ASSUME NEW t, Sound(t), t.type = "Compound", NEW D, D \subseteq DOMAIN t.payload
  PROVE  LET r == MakeTag("Compound", <<>>, [n \in D |-> t.payload[n]]) IN
         /\ Sound(r) /\ Inner(r) \subseteq Inner(t)
         /\ r.type = "Compound" /\ r.name = <<>> /\ DOMAIN r.payload = D
         /\ \A n \in D : r.payload[n] = t.payload[n]
<1> DEFINE f == [n \in D |-> t.payload[n]]
           r == MakeTag("Compound", <<>>, f)
<1>1. r.type = "Compound" /\ r.name = <<>> /\ r.payload = f
  BY DEF MakeTag
<1>2. DOMAIN f = D /\ \A n \in D : f[n] = t.payload[n]
  OBVIOUS
<1>3. /\ DOMAIN t.payload \subseteq Range(Order)
      /\ \A n \in DOMAIN t.payload : TagOK(t.payload[n]) /\ t.payload[n].name = n
  BY DEF Sound
<1>4. f \in [DOMAIN f -> Range(f)]
  BY DEF Range
<1>5. TagOK(r)
  <2>1. r = MakeTag(r.type, r.name, r.payload)
    BY <1>1
  <2> HIDE DEF r
  <2> QED
    BY <1>1, <2>1, TypesAre, EmptyLengths DEF TagOK
<1> HIDE DEF f, r
<1>6. Sound(r)
  BY <1>1, <1>2, <1>3, <1>4, <1>5 DEF Sound
<1>7. Inner(r) \subseteq Inner(t)
  BY <1>1, <1>2 DEF Inner, Range
<1> QED
  BY <1>1, <1>2, <1>6, <1>7 DEF r, f

\* A section of another program has those that it does not lack.
LEMMA StoredSection ==
  ASSUME NEW c \in Chunk, NEW l, l.y \in 0..Sections - 1, l.lacks \subseteq ArrayKeys
  PROVE  SectionHas(Stored(c, l), c, l.y, ArrayKeys \ l.lacks)
<1> DEFINE s == l.y
           t == BuildSection(c, s)
           lost == {Key(k) : k \in l.lacks}
           D == DOMAIN t.payload \ lost
           r == MakeTag("Compound", <<>>, [n \in D |-> t.payload[n]])
<1>1. SectionHas(t, c, s, ArrayKeys)
  BY BuiltSection
<1>2. Stored(c, l) = r
  BY DEF Stored
<1> HIDE DEF t
<1>3. /\ Sound(t) /\ t.type = "Compound" /\ \A u \in Inner(t) : Deep(u, 0)
  BY <1>1 DEF SectionHas
<1>4. D \subseteq DOMAIN t.payload
  OBVIOUS
<1> HIDE DEF D
<1>5. /\ Sound(r) /\ Inner(r) \subseteq Inner(t)
      /\ r.type = "Compound" /\ r.name = <<>> /\ DOMAIN r.payload = D
      /\ \A n \in D : r.payload[n] = t.payload[n]
  BY <1>3, <1>4, PartSound
<1> HIDE DEF r
<1>6. /\ Key("Y") \notin lost
      /\ \A k \in ArrayKeys : Key(k) \in lost <=> k \in l.lacks
  <2>1. \A i, j \in {11, 12, 13, 14, 15} : <<i>> = <<j>> => i = j
    OBVIOUS
  <2>2. \A k, m \in ArrayKeys : Key(k) = Key(m) => k = m
    BY <2>1, KeysAre DEF ArrayKeys
  <2>3. \A k \in ArrayKeys : Key(k) # Key("Y")
    BY <2>1, KeysAre DEF ArrayKeys
  <2> QED
    BY <2>2, <2>3
<1> HIDE DEF lost
<1>7. Has(r, "Y") /\ Child(r, "Y") = Child(t, "Y")
  BY <1>1, <1>5, <1>6 DEF SectionHas, Has, Child, D
<1>8. \A k \in ArrayKeys : /\ Has(r, k) <=> k \notin l.lacks
                           /\ k \notin l.lacks => Child(r, k) = Child(t, k)
  BY <1>1, <1>5, <1>6 DEF SectionHas, Has, Child, D
<1>9. /\ Child(t, "Y").type = "Byte" /\ Child(t, "Y").payload = s
      /\ \A k \in ArrayKeys : /\ Child(t, k).type = "ByteArray"
                              /\ Child(t, k).payload = PieceOf(c, k, s)
  BY <1>1 DEF SectionHas, SectionOf
<1> HIDE DEF s
<1> QED
  BY <1>2, <1>3, <1>5, <1>7, <1>8, <1>9 DEF SectionHas, SectionOf, s

\* In which section something stands.
LEMMA InSectionIs ==
  ASSUME NEW j \in Nat, NEW w \in Nat, w > 0, NEW s \in Nat
  PROVE  j \in s * w..s * w + w - 1 <=> j \div w = s
<1> DEFINE q == j \div w
           r == j % w
           o == s * w
<1>1. q \in Nat /\ r \in Nat /\ r < w /\ j = q * w + r
  BY Division
<1>2. ASSUME j \in o..o + w - 1
      PROVE  q = s
  <2> DEFINE d == j - o
  <2>1. o \in Nat
    OBVIOUS
  <2> HIDE DEF o, q
  <2>2. d \in Nat /\ d < w /\ j = o + d
    BY <1>2, <2>1
  <2> HIDE DEF d
  <2>3. j = s * w + d /\ j \in Int /\ s \in Int
    BY <2>2 DEF o
  <2>4. s = j \div w
    BY <2>2, <2>3, DivisionUnique
  <2> QED
    BY <2>4 DEF q
<1>3. ASSUME q = s
      PROVE  j \in o..o + w - 1
  <2>1. j = o + r
    BY <1>1, <1>3
  <2>2. o \in Nat
    OBVIOUS
  <2> HIDE DEF o, q, r
  <2> QED
    BY <1>1, <2>1, <2>2
<1> QED
  BY <1>2, <1>3

\* An array of a chunk, with the sections that T names from a and the others
\* from b.
MixedArray(a, b, k, w, size, T) ==
  [j \in 0..size - 1 |-> IF <<k, j \div w>> \in T THEN a[j] ELSE b[j]]

\* It is an array of a chunk.
LEMMA MixedType ==
  ASSUME NEW size \in Nat, NEW a \in [0..size - 1 -> Byte],
         NEW b \in [0..size - 1 -> Byte], NEW k, NEW w, NEW T
  PROVE  MixedArray(a, b, k, w, size, T) \in [0..size - 1 -> Byte]
BY DEF MixedArray

\* A section's nibbles are put into such an array.
LEMMA PutNibblesMixed ==
  ASSUME NEW c \in Chunk, NEW s \in 0..Sections - 1, NEW G, G \subseteq ArrayKeys,
         NEW t, SectionHas(t, c, s, G),
         NEW k \in ArrayKeys, k # "Blocks", NEW a \in Halves, NEW b \in Halves,
         PieceOf(c, k, s) = Piece(a, s * HalfSize, HalfSize), NEW T
  PROVE  PutNibbles(MixedArray(a, b, k, HalfSize, ChunkSize \div 2, T), t, k)
           = MixedArray(a, b, k, HalfSize, ChunkSize \div 2, T \cup (G \X {s}))
<1> DEFINE size == ChunkSize \div 2
           M == MixedArray(a, b, k, HalfSize, size, T)
           N == MixedArray(a, b, k, HalfSize, size, T \cup (G \X {s}))
           o == s * HalfSize
           p == PieceOf(c, k, s)
<1>1. /\ s \in Nat /\ o \in Nat /\ HalfSize \in Nat /\ HalfSize > 0
      /\ o + HalfSize <= size /\ size \in Nat
  BY SectionInHalves
<1>2. M = [j \in 0..size - 1 |-> M[j]] /\ N = [j \in 0..size - 1 |-> N[j]]
  BY DEF MixedArray
<1>3. ASSUME NEW j \in 0..size - 1
      PROVE  /\ M[j] = IF <<k, j \div HalfSize>> \in T THEN a[j] ELSE b[j]
             /\ N[j] = IF <<k, j \div HalfSize>> \in T \/ (k \in G /\ j \div HalfSize = s)
                         THEN a[j] ELSE b[j]
  BY Zenon DEF MixedArray
<1>4. CASE k \notin G
  <2>1. ~Has(t, k)
    BY <1>4 DEF SectionHas
  <2>2. PutNibbles(M, t, k) = M
    BY <2>1 DEF PutNibbles
  <2>3. \A j \in 0..size - 1 : M[j] = N[j]
    BY <1>3, <1>4
  <2> HIDE DEF M, N
  <2>4. M = N
    BY <1>2, <2>3
  <2> QED
    BY <2>2, <2>4 DEF M, N
<1>5. CASE k \in G
  <2>1. Has(t, k) /\ SectionOf(t) = s /\ Child(t, k).payload = p
    BY <1>5 DEF SectionHas
  <2>2. PutNibbles(M, t, k) = Unpacked(M, s, p)
    BY <2>1 DEF PutNibbles
  <2>3. p \in Seq(SignedOf(1)) /\ Len(p) = HalfSize
    BY PiecesType
  <2>4. M \in Halves
    <3> DEFINE n == ChunkSize \div 2
    <3>1. n \in Nat /\ a \in [0..n - 1 -> Byte] /\ b \in [0..n - 1 -> Byte]
      BY <1>1 DEF Halves
    <3> HIDE DEF n
    <3>2. MixedArray(a, b, k, HalfSize, n, T) \in [0..n - 1 -> Byte]
      BY <3>1, MixedType
    <3> QED
      BY <3>2 DEF Halves, n
  <2>5. ArrayOK(a, size)
    BY DEF Halves, ArrayOK
  <2> HIDE DEF M, N, p
  <2>6. Unpacked(M, s, p) = InSection(M, s, p)
    BY <2>3, <2>4, UnpackedIs
  <2>7. ASSUME NEW j \in 0..size - 1
        PROVE  (IF j \in o..o + HalfSize - 1 THEN p[j - o + 1] % Radix ELSE M[j]) = N[j]
    <3>1. j \in o..o + HalfSize - 1 <=> j \div HalfSize = s
      <4>1. j \in Nat
        BY <1>1
      <4> QED
        BY <1>1, <4>1, InSectionIs
    <3>2. CASE j \in o..o + HalfSize - 1
      <4> DEFINE i == j - o + 1
      <4>1. i \in 1..HalfSize /\ o + (i - 1) = j
        <5> HIDE DEF o
        <5> QED
          BY <1>1, <3>2
      <4>2. Piece(a, o, HalfSize)[i] % Radix = a[o + (i - 1)]
        <5> HIDE DEF i, o, size
        <5> QED
          BY <1>1, <2>5, <4>1, PieceType
      <4>3. p[i] % Radix = a[j]
        BY <4>1, <4>2 DEF p
      <4>4. N[j] = a[j]
        BY <1>3, <1>5, <3>1, <3>2
      <4> QED
        BY <3>2, <4>3, <4>4
    <3>3. CASE j \notin o..o + HalfSize - 1
      BY <1>3, <3>1, <3>3
    <3> QED
      BY <3>2, <3>3
  <2>8. InSection(M, s, p) = N
    BY <1>2, <2>7 DEF InSection
  <2> QED
    BY <2>2, <2>6, <2>8 DEF M, N
<1> QED
  BY <1>4, <1>5

\* An array of blocks is that of the chunk.
BlocksOf(a, c) == a = c.blocks

\* Its blocks are put likewise.
LEMMA PutBlocksMixed ==
  ASSUME NEW c \in Chunk, NEW s \in 0..Sections - 1, NEW G, G \subseteq ArrayKeys,
         NEW t, SectionHas(t, c, s, G),
         NEW k, k = "Blocks", NEW a, BlocksOf(a, c), NEW b, ArrayOK(b, ChunkSize),
         NEW T
  PROVE  PutBlocks(MixedArray(a, b, k, SectionSize, ChunkSize, T), t)
           = MixedArray(a, b, k, SectionSize, ChunkSize, T \cup (G \X {s}))
<1> DEFINE size == ChunkSize
           w == SectionSize
           M == MixedArray(a, b, k, w, size, T)
           N == MixedArray(a, b, k, w, size, T \cup (G \X {s}))
           o == s * w
           p == PieceOf(c, k, s)
<1>1. /\ s \in Nat /\ o \in Nat /\ w \in Nat /\ w > 0
      /\ o + w <= size /\ size \in Nat
  BY SectionInBlocks
<1>2. M = [j \in 0..size - 1 |-> M[j]] /\ N = [j \in 0..size - 1 |-> N[j]]
  BY DEF MixedArray
<1>3. ASSUME NEW j \in 0..size - 1
      PROVE  /\ M[j] = IF <<k, j \div w>> \in T THEN a[j] ELSE b[j]
             /\ N[j] = IF <<k, j \div w>> \in T \/ (k \in G /\ j \div w = s)
                         THEN a[j] ELSE b[j]
  BY Zenon DEF MixedArray
<1>4. CASE k \notin G
  <2>1. ~Has(t, k)
    BY <1>4 DEF SectionHas, ArrayKeys
  <2>2. PutBlocks(M, t) = M
    BY <2>1 DEF PutBlocks
  <2>3. \A j \in 0..size - 1 : M[j] = N[j]
    BY <1>3, <1>4
  <2> HIDE DEF M, N
  <2>4. M = N
    BY <1>2, <2>3
  <2> QED
    BY <2>2, <2>4 DEF M, N
<1>5. CASE k \in G
  <2>1. Has(t, k) /\ SectionOf(t) = s /\ Child(t, k).payload = p
    BY <1>5 DEF SectionHas, ArrayKeys
  <2>3. p = Piece(a, o, w) /\ ArrayOK(a, size) /\ a \in [0..size - 1 -> Byte]
    BY ChunkArrays DEF PieceOf, BlocksOf
  <2>4. M \in [0..size - 1 -> Byte]
    <3>1. b \in [0..size - 1 -> Byte]
      BY DEF ArrayOK
    <3> QED
      BY <1>1, <2>3, <3>1, MixedType
  <2> HIDE DEF M, N, p
  <2>6. PutBlocks(M, t) = BlocksOver(M, o, p, w)
    BY <2>1, <2>4, PutBlocksIs
  <2>7. ASSUME NEW j \in 0..size - 1
        PROVE  (IF j \in o..o + w - 1 THEN p[j - o + 1] % Radix ELSE M[j]) = N[j]
    <3>1. j \in o..o + w - 1 <=> j \div w = s
      <4>1. j \in Nat
        BY <1>1
      <4> HIDE DEF w
      <4> QED
        BY <1>1, <4>1, InSectionIs
    <3>2. CASE j \in o..o + w - 1
      <4> DEFINE i == j - o + 1
      <4>1. i \in 1..w /\ o + (i - 1) = j
        <5> HIDE DEF o, w
        <5> QED
          BY <1>1, <3>2
      <4>2. Piece(a, o, w)[i] % Radix = a[o + (i - 1)]
        <5>1. o \in Nat /\ w \in Nat /\ o + w <= size /\ size \in Nat
          BY <1>1
        <5>2. ArrayOK(a, size) /\ i \in 1..w
          BY <2>3, <4>1
        <5> HIDE DEF i, o, w, size
        <5> QED
          BY <5>1, <5>2, PieceType
      <4>3. p[i] % Radix = a[j]
        BY <2>3, <4>1, <4>2
      <4>4. N[j] = a[j]
        BY <1>3, <1>5, <3>1, <3>2
      <4> QED
        BY <3>2, <4>3, <4>4
    <3>3. CASE j \notin o..o + w - 1
      BY <1>3, <3>1, <3>3
    <3> QED
      BY <3>2, <3>3
  <2>8. BlocksOver(M, o, p, w) = N
    BY <1>2, <2>7 DEF BlocksOver
  <2> QED
    BY <2>6, <2>8 DEF M, N
<1> QED
  BY <1>4, <1>5

\* The chunk d with the sections of c that T names, each for one of the arrays.
Mixed(c, d, T) ==
  [blocks |-> MixedArray(c.blocks, d.blocks, "Blocks", SectionSize, ChunkSize, T),
   meta |-> MixedArray(c.meta, d.meta, "Data", HalfSize, ChunkSize \div 2, T),
   blockLight |-> MixedArray(c.blockLight, d.blockLight, "BlockLight", HalfSize,
                             ChunkSize \div 2, T),
   skyLight |-> MixedArray(c.skyLight, d.skyLight, "SkyLight", HalfSize,
                           ChunkSize \div 2, T)]

\* That a tag puts the sections G of c.
Puts(t, c, d, G) ==
  /\ ~SectionThrows(t)
  /\ \A T : PutSection(Mixed(c, d, T), t) = Mixed(c, d, T \cup G)

\* A section puts the arrays it has.
LEMMA SectionPuts ==
  ASSUME NEW c \in Chunk, NEW d \in Chunk, NEW s \in 0..Sections - 1,
         NEW G, G \subseteq ArrayKeys, NEW t, SectionHas(t, c, s, G)
  PROVE  Puts(t, c, d, G \X {s})
<1>1. ~SectionThrows(t)
  BY DEF SectionThrows, SectionHas, Expected, ArrayKeys
<1>2. ASSUME NEW T
      PROVE  PutSection(Mixed(c, d, T), t) = Mixed(c, d, T \cup (G \X {s}))
  <2> DEFINE M == Mixed(c, d, T)
             N == Mixed(c, d, T \cup (G \X {s}))
  <2>1. t.type = "Compound" /\ Has(t, "Y")
    BY DEF SectionHas
  <2>2. PutSection(M, t) =
          [blocks |-> PutBlocks(M.blocks, t), meta |-> PutNibbles(M.meta, t, "Data"),
           blockLight |-> PutNibbles(M.blockLight, t, "BlockLight"),
           skyLight |-> PutNibbles(M.skyLight, t, "SkyLight")]
    BY <2>1 DEF PutSection
  <2>3. PutBlocks(M.blocks, t) = N.blocks
    <3>1. ArrayOK(d.blocks, ChunkSize)
      BY ChunkArrays
    <3> DEFINE a == c.blocks
               b == d.blocks
               k == "Blocks"
    <3>2. M.blocks = MixedArray(a, b, k, SectionSize, ChunkSize, T)
          /\ N.blocks = MixedArray(a, b, k, SectionSize, ChunkSize, T \cup (G \X {s}))
      BY DEF Mixed
    <3>3. PutBlocks(MixedArray(a, b, k, SectionSize, ChunkSize, T), t)
            = MixedArray(a, b, k, SectionSize, ChunkSize, T \cup (G \X {s}))
      <4>1. k = "Blocks" /\ BlocksOf(a, c) /\ ArrayOK(b, ChunkSize)
        BY <3>1 DEF BlocksOf
      <4> HIDE DEF a, b, k
      <4> QED
        BY <4>1, PutBlocksMixed
    <3> HIDE DEF M, N
    <3> QED
      BY <3>2, <3>3
  <2>4. PutNibbles(M.meta, t, "Data") = N.meta
    <3>1. PieceOf(c, "Data", s) = Piece(c.meta, s * HalfSize, HalfSize)
      BY DEF PieceOf
    <3>2. "Data" \in ArrayKeys /\ c.meta \in Halves /\ d.meta \in Halves
      BY ChunkArrays DEF ArrayKeys
    <3> QED
      BY <3>1, <3>2, PutNibblesMixed DEF Mixed
  <2>5. PutNibbles(M.blockLight, t, "BlockLight") = N.blockLight
    <3>1. PieceOf(c, "BlockLight", s) = Piece(c.blockLight, s * HalfSize, HalfSize)
      BY DEF PieceOf
    <3>2. "BlockLight" \in ArrayKeys /\ c.blockLight \in Halves /\ d.blockLight \in Halves
      BY ChunkArrays DEF ArrayKeys
    <3> QED
      BY <3>1, <3>2, PutNibblesMixed DEF Mixed
  <2>6. PutNibbles(M.skyLight, t, "SkyLight") = N.skyLight
    <3>1. PieceOf(c, "SkyLight", s) = Piece(c.skyLight, s * HalfSize, HalfSize)
      BY DEF PieceOf
    <3>2. "SkyLight" \in ArrayKeys /\ c.skyLight \in Halves /\ d.skyLight \in Halves
      BY ChunkArrays DEF ArrayKeys
    <3> QED
      BY <3>1, <3>2, PutNibblesMixed DEF Mixed
  <2>7. N = [blocks |-> N.blocks, meta |-> N.meta,
             blockLight |-> N.blockLight, skyLight |-> N.skyLight]
    BY DEF Mixed
  <2> HIDE DEF M, N
  <2> QED
    BY <2>2, <2>3, <2>4, <2>5, <2>6, <2>7 DEF M, N
<1> QED
  BY <1>1, <1>2 DEF Puts

\* A Compound without a Y puts nothing.
LEMMA StrayPuts ==
  /\ Sound(Stray) /\ \A u \in Inner(Stray) : Deep(u, 0)
  /\ Stray.type = "Compound" /\ Stray.name = <<>>
  /\ \A c, d : Puts(Stray, c, d, {})
<1> DEFINE b == MakeTag("Byte", <<8>>, 1)
<1>1. Stray = MakeCompound(<<>>, {b})
  BY KeysAre DEF Stray, Make
<1>2. 1 \in LeafValues("Byte")
  <2>1. 1 \in -Base..Base - 1
    BY ByteCast
  <2> QED
    BY <2>1, ByteCast DEF LeafValues
<1>3. "Byte" \in Types \ {"End"} /\ <<8>> \in Names /\ <<8>> \in Range(Order)
      /\ <<>> \in Names
  <2>1. 8 \in 1..15
    OBVIOUS
  <2> QED
    BY <2>1, TypesAre, EmptyLengths, KeysAre
<1>4. TagOK(b) /\ Deep(b, 0) /\ b.name = <<8>>
  BY <1>2, <1>3, LeafMade
<1> HIDE DEF b
<1>5. /\ \A u \in {b} : TagOK(u) /\ u.name \in Range(Order)
      /\ \A u, v \in {b} : u.name = v.name => u = v
  BY <1>3, <1>4
<1> DEFINE S == {b}
<1>6. /\ Sound(Stray) /\ Inner(Stray) = S /\ Stray.type = "Compound"
      /\ Stray.name = <<>> /\ DOMAIN Stray.payload = {u.name : u \in S}
  <2> HIDE DEF S
  <2> QED
    BY <1>1, <1>3, <1>5, CompoundSound DEF S
<1>7. ~Has(Stray, "Y")
  <2>1. <<11>> # <<8>>
    OBVIOUS
  <2> QED
    BY <1>4, <1>6, <2>1, KeysAre DEF Has
<1>8. ASSUME NEW c, NEW d PROVE Puts(Stray, c, d, {})
  <2>1. ~SectionThrows(Stray)
    BY <1>7 DEF SectionThrows
  <2>2. \A chunk0 : PutSection(chunk0, Stray) = chunk0
    BY <1>7 DEF PutSection
  <2>3. \A T : T \cup {} = T
    OBVIOUS
  <2> QED
    BY <2>1, <2>2, <2>3 DEF Puts
<1> QED
  BY <1>4, <1>6, <1>8

\* Without a section an array is the other one, and with all of them the one.
NoneOrAll(a, b, k, w, size) ==
  /\ MixedArray(a, b, k, w, size, {}) = b
  /\ MixedArray(a, b, k, w, size, ArrayKeys \X (0..Sections - 1)) = a

\* So many bytes of each section make an array.
SizedBy(size, w) == w > 0 /\ size = Sections * w

\* So it is for each array ...
LEMMA MixedArrayEnds ==
  ASSUME NEW size \in Nat, NEW a, ArrayOK(a, size), NEW b, ArrayOK(b, size),
         NEW k \in ArrayKeys, NEW w \in Nat, SizedBy(size, w)
  PROVE  NoneOrAll(a, b, k, w, size)
<1>1. a = [j \in 0..size - 1 |-> a[j]] /\ b = [j \in 0..size - 1 |-> b[j]]
  BY DEF ArrayOK
<1>2. ASSUME NEW j \in 0..size - 1
      PROVE  j \div w \in 0..Sections - 1
  <2> DEFINE q == j \div w
             r == j % w
  <2>1. j \in Nat /\ Sections \in Nat /\ j < size /\ w > 0 /\ size = Sections * w
    BY Sizes DEF SizedBy
  <2>2. q \in Nat /\ r \in Nat /\ j = q * w + r
    BY <2>1, Division
  <2> HIDE DEF q, r
  <2>3. q < Sections
    <3> SUFFICES ASSUME q >= Sections PROVE FALSE
      BY <2>1, <2>2
    <3>1. Sections * w <= q * w
      BY <2>1, <2>2, Times
    <3> DEFINE e == Sections * w
               f == q * w
    <3>2. e \in Nat /\ f \in Nat /\ e <= f /\ j = f + r /\ j < e
      BY <2>1, <2>2, <3>1
    <3> HIDE DEF e, f
    <3> QED
      BY <2>2, <3>2
  <2> QED
    BY <2>1, <2>2, <2>3 DEF q
<1>3. MixedArray(a, b, k, w, size, {}) = [j \in 0..size - 1 |-> b[j]]
  BY DEF MixedArray
<1>4. MixedArray(a, b, k, w, size, ArrayKeys \X (0..Sections - 1))
        = [j \in 0..size - 1 |-> a[j]]
  BY <1>2 DEF MixedArray
<1> QED
  BY <1>1, <1>3, <1>4 DEF NoneOrAll

\* ... and for a chunk.
LEMMA MixedEnds ==
  ASSUME NEW c \in Chunk, NEW d \in Chunk
  PROVE  /\ Mixed(c, d, {}) = d
         /\ Mixed(c, d, ArrayKeys \X (0..Sections - 1)) = c
<1> DEFINE h == ChunkSize \div 2
<1>1. /\ c = [blocks |-> c.blocks, meta |-> c.meta,
              blockLight |-> c.blockLight, skyLight |-> c.skyLight]
      /\ d = [blocks |-> d.blocks, meta |-> d.meta,
              blockLight |-> d.blockLight, skyLight |-> d.skyLight]
  BY ChunkArrays
<1>2. /\ ChunkSize \in Nat /\ SectionSize \in Nat /\ SizedBy(ChunkSize, SectionSize)
      /\ h \in Nat /\ HalfSize \in Nat /\ SizedBy(h, HalfSize)
  BY Sizes DEF SizedBy
<1>3. /\ ArrayOK(c.blocks, ChunkSize) /\ ArrayOK(d.blocks, ChunkSize)
      /\ ArrayOK(c.meta, h) /\ ArrayOK(d.meta, h)
      /\ ArrayOK(c.blockLight, h) /\ ArrayOK(d.blockLight, h)
      /\ ArrayOK(c.skyLight, h) /\ ArrayOK(d.skyLight, h)
  BY ChunkArrays
<1>4. /\ "Blocks" \in ArrayKeys /\ "Data" \in ArrayKeys
      /\ "BlockLight" \in ArrayKeys /\ "SkyLight" \in ArrayKeys
  BY DEF ArrayKeys
<1> HIDE DEF h
<1>5. /\ NoneOrAll(c.blocks, d.blocks, "Blocks", SectionSize, ChunkSize)
      /\ NoneOrAll(c.meta, d.meta, "Data", HalfSize, h)
      /\ NoneOrAll(c.blockLight, d.blockLight, "BlockLight", HalfSize, h)
      /\ NoneOrAll(c.skyLight, d.skyLight, "SkyLight", HalfSize, h)
  BY <1>2, <1>3, <1>4, MixedArrayEnds
<1> QED
  BY <1>1, <1>5, Zenon DEF NoneOrAll, Mixed, h

\* A chunk's NBT with these sections.
RootHas(root, items) ==
  LET level == Child(root, "Level") IN
  /\ root.type = "Compound" /\ Has(root, "Level") /\ level.type = "Compound"
  /\ Has(level, "Sections") /\ Child(level, "Sections").type = "List"
  /\ Child(level, "Sections").payload = items

\* The sections are put one after the other.
LEMMA ParseIs ==
  ASSUME NEW c \in Chunk, NEW d \in Chunk, NEW n \in Nat, NEW items,
         Len(items) = n, DOMAIN items = 1..n, NEW root, RootHas(root, items),
         NEW gives, \A i \in 1..n : Puts(items[i], c, d, gives[i])
  PROVE  /\ ~ParseThrows(root)
         /\ ParseChunkNBT(root, d) = Mixed(c, d, UNION {gives[i] : i \in 1..n})
<1> DEFINE level == Child(root, "Level")
           sections == Child(level, "Sections").payload
           E(g) == [i \in 0..Len(sections) |->
                      IF i = 0 THEN d ELSE PutSection(g[i - 1], sections[i])]
           f == CHOOSE g : g = E(g)
           U(i) == UNION {gives[j] : j \in 1..i}
           W == [i \in 0..n |-> Mixed(c, d, U(i))]
<1>1. /\ root.type = "Compound" /\ Has(root, "Level") /\ level.type = "Compound"
      /\ Has(level, "Sections") /\ Child(level, "Sections").type = "List"
      /\ sections = items
  BY DEF RootHas
<1>2. ~ParseThrows(root)
  <2>1. \A i \in DOMAIN items : ~SectionThrows(items[i])
    BY DEF Puts
  <2> HIDE DEF level
  <2> QED
    BY <1>1, <2>1 DEF ParseThrows, level
<1>3. ParseChunkNBT(root, d) = f[Len(sections)]
  BY <1>1 DEF ParseChunkNBT, f
<1>4. W[0] = d
  <2>1. 0 \in 0..n /\ U(0) = {}
    OBVIOUS
  <2>2. W[0] = Mixed(c, d, {})
    BY <2>1
  <2>3. Mixed(c, d, {}) = d
    BY MixedEnds
  <2> HIDE DEF W
  <2> QED
    BY <2>2, <2>3
<1>5. \A i \in 1..n : W[i] = PutSection(W[i - 1], items[i])
  <2> SUFFICES ASSUME NEW i \in 1..n PROVE W[i] = PutSection(W[i - 1], items[i])
    OBVIOUS
  <2>1. i \in 0..n /\ i - 1 \in 0..n
    OBVIOUS
  <2>2. U(i) = U(i - 1) \cup gives[i]
    <3>1. 1..i = 1..(i - 1) \cup {i}
      OBVIOUS
    <3> QED
      BY <3>1
  <2> HIDE DEF U
  <2>3. PutSection(Mixed(c, d, U(i - 1)), items[i])
          = Mixed(c, d, U(i - 1) \cup gives[i])
    BY DEF Puts
  <2> QED
    BY <2>1, <2>2, <2>3
<1> HIDE DEF W, U, level, sections
<1>7. W = E(W)
  <2>1. ASSUME NEW i \in 0..Len(sections)
        PROVE  W[i] = IF i = 0 THEN d ELSE PutSection(W[i - 1], sections[i])
    <3>1. i # 0 => i \in 1..n
      BY <1>1
    <3> QED
      BY <1>1, <1>4, <1>5, <3>1
  <2>2. W = [i \in 0..Len(sections) |-> W[i]]
    BY <1>1 DEF W
  <2> QED
    BY <2>1, <2>2, Zenon
<1>8. f = E(f)
  <2> HIDE DEF E
  <2> QED
    BY <1>7
<1> HIDE DEF f
<1>9. f[n] = W[n]
  <2>1. f[0] = d /\ \A i \in 1..n : f[i] = PutSection(f[i - 1], items[i])
    <3>1. 0 \in 0..n /\ \A i \in 1..n : i \in 0..n /\ i # 0
      OBVIOUS
    <3> QED
      BY <1>1, <1>8, <3>1
  <2>2. f[0] = W[0] /\ \A i \in 1..n : f[i - 1] = W[i - 1] => f[i] = W[i]
    BY <1>4, <1>5, <2>1
  <2> HIDE DEF E
  <2> QED
    BY <2>2, SameAnswer
<1>10. W[n] = Mixed(c, d, U(n))
  <2>1. n \in 0..n
    OBVIOUS
  <2> QED
    BY <2>1 DEF W
<1> QED
  BY <1>1, <1>2, <1>3, <1>9, <1>10 DEF U

\* Tags that stand in the list of sections.
InSections(t) ==
  /\ Sound(t) /\ \A u \in Inner(t) : Deep(u, 0)
  /\ t.type = "Compound" /\ t.name = <<>>

\* The list of them.
LEMMA SectionsSound ==
  ASSUME NEW S, \A t \in S : InSections(t), NEW items \in Seq(S),
         Len(items) \in SignedOf(WordBytes)
  PROVE  LET l == Make("List", "Sections", items) IN
         /\ TagOK(l) /\ Deep(l, 2) /\ l.type = "List" /\ l.name = <<7>>
         /\ l.payload = items
<1> DEFINE l == MakeTag("List", <<7>>, items)
           type == "Compound"
<1>1. Make("List", "Sections", items) = l
  BY KeysAre DEF Make
<1>2. <<7>> \in Names
  <2>1. 7 \in 1..15
    OBVIOUS
  <2> QED
    BY <2>1, KeysAre
<1>3. ItemsOK(S, type)
  BY DEF ItemsOK, InSections, Sound
<1> DEFINE n == <<7>>
<1> HIDE DEF type, n
<1>4. /\ Sound(l) /\ Inner(l) = Range(items) /\ Range(items) \subseteq S
      /\ l.type = "List" /\ l.name = n /\ l.payload = items
  BY <1>2, <1>3, ListSound DEF n
<1> HIDE DEF l
<1>5. ASSUME NEW u \in Inner(l) PROVE Deep(u, 1)
  <2>1. Sound(u) /\ \A v \in Inner(u) : Deep(v, 0)
    BY <1>4 DEF InSections
  <2>2. 0 \in Nat /\ 0 + 1 = 1
    OBVIOUS
  <2>3. Deep(u, 0 + 1)
    BY <2>1, <2>2, DeepAround
  <2> QED
    BY <2>2, <2>3
<1>6. Deep(l, 2)
  <2>1. 1 \in Nat /\ 1 + 1 = 2
    OBVIOUS
  <2>2. Deep(l, 1 + 1)
    BY <1>4, <1>5, <2>1, DeepAround
  <2> QED
    BY <2>1, <2>2
<1> QED
  BY <1>1, <1>4, <1>6 DEF Sound, n

\* A Level with such a list, and what stands around it.
LEMMA RootSound ==
  ASSUME NEW tags, \A t \in tags : TagOK(t) /\ t.name \in Range(Order) /\ Deep(t, 2),
         \A t, u \in tags : t.name = u.name => t = u,
         NEW l \in tags, l.type = "List", l.name = << 7 >>
  PROVE  LET root == MakeCompound(<<>>, {MakeCompound(Key("Level"), tags)}) IN
         Deep(root, Nesting) /\ RootHas(root, l.payload)
<1> DEFINE n == Key("Level")
           level == MakeCompound(n, tags)
           S == {level}
           root == MakeCompound(<<>>, S)
<1>1. n = <<1>> /\ n \in Names /\ n \in Range(Order) /\ <<>> \in Names
  <2>1. 1 \in 1..15
    OBVIOUS
  <2> QED
    BY <2>1, KeysAre, EmptyLengths
<1> HIDE DEF n
<1>2. /\ Sound(level) /\ Inner(level) = tags
      /\ level.type = "Compound" /\ level.name = n
      /\ DOMAIN level.payload = {t.name : t \in tags}
      /\ \A t \in tags : level.payload[t.name] = t
  BY <1>1, CompoundSound
<1> HIDE DEF level
<1>3. /\ \A t \in S : TagOK(t) /\ t.name \in Range(Order)
      /\ \A t, u \in S : t.name = u.name => t = u
  BY <1>1, <1>2 DEF Sound
<1>4. /\ Sound(root) /\ Inner(root) = S
      /\ root.type = "Compound" /\ root.name = <<>>
      /\ DOMAIN root.payload = {t.name : t \in S}
      /\ \A t \in S : root.payload[t.name] = t
  <2> HIDE DEF S
  <2> QED
    BY <1>1, <1>3, CompoundSound
<1> HIDE DEF root
<1>5. Deep(level, 3)
  <2>1. 2 \in Nat /\ 2 + 1 = 3
    OBVIOUS
  <2>2. Deep(level, 2 + 1)
    BY <1>2, <2>1, DeepAround
  <2> QED
    BY <2>1, <2>2
<1>6. Deep(root, Nesting)
  <2>1. 3 \in Nat /\ 3 + 1 = 4
    OBVIOUS
  <2>2. \A u \in Inner(root) : Deep(u, 3)
    BY <1>4, <1>5
  <2>3. Deep(root, 3 + 1)
    BY <1>4, <2>1, <2>2, DeepAround
  <2>4. Deep(root, 4)
    BY <2>1, <2>3
  <2>5. 4 \in Nat /\ Nesting \in Nat /\ 4 <= Nesting
    BY ChunkAssumption, NBTAssumption
  <2> QED
    BY <2>4, <2>5, DeepMore
<1>7. Has(root, "Level") /\ Child(root, "Level") = level
  BY <1>2, <1>4 DEF Has, Child, n
<1>8. Has(level, "Sections") /\ Child(level, "Sections") = l
  BY <1>2, KeysAre DEF Has, Child
<1> QED
  BY <1>2, <1>4, <1>6, <1>7, <1>8 DEF RootHas, root, S, level, n

\* What is loaded of the sections in a file.
LEMMA LoadedIs ==
  ASSUME NEW c \in Chunk, NEW n \in Nat, NEW items,
         Len(items) = n, DOMAIN items = 1..n,
         NEW root, Deep(root, Nesting), RootHas(root, items),
         NEW gives, \A i \in 1..n : Puts(items[i], c, NewChunk, gives[i])
  PROVE  /\ ~ParseThrows(ReadTag(WriteTag(root), 0).value)
         /\ LoadBytes(WriteTag(root))
              = Mixed(c, NewChunk, UNION {gives[i] : i \in 1..n})
         /\ NewChunk \in Chunk
<1>1. ReadTag(WriteTag(root), 0).value = root
  BY TagAlone
<1>2. NewChunk \in Chunk
  <2>1. 0 \in Byte /\ GroundId \in Byte
    BY ChunkAssumption, RadixType
  <2> QED
    BY <2>1 DEF NewChunk, Chunk, Halves
<1>3. ~ParseThrows(root)
      /\ ParseChunkNBT(root, NewChunk) = Mixed(c, NewChunk, UNION {gives[i] : i \in 1..n})
  BY <1>2, ParseIs
<1> QED
  BY <1>1, <1>2, <1>3 DEF LoadBytes

-----------------------------------------------------------------------------
(* The chunks of Chunks.                                                   *)

ChunksOK ==
  /\ chunk \in Chunk \cup {NoChunk}
  /\ listed \in Seq([y : 0..Sections - 1, lacks : SUBSET ArrayKeys])
  /\ \A i, j \in DOMAIN listed : listed[i].y = listed[j].y => i = j

\* Every chunk that ChunkSpec comes to is one, and no section is listed twice.
LEMMA ChunksOKInvariant == ChunkSpec => []ChunksOK
<1>1. ChunkInit => ChunksOK
  BY DEF ChunkInit, ChunksOK
<1>2. ASSUME ChunksOK, MakeChunk PROVE ChunksOK'
  BY <1>2, ChunksAssumption DEF MakeChunk, ChunksOK
<1>3. ASSUME ChunksOK, EditChunk PROVE ChunksOK'
  <2>1. PICK a \in Arrays, b \in Edits :
          \E i \in 0..Size(a) - 1 : chunk' = [chunk EXCEPT ![a][i] = b]
    BY <1>3 DEF EditChunk
  <2>2. PICK i \in 0..Size(a) - 1 : chunk' = [chunk EXCEPT ![a][i] = b]
    BY <2>1
  <2>3. chunk \in Chunk /\ b \in Byte
    BY <1>3, ChunksAssumption DEF ChunksOK, EditChunk
  <2>4. [chunk EXCEPT ![a][i] = b] = [chunk EXCEPT ![a] = [chunk[a] EXCEPT ![i] = b]]
    OBVIOUS
  <2>5. [chunk[a] EXCEPT ![i] = b] \in [0..Size(a) - 1 -> Byte]
    <3>1. chunk[a] \in [0..Size(a) - 1 -> Byte]
      BY <2>3 DEF Arrays, Chunk, Halves, Size
    <3> QED
      BY <2>3, <3>1
  <2>6. chunk' \in Chunk
    <3> DEFINE x == [chunk[a] EXCEPT ![i] = b]
    <3>1. chunk' = [chunk EXCEPT ![a] = x] /\ x \in [0..Size(a) - 1 -> Byte]
      BY <2>2, <2>4, <2>5
    <3> HIDE DEF x
    <3>2. CASE a = "blocks"
      BY <2>3, <3>1, <3>2 DEF Chunk, Size
    <3>3. CASE a = "meta"
      BY <2>3, <3>1, <3>3 DEF Chunk, Halves, Size
    <3>4. CASE a = "blockLight"
      BY <2>3, <3>1, <3>4 DEF Chunk, Halves, Size
    <3>5. CASE a = "skyLight"
      BY <2>3, <3>1, <3>5 DEF Chunk, Halves, Size
    <3> QED
      BY <3>2, <3>3, <3>4, <3>5 DEF Arrays
  <2> QED
    BY <1>3, <2>6 DEF ChunksOK, EditChunk
<1>4. ASSUME ChunksOK, ListSection PROVE ChunksOK'
  <2>1. PICK s \in 0..Sections - 1, lacks \in Lacking :
          /\ \A i \in DOMAIN listed : listed[i].y # s
          /\ listed' = Append(listed, [y |-> s, lacks |-> lacks])
    BY <1>4 DEF ListSection
  <2> DEFINE V == [y : 0..Sections - 1, lacks : SUBSET ArrayKeys]
             l == [y |-> s, lacks |-> lacks]
             m == Len(listed)
  <2>2. l \in V /\ l.y = s
    <3>1. Range(KeyOf) = ArrayKeys
      BY DEF Range, KeyOf, ArrayKeys
    <3> QED
      BY <3>1, ChunksAssumption
  <2>3. listed \in Seq(V) /\ m \in Nat /\ DOMAIN listed = 1..m
    BY <1>4, LenProperties DEF ChunksOK
  <2> HIDE DEF l, V
  <2>4. /\ listed' \in Seq(V) /\ Len(listed') = m + 1
        /\ \A i \in 1..m : listed'[i] = listed[i]
        /\ listed'[m + 1] = l
    <3>1. listed' = Append(listed, l)
      BY <2>1 DEF l
    <3> QED
      BY <2>2, <2>3, <3>1, AppendProperties
  <2> HIDE DEF m
  <2>5. DOMAIN listed' = 1..m + 1 /\ \A i \in 1..m + 1 : i \in 1..m \/ i = m + 1
    BY <2>3, <2>4, LenProperties
  <2>6. \A i \in 1..m : listed[i].y # s
    BY <2>1, <2>3
  <2>7. \A i, j \in DOMAIN listed' : listed'[i].y = listed'[j].y => i = j
    <3>1. \A i, j \in 1..m : listed[i].y = listed[j].y => i = j
      BY <1>4, <2>3 DEF ChunksOK
    <3> QED
      BY <2>2, <2>4, <2>5, <2>6, <3>1
  <2>8. chunk' \in Chunk \cup {NoChunk}
    BY <1>4 DEF ChunksOK, ListSection
  <2> QED
    BY <2>4, <2>7, <2>8 DEF ChunksOK, V
<1>5. ChunksOK /\ UNCHANGED <<chunk, listed>> => ChunksOK'
  BY DEF ChunksOK
<1>6. ChunksOK /\ [ChunkNext]_<<chunk, listed>> => ChunksOK'
  BY <1>2, <1>3, <1>4, <1>5 DEF ChunkNext
<1> QED
  BY <1>1, <1>6, PTL DEF ChunkSpec

\* The sections of a saved chunk are all there, from the lowest one on.
LEMMA BuiltRoot ==
  ASSUME NEW c \in Chunk, NEW x \in SignedOf(WordBytes), NEW z \in SignedOf(WordBytes)
  PROVE  /\ Deep(BuildRoot(x, z, c), Nesting)
         /\ RootHas(BuildRoot(x, z, c), [s \in 1..Sections |-> BuildSection(c, s - 1)])
<1> DEFINE items == [s \in 1..Sections |-> BuildSection(c, s - 1)]
           l == Make("List", "Sections", items)
           biomes == [i \in 1..Side * Side |-> 1]
           t2 == MakeTag("Int", <<2>>, x)
           t3 == MakeTag("Int", <<3>>, z)
           t4 == MakeTag("Byte", <<4>>, 1)
           t5 == MakeTag("Long", <<5>>, 0)
           t6 == MakeTag("Long", <<6>>, 0)
           t8 == MakeTag("ByteArray", <<8>>, biomes)
           t9 == MakeTag("List", <<9>>, <<>>)
           t10 == MakeTag("List", <<10>>, <<>>)
           tags == {t2, t3, t4, t5, t6, l, t8, t9, t10}
<1>1. BuildRoot(x, z, c) = MakeCompound(<<>>, {MakeCompound(Key("Level"), tags)})
  BY KeysAre DEF BuildRoot, Make
<1>2. \A i \in {2, 3, 4, 5, 6, 7, 8, 9, 10} : <<i>> \in Range(Order) /\ <<i>> \in Names
  BY KeysAre
<1>3. /\ "Int" \in Types \ {"End"} /\ "Byte" \in Types \ {"End"}
      /\ "Long" \in Types \ {"End"} /\ "ByteArray" \in Types \ {"End"}
      /\ "List" \in Types \ {"End"}
  BY TypesAre
<1>4. /\ x \in LeafValues("Int") /\ z \in LeafValues("Int")
      /\ 1 \in LeafValues("Byte") /\ 0 \in LeafValues("Long")
      /\ biomes \in LeafValues("ByteArray") /\ <<>> \in LeafValues("List")
  <2>1. x \in LeafValues("Int") /\ z \in LeafValues("Int") /\ <<>> \in LeafValues("List")
    BY DEF LeafValues
  <2>2. 1 \in SignedOf(1)
    <3>1. 1 \in -Base..Base - 1
      BY ByteCast
    <3> QED
      BY <3>1, ByteCast
  <2>3. 0 \in SignedOf(2 * WordBytes)
    <3> DEFINE h == Span[2 * WordBytes] \div 2
    <3>1. h \in Nat /\ h > 0
      <4>1. h \in Nat /\ Span[2 * WordBytes] = 2 * h
        BY SpanEven, WordBytesType
      <4>2. Span[2 * WordBytes] \in Nat /\ Span[2 * WordBytes] > 0
        BY SpanPositive, WordBytesType
      <4> HIDE DEF h
      <4> QED
        BY <4>1, <4>2
    <3> HIDE DEF h
    <3>2. 0 \in -h..h - 1
      BY <3>1
    <3> QED
      BY <3>2 DEF SignedOf, h
  <2>4. biomes \in Seq(SignedOf(1)) /\ Len(biomes) = Side * Side /\ Side * Side \in Nat
    <3> DEFINE q == Side * Side
    <3>1. q \in Nat
      BY Sizes
    <3> HIDE DEF q
    <3>2. [i \in 1..q |-> 1] \in Seq(SignedOf(1)) /\ Len([i \in 1..q |-> 1]) = q
      BY <2>2, <3>1
    <3> QED
      BY <3>1, <3>2 DEF q
  <2>5. Side * Side <= ChunkSize
    <3> DEFINE q == Side * Side
    <3>1. q \in Nat /\ Side \in Nat /\ 1 <= Side /\ SectionSize = Side * q
      BY Sizes
    <3>2. Sections \in Nat /\ 1 <= Sections /\ SectionSize \in Nat
          /\ ChunkSize = Sections * SectionSize
      BY Sizes
    <3> HIDE DEF q
    <3>3. 1 * q <= Side * q /\ 1 * SectionSize <= Sections * SectionSize
      BY <3>1, <3>2, Times
    <3>4. q <= SectionSize /\ SectionSize <= ChunkSize /\ ChunkSize \in Nat
      BY <3>1, <3>2, <3>3
    <3>5. q <= ChunkSize
      BY <3>1, <3>2, <3>4
    <3> QED
      BY <3>5 DEF q
  <2>6. Len(biomes) \in SignedOf(WordBytes)
    <3> HIDE DEF biomes
    <3>1. Len(biomes) \in Nat /\ Len(biomes) <= ChunkSize
      BY <2>4, <2>5
    <3> QED
      BY <3>1, ChunkLengths
  <2> HIDE DEF biomes
  <2> QED
    BY <2>1, <2>2, <2>3, <2>4, <2>6 DEF LeafValues
<1>5. ASSUME NEW n \in Names, NEW type \in Types \ {"End"}, NEW v \in LeafValues(type)
      PROVE  LET t == MakeTag(type, n, v) IN
             TagOK(t) /\ t.name = n /\ Deep(t, 2)
  <2> DEFINE t == MakeTag(type, n, v)
  <2>1. TagOK(t) /\ t.name = n /\ Deep(t, 0)
    BY LeafMade
  <2>2. 0 \in Nat /\ 2 \in Nat /\ 0 <= 2
    OBVIOUS
  <2> HIDE DEF t
  <2>3. Deep(t, 2)
    BY <2>1, <2>2, DeepMore
  <2> QED
    BY <2>1, <2>3 DEF t
<1> HIDE DEF biomes
<1>6. /\ TagOK(t2) /\ t2.name = <<2>> /\ Deep(t2, 2)
      /\ TagOK(t3) /\ t3.name = <<3>> /\ Deep(t3, 2)
      /\ TagOK(t4) /\ t4.name = <<4>> /\ Deep(t4, 2)
  BY <1>2, <1>3, <1>4, <1>5
<1>7. /\ TagOK(t5) /\ t5.name = <<5>> /\ Deep(t5, 2)
      /\ TagOK(t6) /\ t6.name = <<6>> /\ Deep(t6, 2)
  BY <1>2, <1>3, <1>4, <1>5
<1>8. /\ TagOK(t8) /\ t8.name = <<8>> /\ Deep(t8, 2)
      /\ TagOK(t9) /\ t9.name = <<9>> /\ Deep(t9, 2)
      /\ TagOK(t10) /\ t10.name = <<10>> /\ Deep(t10, 2)
  BY <1>2, <1>3, <1>4, <1>5
<1> DEFINE S == {BuildSection(c, s) : s \in 0..Sections - 1}
<1>9. items \in Seq(S) /\ Len(items) = Sections /\ Len(items) \in SignedOf(WordBytes)
  <2>1. Sections \in Nat /\ \A s \in 1..Sections : s - 1 \in 0..Sections - 1
    BY Sizes
  <2>2. Sections <= ChunkSize
    <3>1. Sections \in Nat /\ SectionSize \in Nat /\ 1 <= SectionSize
          /\ ChunkSize = SectionSize * Sections
      BY Sizes
    <3>2. 1 * Sections <= SectionSize * Sections
      BY <3>1, Times
    <3> QED
      BY <3>1, <3>2
  <2>3. items \in Seq(S) /\ Len(items) = Sections
    BY <2>1
  <2> HIDE DEF items
  <2> QED
    BY <2>1, <2>2, <2>3, ChunkLengths
<1>10. \A t \in S : InSections(t)
  BY BuiltSection DEF InSections, SectionHas
<1> HIDE DEF items, S
<1>11. /\ TagOK(l) /\ Deep(l, 2) /\ l.type = "List" /\ l.name = <<7>>
       /\ l.payload = items
  BY <1>9, <1>10, SectionsSound
<1> HIDE DEF l, t2, t3, t4, t5, t6, t8, t9, t10
<1>12. \A t \in tags : TagOK(t) /\ t.name \in Range(Order) /\ Deep(t, 2)
  BY <1>2, <1>6, <1>7, <1>8, <1>11
<1>13. \A t, u \in tags : t.name = u.name => t = u
  <2>1. \A i, j \in {2, 3, 4, 5, 6, 7, 8, 9, 10} : <<i>> = <<j>> => i = j
    OBVIOUS
  <2> QED
    BY <1>6, <1>7, <1>8, <1>11, <2>1
<1>14. l \in tags
  OBVIOUS
<1> HIDE DEF tags
<1> DEFINE root == MakeCompound(<<>>, {MakeCompound(Key("Level"), tags)})
<1>15. Deep(root, Nesting) /\ RootHas(root, l.payload)
  BY <1>11, <1>12, <1>13, <1>14, RootSound
<1> HIDE DEF root
<1> QED
  BY <1>1, <1>11, <1>15 DEF root, items

\* A chunk that has been saved is loaded as it was, wherever it is: every block,
\* every nibble of metadata and light (NBT.cpp:319-530).
THEOREM SavedAndLoaded ==
  ASSUME NEW c \in Chunk, NEW x \in SignedOf(WordBytes), NEW z \in SignedOf(WordBytes)
  PROVE  LET bytes == BuildChunkNBT(x, z, c) IN
         ~ParseThrows(ReadTag(bytes, 0).value) /\ LoadBytes(bytes) = c
<1> DEFINE root == BuildRoot(x, z, c)
           n == Sections
           items == [s \in 1..n |-> BuildSection(c, s - 1)]
           gives == [i \in 1..n |-> ArrayKeys \X {i - 1}]
<1>1. n \in Nat /\ \A i \in 1..n : i - 1 \in 0..n - 1
  BY Sizes
<1>2. Len(items) = n /\ DOMAIN items = 1..n
  BY <1>1
<1>3. NewChunk \in Chunk
  <2>1. 0 \in Byte /\ GroundId \in Byte
    BY ChunkAssumption, RadixType
  <2> QED
    BY <2>1 DEF NewChunk, Chunk, Halves
<1>4. ASSUME NEW i \in 1..n
      PROVE  Puts(items[i], c, NewChunk, gives[i])
  <2> DEFINE s == i - 1
             t == BuildSection(c, s)
  <2>1. s \in 0..Sections - 1 /\ items[i] = t /\ gives[i] = ArrayKeys \X {s}
    BY <1>1
  <2> HIDE DEF s
  <2>2. SectionHas(t, c, s, ArrayKeys)
    BY <2>1, BuiltSection
  <2> HIDE DEF t
  <2>3. ArrayKeys \subseteq ArrayKeys
    OBVIOUS
  <2>4. Puts(t, c, NewChunk, ArrayKeys \X {s})
    BY <1>3, <2>1, <2>2, <2>3, SectionPuts
  <2> QED
    BY <2>1, <2>4
<1>5. Deep(root, Nesting) /\ RootHas(root, items)
  BY BuiltRoot
<1>6. UNION {gives[i] : i \in 1..n} = ArrayKeys \X (0..Sections - 1)
  <2>1. \A s \in 0..n - 1 : s + 1 \in 1..n /\ (s + 1) - 1 = s
    BY <1>1
  <2> QED
    BY <1>1, <2>1
<1> HIDE DEF root, items, gives
<1>7. /\ ~ParseThrows(ReadTag(WriteTag(root), 0).value)
      /\ LoadBytes(WriteTag(root))
           = Mixed(c, NewChunk, UNION {gives[i] : i \in 1..n})
  <2> HIDE DEF n
  <2> QED
    BY <1>1, <1>2, <1>4, <1>5, LoadedIs
<1>8. LoadBytes(WriteTag(root)) = c
  BY <1>3, <1>6, <1>7, MixedEnds
<1> QED
  BY <1>7, <1>8 DEF BuildChunkNBT, root

\* LoadsWhatWasSaved, for every size of chunks and every set of edits.
THEOREM SavedIsLoaded == ChunkSpec => []LoadsWhatWasSaved
<1>1. -1 \in SignedOf(WordBytes) /\ 0 \in SignedOf(WordBytes)
  <2> DEFINE h == Span[WordBytes] \div 2
  <2>1. h \in Nat /\ h > 0
    <3>1. h \in Nat /\ Span[WordBytes] = 2 * h
      BY SpanEven, WordBytesType
    <3>2. Span[WordBytes] \in Nat /\ Span[WordBytes] > 0
      BY SpanPositive, WordBytesType
    <3> HIDE DEF h
    <3> QED
      BY <3>1, <3>2
  <2> HIDE DEF h
  <2>2. 0 \in -h..h - 1 /\ -1 \in -h..h - 1
    BY <2>1
  <2> QED
    BY <2>2 DEF SignedOf, h
<1>2. ChunksOK => LoadsWhatWasSaved
  <2> SUFFICES ASSUME ChunksOK, chunk # NoChunk
               PROVE  LET bytes == BuildChunkNBT(-1, 0, chunk) IN
                      /\ ~ParseThrows(ReadTag(bytes, 0).value)
                      /\ LoadBytes(bytes) = chunk
    BY DEF LoadsWhatWasSaved
  <2>1. chunk \in Chunk
    BY DEF ChunksOK
  <2> QED
    BY <1>1, <2>1, SavedAndLoaded
<1> QED
  BY <1>2, ChunksOKInvariant, PTL

\* No more sections are listed than a chunk has.
LEMMA ListedFew ==
  ASSUME ChunksOK
  PROVE  Len(listed) \in Nat /\ Len(listed) <= Sections
<1> DEFINE n == Len(listed)
           f == [i \in 1..n |-> listed[i].y]
           T == 0..Sections - 1
<1>1. n \in Nat /\ DOMAIN listed = 1..n /\ Sections \in Nat /\ Sections > 0
  BY LenProperties, Sizes DEF ChunksOK
<1>2. f \in Injection(1..n, T)
  <2>1. \A i \in 1..n : listed[i] \in [y : 0..Sections - 1, lacks : SUBSET ArrayKeys]
    BY ElementOfSeq DEF ChunksOK
  <2>2. f \in [1..n -> T]
    BY <2>1
  <2>3. \A i, j \in 1..n : f[i] = f[j] => i = j
    BY <1>1 DEF ChunksOK
  <2> QED
    BY <2>2, <2>3 DEF Injection, IsInjective
<1>3. IsFiniteSet(T) /\ Cardinality(T) = Sections
  <2>1. 0 \in Int /\ Sections - 1 \in Int /\ ~(0 > Sections - 1)
        /\ Sections - 1 - 0 + 1 = Sections
    BY <1>1
  <2> DEFINE b == Sections - 1
  <2> HIDE DEF b
  <2>2. IsFiniteSet(0..b) /\ Cardinality(0..b) = IF 0 > b THEN 0 ELSE b - 0 + 1
    BY <2>1, FS_Interval DEF b
  <2> QED
    BY <2>1, <2>2 DEF b
<1>4. Cardinality(1..n) = n
  <2>1. 1 \in Int /\ n \in Int
    BY <1>1
  <2> HIDE DEF n
  <2>2. Cardinality(1..n) = IF 1 > n THEN 0 ELSE n - 1 + 1
    BY <2>1, FS_Interval
  <2> QED
    BY <1>1, <2>2
<1> HIDE DEF f, T
<1>5. Cardinality(1..n) <= Cardinality(T)
  BY <1>2, <1>3, FS_Injection
<1> QED
  BY <1>1, <1>3, <1>4, <1>5

\* What the file of another program has.
LEMMA ForeignHas ==
  ASSUME ChunksOK, chunk \in Chunk
  PROVE  LET n == Len(listed)
             items == <<Stray>> \o [i \in 1..n |-> Stored(chunk, listed[i])]
         IN  /\ n \in Nat /\ Len(items) = n + 1 /\ DOMAIN items = 1..n + 1
             /\ Deep(ForeignRoot, Nesting) /\ RootHas(ForeignRoot, items)
             /\ items[1] = Stray
             /\ \A i \in 1..n : items[i + 1] = Stored(chunk, listed[i])
<1> DEFINE n == Len(listed)
           first == <<Stray>>
           more == [i \in 1..n |-> Stored(chunk, listed[i])]
           items == first \o more
           S == {Stray} \cup {Stored(chunk, listed[i]) : i \in 1..n}
           l == Make("List", "Sections", items)
           tags == {l}
           root == MakeCompound(<<>>, {MakeCompound(Key("Level"), tags)})
<1>1. n \in Nat /\ n <= Sections
  BY ListedFew
<1>2. \A t \in S : InSections(t)
  <2>1. InSections(Stray)
    BY StrayPuts DEF InSections
  <2>2. ASSUME NEW i \in 1..n PROVE InSections(Stored(chunk, listed[i]))
    <3>1. listed[i] \in [y : 0..Sections - 1, lacks : SUBSET ArrayKeys]
      BY ElementOfSeq DEF ChunksOK
    <3>2. listed[i].y \in 0..Sections - 1 /\ listed[i].lacks \subseteq ArrayKeys
      BY <3>1
    <3> QED
      BY <3>2, StoredSection DEF InSections, SectionHas
  <2> QED
    BY <2>1, <2>2
<1>3. /\ first \in Seq(S) /\ Len(first) = 1 /\ more \in Seq(S) /\ Len(more) = n
      /\ first[1] = Stray /\ \A i \in 1..n : more[i] = Stored(chunk, listed[i])
  BY <1>1
<1>4. ForeignRoot = root
  BY DEF ForeignRoot
<1> HIDE DEF first, more, S
<1>5. /\ items \in Seq(S) /\ Len(items) = n + 1 /\ DOMAIN items = 1..n + 1
      /\ items[1] = Stray /\ \A i \in 1..n : items[i + 1] = Stored(chunk, listed[i])
  <2>1. /\ items \in Seq(S) /\ Len(items) = Len(first) + Len(more)
        /\ \A i \in 1..Len(first) + Len(more) :
             items[i] = IF i <= Len(first) THEN first[i] ELSE more[i - Len(first)]
    BY <1>3, ConcatProperties
  <2>2. Len(items) = n + 1 /\ DOMAIN items = 1..n + 1
    BY <1>1, <1>3, <2>1, LenProperties
  <2>3. items[1] = first[1]
    <3>1. 1 \in 1..Len(first) + Len(more) /\ 1 <= Len(first)
      BY <1>1, <1>3
    <3> QED
      BY <2>1, <3>1
  <2>4. ASSUME NEW i \in 1..n PROVE items[i + 1] = more[i]
    <3>1. i + 1 \in 1..Len(first) + Len(more) /\ ~(i + 1 <= Len(first))
          /\ (i + 1) - Len(first) = i
      BY <1>1, <1>3
    <3> QED
      BY <2>1, <3>1
  <2> QED
    BY <1>3, <2>1, <2>2, <2>3, <2>4
<1> HIDE DEF items
<1>6. Len(items) \in SignedOf(WordBytes)
  <2>1. n + 1 \in Nat /\ n + 1 <= ChunkSize
    <3>1. Sections \in Nat /\ Sections > 0 /\ HalfSize \in Nat /\ HalfSize > 0
          /\ SectionSize = 2 * HalfSize /\ ChunkSize = Sections * SectionSize
      BY Sizes
    <3>2. 2 <= SectionSize /\ SectionSize \in Nat
      BY <3>1
    <3>3. 2 * Sections <= SectionSize * Sections
      BY <3>1, <3>2, Times
    <3>4. ChunkSize = SectionSize * Sections
      BY <3>1, <3>2
    <3> DEFINE e == SectionSize * Sections
    <3>5. e \in Nat /\ 2 * Sections <= e
      BY <3>1, <3>2, <3>3
    <3> HIDE DEF e
    <3>6. n + 1 <= e
      BY <1>1, <3>1, <3>5
    <3> QED
      BY <1>1, <3>4, <3>6 DEF e
  <2> QED
    BY <1>5, <2>1, ChunkLengths
<1>7. /\ TagOK(l) /\ Deep(l, 2) /\ l.type = "List" /\ l.name = <<7>>
      /\ l.payload = items
  BY <1>2, <1>5, <1>6, SectionsSound
<1> HIDE DEF l
<1>8. /\ \A t \in tags : TagOK(t) /\ t.name \in Range(Order) /\ Deep(t, 2)
      /\ \A t, u \in tags : t.name = u.name => t = u
      /\ l \in tags
  <2>1. 7 \in 1..15
    OBVIOUS
  <2> QED
    BY <1>7, <2>1, KeysAre
<1> HIDE DEF tags
<1>9. Deep(root, Nesting) /\ RootHas(root, l.payload)
  BY <1>7, <1>8, RootSound
<1> HIDE DEF root
<1>10. RootHas(ForeignRoot, items) /\ Deep(ForeignRoot, Nesting)
  BY <1>4, <1>7, <1>9
<1> QED
  BY <1>1, <1>5, <1>10 DEF items, first, more

\* What the loader makes of it.
LEMMA ForeignLoaded ==
  ASSUME ChunksOK, chunk \in Chunk
  PROVE  /\ ~ParseThrows(ReadTag(WriteTag(ForeignRoot), 0).value)
         /\ NewChunk \in Chunk
         /\ \E U : /\ LoadBytes(WriteTag(ForeignRoot)) = Mixed(chunk, NewChunk, U)
                   /\ \A k \in ArrayKeys : \A s : <<k, s>> \in U <=>
                        \E i \in DOMAIN listed :
                          listed[i].y = s /\ k \notin listed[i].lacks
<1> DEFINE n == Len(listed)
           items == <<Stray>> \o [i \in 1..n |-> Stored(chunk, listed[i])]
           m == n + 1
           Some(i) == (ArrayKeys \ listed[i].lacks) \X {listed[i].y}
           gives == [i \in 1..m |-> IF i = 1 THEN {} ELSE Some(i - 1)]
           U == UNION {gives[i] : i \in 1..m}
<1>1. /\ n \in Nat /\ Len(items) = m /\ DOMAIN items = 1..m
      /\ Deep(ForeignRoot, Nesting) /\ RootHas(ForeignRoot, items)
      /\ items[1] = Stray
      /\ \A i \in 1..n : items[i + 1] = Stored(chunk, listed[i])
  BY ForeignHas
<1>2. DOMAIN listed = 1..n
  BY LenProperties DEF ChunksOK
<1>3. NewChunk \in Chunk
  <2>1. 0 \in Byte /\ GroundId \in Byte
    BY ChunkAssumption, RadixType
  <2> QED
    BY <2>1 DEF NewChunk, Chunk, Halves
<1> HIDE DEF items
<1>4. ASSUME NEW i \in 1..m
      PROVE  Puts(items[i], chunk, NewChunk, gives[i])
  <2>1. CASE i = 1
    BY <1>1, <2>1, StrayPuts
  <2>2. CASE i # 1
    <3> DEFINE j == i - 1
    <3>1. j \in 1..n /\ i = j + 1
      BY <1>1, <2>2
    <3> HIDE DEF j
    <3> DEFINE l == listed[j]
               s == l.y
               G == ArrayKeys \ l.lacks
               t == Stored(chunk, l)
    <3>2. l \in [y : 0..Sections - 1, lacks : SUBSET ArrayKeys]
      BY <3>1, ElementOfSeq DEF ChunksOK
    <3>3. s \in 0..Sections - 1 /\ l.lacks \subseteq ArrayKeys /\ G \subseteq ArrayKeys
      BY <3>2
    <3>4. SectionHas(t, chunk, s, G)
      <4> HIDE DEF l
      <4> QED
        BY <3>3, StoredSection
    <3>5. items[i] = t
      BY <1>1, <3>1
    <3>6. gives[i] = G \X {s}
      BY <2>2 DEF j
    <3> HIDE DEF t, s, G, gives
    <3>7. Puts(t, chunk, NewChunk, G \X {s})
      BY <1>3, <3>3, <3>4, SectionPuts
    <3> QED
      BY <3>5, <3>6, <3>7
  <2> QED
    BY <2>1, <2>2
<1>5. ASSUME NEW k \in ArrayKeys, NEW s
      PROVE  <<k, s>> \in U <=> \E i \in DOMAIN listed :
                                  listed[i].y = s /\ k \notin listed[i].lacks
  <2>1. ASSUME NEW i \in 1..m, <<k, s>> \in gives[i]
        PROVE  \E j \in DOMAIN listed : listed[j].y = s /\ k \notin listed[j].lacks
    <3>1. i # 1 /\ <<k, s>> \in Some(i - 1)
      BY <2>1
    <3>2. i - 1 \in 1..n
      BY <1>1, <3>1
    <3> QED
      BY <1>2, <3>1, <3>2
  <2>2. ASSUME NEW j \in DOMAIN listed, listed[j].y = s, k \notin listed[j].lacks
        PROVE  <<k, s>> \in U
    <3> DEFINE i == j + 1
    <3>1. i \in 1..m /\ i # 1 /\ i - 1 = j
      BY <1>1, <1>2
    <3>2. gives[i] = Some(j)
      BY <3>1
    <3>3. <<k, s>> \in gives[i]
      BY <2>2, <3>2
    <3> HIDE DEF i, gives
    <3> QED
      BY <3>1, <3>3
  <2> HIDE DEF gives
  <2> QED
    BY <2>1, <2>2
<1> HIDE DEF gives
<1>6. /\ ~ParseThrows(ReadTag(WriteTag(ForeignRoot), 0).value)
      /\ LoadBytes(WriteTag(ForeignRoot)) = Mixed(chunk, NewChunk, U)
  <2>1. m \in Nat
    BY <1>1
  <2> HIDE DEF m
  <2> QED
    BY <1>1, <1>4, <2>1, LoadedIs
<1> HIDE DEF U
<1> QED
  BY <1>3, <1>5, <1>6

\* LoadsForeign, for every size of chunks, whatever sections a file has and
\* whatever these lack.
THEOREM ForeignIsLoaded == ChunkSpec => []LoadsForeign
<1>1. ASSUME NEW a \in Arrays
      PROVE  LET w == IF a = "blocks" THEN SectionSize ELSE HalfSize IN
             /\ Size(a) \div Sections = w /\ w \in Nat /\ w > 0
             /\ KeyOf[a] \in ArrayKeys
             /\ \A c, d, U : \A i \in 0..Size(a) - 1 :
                  Mixed(c, d, U)[a][i] =
                    IF <<KeyOf[a], i \div w>> \in U THEN c[a][i] ELSE d[a][i]
  <2> DEFINE w == IF a = "blocks" THEN SectionSize ELSE HalfSize
  <2>1. /\ Size(a) = Sections * w /\ Size(a) \in Nat /\ w \in Nat /\ w > 0
        /\ Sections \in Nat /\ Sections > 0
    BY Sizes DEF Size
  <2>2. Size(a) \div Sections = w
    <3> DEFINE e == Size(a)
    <3>1. e \in Int /\ w \in Int /\ 0 \in Nat /\ 0 < Sections
      BY <2>1
    <3>2. e = w * Sections + 0
      BY <2>1
    <3> HIDE DEF e, w
    <3>3. w = e \div Sections
      BY <2>1, <3>1, <3>2, DivisionUnique
    <3> QED
      BY <3>3 DEF e
  <2>3. KeyOf[a] \in ArrayKeys
    BY DEF Arrays, KeyOf, ArrayKeys
  <2>4. ASSUME NEW c, NEW d, NEW U, NEW i \in 0..Size(a) - 1
        PROVE  Mixed(c, d, U)[a][i] =
                 IF <<KeyOf[a], i \div w>> \in U THEN c[a][i] ELSE d[a][i]
    <3>1. CASE a = "blocks"
      BY <3>1 DEF Mixed, MixedArray, KeyOf, Size
    <3>2. CASE a = "meta"
      BY <3>2 DEF Mixed, MixedArray, KeyOf, Size
    <3>3. CASE a = "blockLight"
      BY <3>3 DEF Mixed, MixedArray, KeyOf, Size
    <3>4. CASE a = "skyLight"
      BY <3>4 DEF Mixed, MixedArray, KeyOf, Size
    <3> QED
      BY <3>1, <3>2, <3>3, <3>4 DEF Arrays
  <2> QED
    BY <2>1, <2>2, <2>3, <2>4
<1>2. ASSUME ChunksOK, chunk # NoChunk
      PROVE  LET bytes == WriteTag(ForeignRoot)
                 loaded == LoadBytes(bytes)
                 per(a) == Size(a) \div Sections
                 has(a, s) == \E i \in DOMAIN listed :
                                listed[i].y = s /\ KeyOf[a] \notin listed[i].lacks
                 source(a, s) == IF has(a, s) THEN chunk[a] ELSE NewChunk[a]
             IN  /\ ~ParseThrows(ReadTag(bytes, 0).value)
                 /\ \A a \in Arrays : \A i \in 0..Size(a) - 1 :
                      loaded[a][i] = source(a, i \div per(a))[i]
  <2>1. chunk \in Chunk
    BY <1>2 DEF ChunksOK
  <2>2. PICK U : /\ LoadBytes(WriteTag(ForeignRoot)) = Mixed(chunk, NewChunk, U)
                 /\ \A k \in ArrayKeys : \A s : <<k, s>> \in U <=>
                      \E i \in DOMAIN listed :
                        listed[i].y = s /\ k \notin listed[i].lacks
    BY <1>2, <2>1, ForeignLoaded
  <2>3. ~ParseThrows(ReadTag(WriteTag(ForeignRoot), 0).value)
    BY <1>2, <2>1, ForeignLoaded
  <2>4. ASSUME NEW a \in Arrays, NEW i \in 0..Size(a) - 1
        PROVE  Mixed(chunk, NewChunk, U)[a][i] =
                 (IF \E j \in DOMAIN listed :
                       /\ listed[j].y = i \div (Size(a) \div Sections)
                       /\ KeyOf[a] \notin listed[j].lacks
                    THEN chunk[a] ELSE NewChunk[a])[i]
    <3> DEFINE s == i \div (Size(a) \div Sections)
               k == KeyOf[a]
    <3>1. /\ k \in ArrayKeys
          /\ Mixed(chunk, NewChunk, U)[a][i] =
               IF <<k, s>> \in U THEN chunk[a][i] ELSE NewChunk[a][i]
      BY <1>1
    <3> HIDE DEF s, k
    <3>2. <<k, s>> \in U <=> \E j \in DOMAIN listed :
                               listed[j].y = s /\ k \notin listed[j].lacks
      BY <2>2, <3>1
    <3>3. Mixed(chunk, NewChunk, U)[a][i] =
            (IF \E j \in DOMAIN listed : listed[j].y = s /\ k \notin listed[j].lacks
               THEN chunk[a] ELSE NewChunk[a])[i]
      BY <3>1, <3>2
    <3> QED
      BY <3>3 DEF s, k
  <2> QED
    BY <2>2, <2>3, <2>4
<1>3. ChunksOK => LoadsForeign
  BY <1>2 DEF LoadsForeign
<1> QED
  BY <1>3, ChunksOKInvariant, PTL

\* Numbers of type int8_t as the bytes they are.
AsBytes(numbers) == [i \in 1..Len(numbers) |-> numbers[i] % Radix]

\* Joined numbers are joined bytes.
LEMMA JoinedBytes ==
  ASSUME NEW s \in Seq(SignedOf(1)), NEW t \in Seq(SignedOf(1))
  PROVE  /\ s \o t \in Seq(SignedOf(1))
         /\ AsBytes(s \o t) = AsBytes(s) \o AsBytes(t)
<1> DEFINE u == s \o t
           a == AsBytes(s)
           b == AsBytes(t)
           m == Len(s)
           n == Len(t)
<1>1. /\ u \in Seq(SignedOf(1)) /\ Len(u) = m + n /\ m \in Nat /\ n \in Nat
      /\ \A i \in 1..m + n : u[i] = IF i <= m THEN s[i] ELSE t[i - m]
  BY ConcatProperties, LenProperties
<1>2. \A v \in Seq(SignedOf(1)) :
        /\ AsBytes(v) \in Seq(Int) /\ Len(AsBytes(v)) = Len(v)
        /\ \A i \in 1..Len(v) : AsBytes(v)[i] = v[i] % Radix
  <2> SUFFICES ASSUME NEW v \in Seq(SignedOf(1))
               PROVE  /\ AsBytes(v) \in Seq(Int) /\ Len(AsBytes(v)) = Len(v)
                      /\ \A i \in 1..Len(v) : AsBytes(v)[i] = v[i] % Radix
    OBVIOUS
  <2>1. Len(v) \in Nat
    BY LenProperties
  <2>2. \A i \in 1..Len(v) : v[i] % Radix \in Int
    <3>1. \A i \in 1..Len(v) : v[i] \in Int
      BY ElementOfSeq, CastBack, WordBytesType
    <3> QED
      BY <3>1, RadixType
  <2> QED
    BY <2>1, <2>2 DEF AsBytes
<1>3. /\ a \in Seq(Int) /\ Len(a) = m /\ \A i \in 1..m : a[i] = s[i] % Radix
      /\ b \in Seq(Int) /\ Len(b) = n /\ \A i \in 1..n : b[i] = t[i] % Radix
      /\ AsBytes(u) \in Seq(Int) /\ Len(AsBytes(u)) = m + n
      /\ \A i \in 1..m + n : AsBytes(u)[i] = u[i] % Radix
  BY <1>1, <1>2
<1> HIDE DEF u, a, b, m, n
<1> DEFINE c == a \o b
<1>4. /\ c \in Seq(Int) /\ Len(c) = m + n
      /\ \A i \in 1..m + n : c[i] = IF i <= m THEN a[i] ELSE b[i - m]
  BY <1>1, <1>3, ConcatProperties
<1> HIDE DEF c
<1>5. ASSUME NEW i \in 1..m + n
      PROVE  AsBytes(u)[i] = c[i]
  <2>1. CASE i <= m
    <3>1. i \in 1..m
      BY <1>1, <2>1
    <3>2. u[i] = s[i] /\ c[i] = a[i]
      BY <1>1, <1>4, <2>1
    <3>3. a[i] = s[i] % Radix /\ AsBytes(u)[i] = u[i] % Radix
      BY <1>3, <3>1
    <3> QED
      BY <3>2, <3>3
  <2>2. CASE ~(i <= m)
    <3>1. i - m \in 1..n
      BY <1>1, <2>2
    <3> QED
      BY <1>1, <1>3, <1>4, <2>2, <3>1
  <2> QED
    BY <2>1, <2>2
<1>6. AsBytes(u) = c
  <2> DEFINE d == AsBytes(u)
  <2>1. d \in Seq(Int) /\ c \in Seq(Int) /\ Len(d) = m + n /\ Len(c) = m + n
        /\ \A i \in 1..m + n : d[i] = c[i]
    BY <1>3, <1>4, <1>5
  <2> HIDE DEF d
  <2>2. d = c
    BY <2>1
  <2> QED
    BY <2>2 DEF d
<1> QED
  BY <1>1, <1>6 DEF u, a, b, c

\* The pieces of an array one after the other.
Pieces(a, w) == FlattenSeq([s \in 1..Sections |-> Piece(a, (s - 1) * w, w)])

\* They are the array.
LEMMA PiecesJoined ==
  ASSUME NEW size \in Nat, NEW a, ArrayOK(a, size), NEW w \in Nat, SizedBy(size, w)
  PROVE  Pieces(a, w) \in Seq(SignedOf(1)) /\ AsBytes(Pieces(a, w)) = Listed(a, size)
<1> DEFINE n == Sections
           ss == [s \in 1..n |-> Piece(a, (s - 1) * w, w)]
           F == FlattenSeq(ss)
<1>1. n \in Nat /\ n > 0 /\ w > 0 /\ size = n * w
  BY Sizes DEF SizedBy
<1>2. ASSUME NEW s \in 1..n
      PROVE  /\ s - 1 \in Nat /\ (s - 1) * w \in Nat /\ (s - 1) * w + w <= size
             /\ Piece(a, (s - 1) * w, w) \in Seq(SignedOf(1))
             /\ Len(Piece(a, (s - 1) * w, w)) = w
             /\ \A i \in 1..w : Piece(a, (s - 1) * w, w)[i] % Radix
                                  = a[(s - 1) * w + (i - 1)]
  <2> DEFINE q == s - 1
             o == q * w
  <2>1. q \in Nat /\ q + 1 <= n /\ q + 1 \in Nat
    BY <1>1
  <2> HIDE DEF q
  <2>2. (q + 1) * w <= n * w
    BY <1>1, <2>1, Times
  <2>3. o \in Nat /\ o + w <= size
    <3>1. (q + 1) * w = q * w + w /\ q * w \in Nat
      BY <2>1
    <3> QED
      BY <1>1, <2>2, <3>1
  <2> HIDE DEF o
  <2>4. /\ Piece(a, o, w) \in Seq(SignedOf(1)) /\ Len(Piece(a, o, w)) = w
        /\ \A i \in 1..w : Piece(a, o, w)[i] % Radix = a[o + (i - 1)]
    BY <2>3, PieceType
  <2> QED
    BY <2>1, <2>3, <2>4 DEF o, q
<1>3. ss \in Seq(Seq(SignedOf(1))) /\ Len(ss) = n
  <2> DEFINE P(s) == Piece(a, (s - 1) * w, w)
  <2>1. \A s \in 1..n : P(s) \in Seq(SignedOf(1))
    BY <1>2
  <2> HIDE DEF P
  <2>2. /\ [s \in 1..n |-> P(s)] \in Seq(Seq(SignedOf(1)))
        /\ Len([s \in 1..n |-> P(s)]) = n
    BY <1>1, <2>1
  <2> QED
    BY <2>2 DEF P
<1>4. \A s \in 1..n : ss[s] = Piece(a, (s - 1) * w, w)
  OBVIOUS
<1> HIDE DEF ss, n
<1>5. PICK at \in [0..n -> Nat] :
           /\ at[0] = 0 /\ at[n] = Len(F)
           /\ \A i \in 1..n : /\ at[i] = at[i - 1] + Len(ss[i])
                              /\ Holds(F, at[i - 1], ss[i])
  BY <1>3, FlattenHolds
<1>6. F \in Seq(SignedOf(1))
  BY <1>3, FlattenType
<1>7. \A k \in 0..n : at[k] = k * w
  <2>1. \A i \in 1..n : at[i] = at[i - 1] + w
    BY <1>2, <1>4, <1>5
  <2> QED
    BY <1>1, <1>5, <2>1, EvenlySpaced
<1> HIDE DEF F
<1>8. Len(F) = size
  <2>1. n \in 0..n
    BY <1>1
  <2> QED
    BY <1>1, <1>5, <1>7, <2>1
<1>9. ASSUME NEW i \in 1..size
      PROVE  F[i] % Radix = a[i - 1]
  <2> DEFINE j == i - 1
             q == j \div w
             r == j % w
  <2>1. j \in Nat /\ j < size /\ i = j + 1
    OBVIOUS
  <2> HIDE DEF j
  <2>2. q \in Nat /\ r \in Nat /\ r < w /\ j = q * w + r
    BY <1>1, <2>1, Division
  <2> HIDE DEF q, r
  <2>3. q < n
    <3> SUFFICES ASSUME q >= n PROVE FALSE
      BY <1>1, <2>2
    <3>1. n * w <= q * w
      BY <1>1, <2>2, Times
    <3> DEFINE e == n * w
               f == q * w
    <3>2. e \in Nat /\ f \in Nat /\ e <= f /\ j = f + r /\ j < e
      BY <1>1, <2>1, <2>2, <3>1
    <3> HIDE DEF e, f
    <3> QED
      BY <2>2, <3>2
  <2> DEFINE s == q + 1
             o == q * w
  <2>4. s \in 1..n /\ s - 1 = q /\ q \in 0..n
    BY <1>1, <2>2, <2>3
  <2> HIDE DEF s
  <2>5. at[q] = o /\ Holds(F, o, ss[s]) /\ ss[s] = Piece(a, o, w)
    BY <1>4, <1>5, <1>7, <2>4
  <2>6. /\ o \in Nat /\ Len(Piece(a, o, w)) = w
        /\ \A k \in 1..w : Piece(a, o, w)[k] % Radix = a[o + (k - 1)]
    BY <1>2, <2>4
  <2> HIDE DEF o
  <2>7. r + 1 \in 1..w /\ o + (r + 1) = i /\ o + ((r + 1) - 1) = j
    BY <1>1, <2>1, <2>2, <2>6 DEF o
  <2>8. F[o + (r + 1)] = Piece(a, o, w)[r + 1]
    BY <2>5, <2>6, <2>7 DEF Holds
  <2>9. F[i] % Radix = a[o + ((r + 1) - 1)]
    BY <2>6, <2>7, <2>8
  <2> QED
    BY <2>7, <2>9 DEF j
<1>10. AsBytes(F) = Listed(a, size)
  BY <1>8, <1>9 DEF AsBytes, Listed
<1>11. Pieces(a, w) = F
  BY DEF Pieces, F, ss, n
<1> QED
  BY <1>6, <1>10, <1>11

\* The bytes of a chunk's file are those that are sent.
LEMMA FileIsSent ==
  ASSUME NEW c \in Chunk
  PROVE  AsBytes(Pieces(c.blocks, SectionSize) \o Pieces(c.meta, HalfSize)
                   \o Pieces(c.blockLight, HalfSize) \o Pieces(c.skyLight, HalfSize))
           = SerializeChunk(c)
<1> DEFINE size == ChunkSize
           half == ChunkSize \div 2
           p == Pieces(c.blocks, SectionSize)
           q == Pieces(c.meta, HalfSize)
           r == Pieces(c.blockLight, HalfSize)
           t == Pieces(c.skyLight, HalfSize)
<1>1. /\ size \in Nat /\ half \in Nat /\ SectionSize \in Nat /\ HalfSize \in Nat
      /\ SizedBy(size, SectionSize) /\ SizedBy(half, HalfSize)
  BY Sizes DEF SizedBy
<1>2. /\ ArrayOK(c.blocks, size) /\ ArrayOK(c.meta, half)
      /\ ArrayOK(c.blockLight, half) /\ ArrayOK(c.skyLight, half)
  BY ChunkArrays
<1> HIDE DEF size, half
<1>3. p \in Seq(SignedOf(1)) /\ AsBytes(p) = Listed(c.blocks, size)
  BY <1>1, <1>2, PiecesJoined
<1>4. q \in Seq(SignedOf(1)) /\ AsBytes(q) = Listed(c.meta, half)
  BY <1>1, <1>2, PiecesJoined
<1>5. r \in Seq(SignedOf(1)) /\ AsBytes(r) = Listed(c.blockLight, half)
  BY <1>1, <1>2, PiecesJoined
<1>6. t \in Seq(SignedOf(1)) /\ AsBytes(t) = Listed(c.skyLight, half)
  BY <1>1, <1>2, PiecesJoined
<1> HIDE DEF p, q, r, t
<1>7. p \o q \in Seq(SignedOf(1)) /\ AsBytes(p \o q) = AsBytes(p) \o AsBytes(q)
  BY <1>3, <1>4, JoinedBytes
<1>8. /\ p \o q \o r \in Seq(SignedOf(1))
      /\ AsBytes(p \o q \o r) = AsBytes(p \o q) \o AsBytes(r)
  BY <1>5, <1>7, JoinedBytes
<1>9. AsBytes(p \o q \o r \o t) = AsBytes(p \o q \o r) \o AsBytes(t)
  BY <1>6, <1>8, JoinedBytes
<1>10. AsBytes(p \o q \o r \o t)
         = Listed(c.blocks, size) \o Listed(c.meta, half)
             \o Listed(c.blockLight, half) \o Listed(c.skyLight, half)
  BY <1>3, <1>4, <1>5, <1>6, <1>7, <1>8, <1>9
<1> QED
  BY <1>10 DEF SerializeChunk, size, half, p, q, r, t

\* Of whatever chunk, the arrays that buildChunkNBT has put into the sections,
\* one after the other, are the bytes that Chunk::serialize deflates for the
\* client (world.cpp:27-35, NBT.cpp:319-393).
THEOREM FileIsWire == ChunkSpec => []FileMatchesWire
<1>1. ASSUME ChunksOK, chunk # NoChunk,
             NEW k \in ArrayKeys, NEW s \in 1..Sections
      PROVE  Child(BuildSection(chunk, s - 1), k).payload = PieceOf(chunk, k, s - 1)
  <2> DEFINE o == s - 1
  <2>1. chunk \in Chunk /\ o \in 0..Sections - 1
    BY <1>1, Sizes DEF ChunksOK
  <2> HIDE DEF o
  <2>2. SectionHas(BuildSection(chunk, o), chunk, o, ArrayKeys)
    BY <2>1, BuiltSection
  <2>3. Child(BuildSection(chunk, o), k).payload = PieceOf(chunk, k, o)
    BY <1>1, <2>2 DEF SectionHas
  <2> QED
    BY <2>3 DEF o
<1>2. ChunksOK => FileMatchesWire
  <2> DEFINE sections == [s \in 1..Sections |-> BuildSection(chunk, s - 1)]
             all(k) == FlattenSeq([s \in 1..Sections |-> Child(sections[s], k).payload])
             file == all("Blocks") \o all("Data") \o all("BlockLight") \o all("SkyLight")
  <2> SUFFICES ASSUME ChunksOK, chunk # NoChunk
               PROVE  AsBytes(file) = SerializeChunk(chunk)
    BY DEF FileMatchesWire, AsBytes
  <2>1. ASSUME NEW k \in ArrayKeys
        PROVE  all(k) = FlattenSeq([s \in 1..Sections |-> PieceOf(chunk, k, s - 1)])
    <3>1. \A s \in 1..Sections :
            Child(sections[s], k).payload = PieceOf(chunk, k, s - 1)
      BY <1>1
    <3>2. [s \in 1..Sections |-> Child(sections[s], k).payload]
            = [s \in 1..Sections |-> PieceOf(chunk, k, s - 1)]
      BY <3>1, Zenon
    <3> QED
      BY <3>2
  <2>2. /\ all("Blocks") = Pieces(chunk.blocks, SectionSize)
        /\ all("Data") = Pieces(chunk.meta, HalfSize)
        /\ all("BlockLight") = Pieces(chunk.blockLight, HalfSize)
        /\ all("SkyLight") = Pieces(chunk.skyLight, HalfSize)
    <3>1. /\ "Blocks" \in ArrayKeys /\ "Data" \in ArrayKeys
          /\ "BlockLight" \in ArrayKeys /\ "SkyLight" \in ArrayKeys
      BY DEF ArrayKeys
    <3>2. all("Blocks") = Pieces(chunk.blocks, SectionSize)
      BY <2>1, <3>1 DEF PieceOf, Pieces
    <3>3. all("Data") = Pieces(chunk.meta, HalfSize)
      BY <2>1, <3>1 DEF PieceOf, Pieces
    <3>4. all("BlockLight") = Pieces(chunk.blockLight, HalfSize)
      BY <2>1, <3>1 DEF PieceOf, Pieces
    <3>5. all("SkyLight") = Pieces(chunk.skyLight, HalfSize)
      BY <2>1, <3>1 DEF PieceOf, Pieces
    <3> QED
      BY <3>2, <3>3, <3>4, <3>5
  <2> HIDE DEF all
  <2>3. chunk \in Chunk
    BY DEF ChunksOK
  <2> QED
    BY <2>2, <2>3, FileIsSent
<1> QED
  BY <1>2, ChunksOKInvariant, PTL
=============================================================================
