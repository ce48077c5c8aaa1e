-------------------------- MODULE RegionFileProofs --------------------------
(***************************************************************************)
(* Proofs about RegionFile, for every set of positions, images and sizes.  *)
(* Type correctness holds for any number of threads.  What keeps the file  *)
(* sound holds for one thread at a time (SingleWriter) and while the file  *)
(* is no longer than a three-byte offset can say (OffsetsFit).             *)
(***************************************************************************)
EXTENDS RegionFile, TLAPS

SingleWriter == \A u, w \in Writers : u = w

OffsetsFit == MaxSectors <= OffsetLimit

(***************************************************************************)
(* Types.  A write stays inside the space that SeekEnd found.              *)
(***************************************************************************)
WithinReach ==
  \A w \in Writers :
    /\ pc[w] \in {"data", "entry"} =>
         /\ at[w] >= FirstDataSector
         /\ at[w] + SizeOf[val[w]] <= MaxSectors
    /\ pc[w] = "data" => part[w] < SizeOf[val[w]]

TInv == TypeOK /\ WithinReach

LEMMA InitTInv == Init => TInv
<1> SUFFICES ASSUME Init PROVE TInv
  OBVIOUS
<1>1. NoEntry \in Entry
  BY BoundAssumption DEF NoEntry, Entry, FirstDataSector
<1>2. TypeOK
  BY <1>1, ValuesAssumption, BoundAssumption DEF Init, TypeOK, Steps
<1>3. WithinReach
  BY DEF Init, WithinReach
<1>4. QED
  BY <1>2, <1>3 DEF TInv

\* What a thread knows of its image and its place in the file.
LEMMA Reach ==
  ASSUME TInv, NEW w \in Writers
  PROVE  /\ SizeOf[val[w]] \in 1..255
         /\ part[w] \in 0..255
         /\ at[w] \in 0..MaxSectors
         /\ size \in 0..MaxSectors
         /\ MaxSectors \in Nat
         /\ val[w] \in Values
         /\ slot[w] \in Slots
  BY SizeAssumption, BoundAssumption DEF TInv, TypeOK

\* ... and what it knows besides while it writes the data.
LEMMA ReachData ==
  ASSUME TInv, NEW w \in Writers, pc[w] = "data"
  PROVE  /\ part[w] < SizeOf[val[w]]
         /\ at[w] >= 2
         /\ at[w] + SizeOf[val[w]] <= MaxSectors
  BY DEF TInv, WithinReach, FirstDataSector

\* A sector below the end of an image that fits is inside the file.
LEMMA SectorFits ==
  ASSUME NEW max \in Nat, NEW end \in 0..max, NEW from \in 0..max,
         NEW n \in 1..255, NEW k \in 0..255, k < n, from + n <= max
  PROVE  /\ Later(end, from + k) \in 0..max
         /\ Later(end, from + k) >= end
         /\ Later(end, from + k + 1) \in 0..max
         /\ Later(end, from + k + 1) >= end
         /\ Later(end, from + k + 1) >= from + k + 1
         /\ from >= 2 => Later(end, from + k + 1) >= 2
         /\ from >= 2 => from + k \in 2..max - 1
         /\ k + 1 # n => k + 1 < n
  BY DEF Later

LEMMA Weaken ==
  ASSUME NEW o \in Nat, NEW n \in Nat, NEW i \in Nat, NEW k \in Nat,
         o + n <= i
  PROVE  o + n <= i + k
  OBVIOUS

\* Nothing is lost in a location entry while three bytes hold the offset.
LEMMA EntryFits ==
  ASSUME NEW a \in Nat, NEW n \in 1..255, a + n <= MaxSectors,
         MaxSectors <= OffsetLimit
  PROVE  a % OffsetLimit = a /\ n % 256 = n
  BY BoundAssumption DEF FirstDataSector

LEMMA ApartExtents ==
  ASSUME NEW o \in Nat, NEW n \in Nat, NEW a \in Nat, NEW m \in Nat, o + n <= a
  PROVE  (o..o + n - 1) \cap (a..a + m - 1) = {}
  OBVIOUS

LEMMA EarlierPart ==
  ASSUME NEW max \in Nat, NEW a \in 0..max, NEW n \in 1..255, NEW p \in 0..255,
         NEW k \in 0..p, k # p, p < n, a >= 2, a + n <= max
  PROVE  /\ k \in 0..p - 1
         /\ a + k # a + p
         /\ a + k \in 2..max - 1
  OBVIOUS

LEMMA NextPart ==
  ASSUME NEW p \in 0..255
  PROVE  0..(p + 1) - 1 = 0..p
  OBVIOUS

LEMMA NextTInv == TInv /\ [Next]_vars => TInv'
<1> SUFFICES ASSUME TInv, [Next]_vars PROVE TInv'
  OBVIOUS
<1> USE DEF Goto, fileVars
<1>1. ASSUME NEW w \in Writers, NEW s \in Slots, NEW v \in Values,
             SaveChunk(w, s, v)
      PROVE  TInv'
  BY <1>1 DEF SaveChunk, Steps, TInv, TypeOK, WithinReach
<1>2. ASSUME NEW w \in Writers, NEW s \in Slots, LoadChunk(w, s)
      PROVE  TInv'
  BY <1>2 DEF LoadChunk, Steps, TInv, TypeOK, WithinReach
<1>3. ASSUME NEW w \in Writers, Open(w) PROVE TInv'
  BY <1>3 DEF Open, AfterOpen, Steps, TInv, TypeOK, WithinReach
<1>4. ASSUME NEW w \in Writers, Create(w) PROVE TInv'
  <2>1. NoEntry \in Entry
    BY BoundAssumption DEF NoEntry, Entry, FirstDataSector
  <2>2. QED
    BY <1>4, <2>1, BoundAssumption
    DEF Create, Steps, TInv, TypeOK, WithinReach
<1>5. ASSUME NEW w \in Writers, WriteHeader(w) PROVE TInv'
  <2>1. NoEntry \in Entry
    BY BoundAssumption DEF NoEntry, Entry, FirstDataSector
  <2>2. size' \in 0..MaxSectors
    BY <1>5, BoundAssumption
    DEF WriteHeader, Later, FirstDataSector, TInv, TypeOK
  <2>3. QED
    BY <1>5, <2>1, <2>2
    DEF WriteHeader, AfterOpen, Steps, TInv, TypeOK, WithinReach
<1>6. ASSUME NEW w \in Writers, ReadFound(w) PROVE TInv'
  BY <1>6 DEF ReadFound, Steps, TInv, TypeOK, WithinReach
<1>7. ASSUME NEW w \in Writers, ReadNothing(w) \/ ReadFails(w) PROVE TInv'
  BY <1>7, ValuesAssumption
  DEF ReadNothing, ReadFails, SaveFresh, Steps, TInv, TypeOK, WithinReach
<1>8. ASSUME NEW w \in Writers, SeekEnd(w) PROVE TInv'
  <2>1. /\ Later(size, FirstDataSector) \in 0..MaxSectors
        /\ Later(size, FirstDataSector) >= FirstDataSector
    BY Reach, BoundAssumption DEF Later, FirstDataSector
  <2>2. TypeOK'
    BY <1>8, <2>1 DEF SeekEnd, Steps, TInv, TypeOK
  <2>3. /\ at'[w] >= FirstDataSector
        /\ at'[w] + SizeOf[val[w]] <= MaxSectors
        /\ part'[w] = 0
    BY <1>8, <2>1 DEF SeekEnd, TInv, TypeOK
  <2>4. 0 < SizeOf[val[w]]
    BY Reach, SMTT(30)
  <2>5. ASSUME NEW u \in Writers PROVE WithinReach!(u)'
    <3>1. CASE u = w
      BY <1>8, <2>3, <2>4, <3>1 DEF SeekEnd
    <3>2. CASE u # w
      BY <1>8, <3>2 DEF SeekEnd, TInv, TypeOK, WithinReach
    <3>3. QED
      BY <3>1, <3>2
  <2>6. QED
    BY <2>2, <2>5, Zenon DEF TInv, WithinReach
<1>9. ASSUME NEW w \in Writers, WriteSector(w) PROVE TInv'
  <2>1. /\ SizeOf[val[w]] \in 1..255
        /\ part[w] \in 0..255
        /\ at[w] \in 0..MaxSectors
        /\ size \in 0..MaxSectors
        /\ MaxSectors \in Nat
    BY Reach
  <2>2. /\ part[w] < SizeOf[val[w]]
        /\ at[w] >= 2
        /\ at[w] + SizeOf[val[w]] <= MaxSectors
    BY <1>9, ReachData DEF WriteSector
  <2>3. part[w] + 1 \in 0..255
    BY <2>1, <2>2
  <2>4. Later(size, at[w] + part[w] + 1) \in 0..MaxSectors
    BY <2>1, <2>2, SectorFits
  <2>5. [image |-> val[w], index |-> part[w]] \in Piece
    BY Reach, SMTT(30) DEF Piece
  <2>6. TypeOK'
    BY <1>9, <2>3, <2>4, <2>5 DEF WriteSector, Steps, TInv, TypeOK
  <2>7. ASSUME NEW u \in Writers PROVE WithinReach!(u)'
    <3>1. CASE u = w
      <4>1. /\ at' = at /\ val' = val
            /\ part'[w] = part[w] + 1
            /\ pc'[w] = IF part[w] + 1 = SizeOf[val[w]]
                          THEN "entry" ELSE "data"
        BY <1>9 DEF WriteSector, TInv, TypeOK
      <4>2. part[w] + 1 # SizeOf[val[w]] => part[w] + 1 < SizeOf[val[w]]
        BY <2>1, <2>2, SectorFits
      <4>3. QED
        BY <2>2, <3>1, <4>1, <4>2 DEF FirstDataSector
    <3>2. CASE u # w
      BY <1>9, <3>2 DEF WriteSector, TInv, TypeOK, WithinReach
    <3>3. QED
      BY <3>1, <3>2
  <2>8. QED
    BY <2>6, <2>7, Zenon DEF TInv, WithinReach
<1>10. ASSUME NEW w \in Writers, WriteEntry(w) PROVE TInv'
  <2>1. at[w] % OffsetLimit \in 0..OffsetLimit - 1
    BY Reach, BoundAssumption DEF FirstDataSector
  <2>2. SizeOf[val[w]] % 256 \in 0..255
    BY Reach
  <2>3. TypeOK'
    BY <1>10, <2>1, <2>2 DEF WriteEntry, Steps, Entry, TInv, TypeOK
  <2>4. WithinReach'
    BY <1>10 DEF WriteEntry, Steps, TInv, TypeOK, WithinReach
  <2>5. QED
    BY <2>3, <2>4 DEF TInv
<1>11. ASSUME NEW w \in Writers, WriteFails(w) PROVE TInv'
  BY <1>11 DEF WriteFails, Steps, TInv, TypeOK, WithinReach
<1>12. ASSUME NEW w \in Writers, CrashInWrite(w) PROVE TInv'
  <2>1. /\ SizeOf[val[w]] \in 1..255
        /\ part[w] \in 0..255
        /\ at[w] \in 0..MaxSectors
        /\ size \in 0..MaxSectors
        /\ MaxSectors \in Nat
    BY Reach
  <2>2. /\ part[w] < SizeOf[val[w]]
        /\ at[w] + SizeOf[val[w]] <= MaxSectors
    BY <1>12, ReachData DEF CrashInWrite
  <2>3. Later(size, at[w] + part[w]) \in 0..MaxSectors
    BY <2>1, <2>2, SectorFits
  <2>4. TypeOK'
    BY <1>12, <2>3 DEF CrashInWrite, AllIdle, Steps, TInv, TypeOK
  <2>5. WithinReach'
    BY <1>12 DEF CrashInWrite, AllIdle, WithinReach
  <2>6. QED
    BY <2>4, <2>5 DEF TInv
<1>13. CASE Crash
  BY <1>13 DEF Crash, AllIdle, Steps, TInv, TypeOK, WithinReach
<1>14. ASSUME NEW w \in Writers, CannotCreate(w) PROVE TInv'
  BY <1>14 DEF CannotCreate, AllIdle, Steps, TInv, TypeOK, WithinReach
<1>15. ASSUME NEW w \in Writers, HeaderFails(w) PROVE TInv'
  BY <1>15 DEF HeaderFails, AfterOpen, Steps, TInv, TypeOK, WithinReach
<1>16. CASE UNCHANGED vars
  BY <1>16 DEF vars, TInv, TypeOK, WithinReach
<1>17. QED
  BY <1>1, <1>2, <1>3, <1>4, <1>5, <1>6, <1>7, <1>8, <1>9, <1>10, <1>11,
     <1>12, <1>13, <1>14, <1>15, <1>16 DEF Next, Step

LEMMA TypingInv == Spec => []TInv
  BY InitTInv, NextTInv, PTL DEF Spec

\* Every reachable state is well typed, whatever the threads do: no write
\* leaves the sectors that writeChunk computed, and no step of saveChunk or
\* loadChunk (WorldSave.cpp) ends anywhere but in one of their steps.
THEOREM TypeCorrect == Spec => []TypeOK
  BY TypingInv, PTL DEF TInv

(***************************************************************************)
(* One thread: the file stays sound.  The invariant ties the place a save  *)
(* writes to (at) to the entries, and what it has written so far to the    *)
(* sectors, so that its last step, the entry, finds a whole image.         *)
(***************************************************************************)
\* No entry claims a sector from the one w writes to onwards.
Beyond(w) == \A s \in Slots : location[s].offset + location[s].count <= at[w]

\* What w has written so far is in the file, and inside it.
Written(w) ==
  /\ \A k \in 0..part[w] - 1 :
       sectors[at[w] + k] = [image |-> val[w], index |-> k]
  /\ part[w] > 0 => at[w] + part[w] <= size

ThreadInv(w) ==
  /\ pc[w] = "create" => file # "present"
  /\ pc[w] = "header" => file = "present" /\ size = 0
  /\ pc[w] \in {"read", "seek", "data", "entry"} => file = "present"
  /\ pc[w] = "read" => job[w] = "load"
  /\ pc[w] \in {"seek", "data", "entry"} => job[w] = "save"
  /\ pc[w] \in {"data", "entry"} => Beyond(w) /\ Written(w)
  /\ pc[w] = "entry" => part[w] = SizeOf[val[w]]

\* A file without its two tables holds no chunk.
HeaderInv ==
  /\ file # "present" => size = 0
  /\ size < FirstDataSector => \A s \in Slots : location[s] = NoEntry

IInv ==
  /\ TInv
  /\ HeaderInv
  /\ EntriesSound
  /\ ExtentsDisjoint
  /\ \A w \in Writers : ThreadInv(w)

LEMMA EntryTypes ==
  ASSUME TInv, NEW s \in Slots
  PROVE  /\ location[s].offset \in 0..OffsetLimit - 1
         /\ location[s].offset \in Nat
         /\ location[s].count \in 0..255
         /\ location[s].count \in Nat
         /\ location[s] \in Entry
<1>1. location[s] \in Entry
  BY DEF TInv, TypeOK
<1>2. QED
  BY <1>1, BoundAssumption DEF Entry

\* Two images never share a first sector.
LEMMA HoldsUnique ==
  ASSUME NEW o \in Nat, NEW u \in Values, NEW v \in Values,
         Holds(o, u), Holds(o, v)
  PROVE  u = v
<1>1. 0 \in 0..SizeOf[u] - 1 /\ 0 \in 0..SizeOf[v] - 1
  BY SizeAssumption
<1>2. /\ sectors[o + 0] = [image |-> u, index |-> 0]
      /\ sectors[o + 0] = [image |-> v, index |-> 0]
  BY <1>1, Zenon DEF Holds
<1>3. [image |-> u, index |-> 0].image = [image |-> v, index |-> 0].image
  BY <1>2
<1>4. QED
  BY <1>3

LEMMA ContentIs ==
  ASSUME TInv, NEW s \in Slots, NEW v \in Values,
         Holds(location[s].offset, v)
  PROVE  Content(s) = v
<1> DEFINE u == CHOOSE x \in Values : Holds(location[s].offset, x)
<1>1. u \in Values /\ Holds(location[s].offset, u)
  OBVIOUS
<1>2. location[s].offset \in Nat
  BY EntryTypes
<1>3. u = v
  BY <1>1, <1>2, HoldsUnique
<1>4. QED
  BY <1>3, Zenon DEF Content

LEMMA ContentAbsent ==
  ASSUME NEW s \in Slots, location[s] = NoEntry
  PROVE  Content(s) = Absent
  BY DEF Content, Holds, NoEntry, FirstDataSector

LEMMA HoldsKept ==
  ASSUME NEW o, NEW v, Holds(o, v),
         \A k \in 0..SizeOf[v] - 1 : sectors'[o + k] = sectors[o + k]
  PROVE  Holds(o, v)'
  BY DEF Holds

\* A write beyond the extent of s, at i, leaves the chunk of s as it is.
LEMMA WriteBeyond ==
  ASSUME TInv, TInv', location' = location, size' >= size,
         NEW s \in Slots, EntrySound(s),
         NEW i \in Nat, location[s].offset + location[s].count <= i,
         \A j \in DataSectors : j # i => sectors'[j] = sectors[j]
  PROVE  EntrySound(s)' /\ Content(s)' = Content(s)
<1>1. CASE location[s] = NoEntry
  <2>1. Content(s) = Absent
    BY <1>1, ContentAbsent
  <2>2. Content(s)' = Absent
    BY <1>1 DEF Content, Holds, NoEntry, FirstDataSector
  <2>3. QED
    BY <1>1, <2>1, <2>2 DEF EntrySound
<1>2. CASE location[s] # NoEntry
  <2>1. PICK v \in Values : /\ location[s].count = SizeOf[v]
                            /\ Holds(location[s].offset, v)
    BY <1>2 DEF EntrySound
  <2>2. ASSUME NEW k \in 0..SizeOf[v] - 1
        PROVE  sectors'[location[s].offset + k] = sectors[location[s].offset + k]
    <3>1. location[s].offset \in Nat /\ SizeOf[v] \in 1..255
      BY EntryTypes, SizeAssumption
    <3>2. /\ location[s].offset >= FirstDataSector
          /\ location[s].offset + SizeOf[v] <= MaxSectors
      BY <2>1 DEF Holds
    <3>3. /\ location[s].offset + k \in FirstDataSector..MaxSectors - 1
          /\ location[s].offset + k # i
      BY <2>1, <3>1, <3>2, BoundAssumption, SMTT(30) DEF FirstDataSector
    <3>4. QED
      BY <3>3 DEF DataSectors
  <2>3. Holds(location[s].offset, v)'
    <3>1. \A k \in 0..SizeOf[v] - 1 :
             sectors'[location[s].offset + k] = sectors[location[s].offset + k]
      BY <2>2
    <3>2. Holds(location[s].offset, v)
      BY <2>1
    <3>3. QED
      BY <3>1, <3>2 DEF Holds
  <2>4. Content(s) = v
    BY <2>1, ContentIs
  <2>5. Content(s)' = v
    <3>1. (TInv /\ Holds(location[s].offset, v) => Content(s) = v)'
      BY ContentIs, PTL
    <3>2. QED
      BY <3>1, <2>3
  <2>6. location[s].offset + location[s].count <= size'
    <3>1. location[s].offset + location[s].count <= size
      BY <1>2 DEF EntrySound
    <3>2. location[s].offset \in Nat /\ location[s].count \in 0..255
      BY EntryTypes
    <3>3. size \in 0..MaxSectors /\ size' \in 0..MaxSectors
      BY DEF TInv, TypeOK
    <3>4. QED
      BY <3>1, <3>2, <3>3, BoundAssumption
  <2>7. EntrySound(s)'
    BY <2>1, <2>3, <2>6 DEF EntrySound
  <2>8. QED
    BY <2>4, <2>5, <2>7
<1>3. QED
  BY <1>1, <1>2

LEMMA InitIInv == Init => IInv
<1> SUFFICES ASSUME Init PROVE IInv
  OBVIOUS
<1>1. TInv
  BY InitTInv
<1>2. \A s \in Slots : location[s] = NoEntry
  BY DEF Init
<1>3. EntriesSound
  BY <1>2 DEF EntriesSound, EntrySound
<1>4. ExtentsDisjoint
  BY <1>2 DEF ExtentsDisjoint, Extent, NoEntry
<1>5. HeaderInv
  BY <1>2 DEF Init, HeaderInv
<1>6. \A w \in Writers : ThreadInv(w)
  BY DEF Init, ThreadInv
<1>7. QED
  BY <1>1, <1>3, <1>4, <1>5, <1>6 DEF IInv

\* Entries stay sound and disjoint when neither they nor the sectors change.
LEMMA SoundUnchanged ==
  ASSUME IInv, location' = location, sectors' = sectors, size' = size
  PROVE  /\ EntriesSound'
         /\ ExtentsDisjoint'
         /\ \A s \in Slots : Content(s)' = Content(s)
  BY DEF IInv, EntriesSound, EntrySound, ExtentsDisjoint, Extent, Holds, Content

\* A thread between two calls, or that only moves on, keeps its part.
LEMMA QuietThread ==
  ASSUME IInv, [Next]_vars, SingleWriter, NEW w \in Writers,
         UNCHANGED <<size, location, sectors>>,
         (file' = "present") <=> (file = "present"),
         pc'[w] # "create" \/ file # "present",
         pc'[w] # "header",
         pc'[w] \notin {"read", "seek"} \/ file = "present",
         pc'[w] # "read" \/ job'[w] = "load",
         pc'[w] # "seek" \/ job'[w] = "save",
         pc'[w] \notin {"data", "entry"}
  PROVE  IInv'
<1>1. TInv'
  BY NextTInv DEF IInv
<1>2. EntriesSound' /\ ExtentsDisjoint'
  BY SoundUnchanged
<1>3. HeaderInv'
  BY DEF IInv, HeaderInv
<1>4. ThreadInv(w)'
  BY DEF IInv, ThreadInv
<1>5. \A u \in Writers : u = w
  BY DEF SingleWriter
<1>6. QED
  BY <1>1, <1>2, <1>3, <1>4, <1>5 DEF IInv

\* The write of a sector, whole or not, at the place where w is.
LEMMA SectorWritten ==
  ASSUME IInv, TInv', NEW w \in Writers, pc[w] = "data",
         location' = location, size' >= size,
         NEW x, sectors' = [sectors EXCEPT ![at[w] + part[w]] = x]
  PROVE  /\ EntriesSound'
         /\ ExtentsDisjoint'
         /\ \A s \in Slots : Content(s)' = Content(s)
<1>1. TInv /\ at[w] \in Nat /\ part[w] \in Nat /\ at[w] + part[w] \in Nat
  BY Reach, BoundAssumption, SMTT(30) DEF IInv
<1>2. \A j \in DataSectors : j # at[w] + part[w] => sectors'[j] = sectors[j]
  BY <1>1 DEF TInv, TypeOK
<1>3. ASSUME NEW s \in Slots
      PROVE  EntrySound(s)' /\ Content(s)' = Content(s)
  <2>1. location[s].offset + location[s].count <= at[w]
    BY DEF IInv, ThreadInv, Beyond
  <2>2. location[s].offset \in Nat /\ location[s].count \in Nat
    BY <1>1, EntryTypes
  <2>3. location[s].offset + location[s].count <= at[w] + part[w]
    BY <1>1, <2>1, <2>2, Weaken
  <2>4. EntrySound(s)
    BY DEF IInv, EntriesSound
  <2>5. QED
    BY <1>1, <1>2, <2>3, <2>4, WriteBeyond
<1>4. ExtentsDisjoint'
  BY DEF IInv, ExtentsDisjoint, Extent
<1>5. QED
  BY <1>3, <1>4 DEF EntriesSound

LEMMA NextIInv ==
  ASSUME IInv, [Next]_vars, SingleWriter, OffsetsFit
  PROVE  IInv'
<1> USE DEF Goto
<1>0. TInv'
  BY NextTInv DEF IInv
<1>1. ASSUME NEW w \in Writers, NEW s \in Slots, NEW v \in Values,
             SaveChunk(w, s, v)
      PROVE  IInv'
  <2>1. /\ UNCHANGED <<size, location, sectors>> /\ pc'[w] = "open"
        /\ (file' = "present") <=> (file = "present")
    BY <1>1 DEF SaveChunk, IInv, TInv, TypeOK
  <2>2. QED
    BY <2>1, QuietThread DEF fileVars
<1>2. ASSUME NEW w \in Writers, NEW s \in Slots, LoadChunk(w, s)
      PROVE  IInv'
  <2>1. UNCHANGED fileVars /\ pc'[w] = "open"
    BY <1>2 DEF LoadChunk, IInv, TInv, TypeOK
  <2>2. QED
    BY <2>1, QuietThread DEF fileVars
<1>3. ASSUME NEW w \in Writers, Open(w) PROVE IInv'
  <2>1. /\ UNCHANGED fileVars /\ job' = job
        /\ pc'[w] = IF file = "present" THEN AfterOpen(w) ELSE "create"
    BY <1>3 DEF Open, IInv, TInv, TypeOK
  <2>2. job[w] \in {"save", "load"}
    BY DEF IInv, TInv, TypeOK
  <2>3. /\ pc'[w] # "create" \/ file # "present"
        /\ pc'[w] \notin {"read", "seek"} \/ file = "present"
        /\ pc'[w] # "read" \/ job'[w] = "load"
        /\ pc'[w] # "seek" \/ job'[w] = "save"
        /\ pc'[w] \notin {"header", "data", "entry"}
    BY <2>1, <2>2 DEF AfterOpen
  <2>4. QED
    BY <2>1, <2>3, QuietThread DEF fileVars
<1>4. ASSUME NEW w \in Writers, Create(w) PROVE IInv'
  <2>1. size' = 0 /\ file' = "present" /\ pc'[w] = "header"
    BY <1>4 DEF Create, IInv, TInv, TypeOK
  <2>2. \A s \in Slots : location'[s] = NoEntry
    BY <1>4 DEF Create
  <2>3. EntriesSound' /\ ExtentsDisjoint'
    BY <2>2 DEF EntriesSound, EntrySound, ExtentsDisjoint, Extent, NoEntry
  <2>4. HeaderInv'
    BY <2>1, <2>2 DEF HeaderInv
  <2>5. \A u \in Writers : ThreadInv(u)'
    BY <2>1 DEF ThreadInv, SingleWriter
  <2>6. QED
    BY <1>0, <2>3, <2>4, <2>5 DEF IInv
<1>5. ASSUME NEW w \in Writers, WriteHeader(w) PROVE IInv'
  <2>1. size' >= FirstDataSector
    BY <1>5, BoundAssumption
    DEF WriteHeader, Later, FirstDataSector, IInv, TInv, TypeOK
  <2>2. \A s \in Slots : location'[s] = NoEntry
    BY <1>5 DEF WriteHeader
  <2>3. EntriesSound' /\ ExtentsDisjoint'
    BY <2>2 DEF EntriesSound, EntrySound, ExtentsDisjoint, Extent, NoEntry
  <2>4. file = "present"
    BY <1>5 DEF WriteHeader, IInv, ThreadInv
  <2>5. HeaderInv'
    BY <1>5, <2>2, <2>4 DEF HeaderInv, WriteHeader
  <2>6. pc'[w] = AfterOpen(w) /\ job' = job /\ file' = "present"
    BY <1>5 DEF WriteHeader, IInv, TInv, TypeOK, ThreadInv
  <2>7. job[w] \in {"save", "load"}
    BY DEF IInv, TInv, TypeOK
  <2>8. ThreadInv(w)'
    BY <2>6, <2>7 DEF ThreadInv, AfterOpen
  <2>9. \A u \in Writers : ThreadInv(u)'
    BY <2>8 DEF SingleWriter
  <2>10. QED
    BY <1>0, <2>3, <2>5, <2>9 DEF IInv
<1>6. ASSUME NEW w \in Writers, ReadFound(w) PROVE IInv'
  <2>1. UNCHANGED fileVars /\ pc'[w] = "idle"
    BY <1>6 DEF ReadFound, IInv, TInv, TypeOK
  <2>2. QED
    BY <2>1, QuietThread DEF fileVars
<1>7. ASSUME NEW w \in Writers, ReadNothing(w) \/ ReadFails(w) PROVE IInv'
  <2>1. UNCHANGED fileVars /\ pc'[w] = "open"
    BY <1>7 DEF ReadNothing, ReadFails, SaveFresh, IInv, TInv, TypeOK
  <2>2. QED
    BY <2>1, QuietThread DEF fileVars
<1>8. ASSUME NEW w \in Writers, SeekEnd(w) PROVE IInv'
  <2>1. /\ UNCHANGED fileVars /\ job' = job
        /\ pc[w] = "seek" /\ pc'[w] = "data"
        /\ at'[w] = Later(size, FirstDataSector)
        /\ part'[w] = 0
    BY <1>8 DEF SeekEnd, IInv, TInv, TypeOK
  <2>2. EntriesSound' /\ ExtentsDisjoint'
    BY <2>1, SoundUnchanged DEF fileVars
  <2>3. HeaderInv'
    BY <2>1 DEF IInv, HeaderInv, fileVars
  <2>4. ASSUME NEW s \in Slots
        PROVE  location[s].offset + location[s].count
                 <= Later(size, FirstDataSector)
    <3>1. size \in Nat
      BY BoundAssumption DEF IInv, TInv, TypeOK
    <3>2. Later(size, FirstDataSector) >= size
          /\ Later(size, FirstDataSector) >= 0
      BY <3>1 DEF Later, FirstDataSector
    <3>3. CASE location[s] = NoEntry
      BY <3>2, <3>3 DEF NoEntry
    <3>4. CASE location[s] # NoEntry
      <4>1. location[s].offset + location[s].count <= size
        BY <3>4 DEF IInv, EntriesSound, EntrySound
      <4>2. location[s].offset \in Nat /\ location[s].count \in 0..255
        BY EntryTypes DEF IInv
      <4>3. Later(size, FirstDataSector) \in Nat
        BY <3>1 DEF Later, FirstDataSector
      <4>4. QED
        BY <3>1, <3>2, <4>1, <4>2, <4>3
    <3>5. QED
      BY <3>3, <3>4
  <2>5. Beyond(w)'
    BY <2>1, <2>4 DEF Beyond, fileVars
  <2>6. Written(w)'
    BY <2>1 DEF Written
  <2>7. job[w] = "save" /\ file' = "present"
    BY <2>1 DEF IInv, ThreadInv, fileVars
  <2>8. ThreadInv(w)'
    BY <2>1, <2>5, <2>6, <2>7 DEF ThreadInv
  <2>9. \A u \in Writers : ThreadInv(u)'
    BY <2>8 DEF SingleWriter
  <2>10. QED
    BY <1>0, <2>2, <2>3, <2>9 DEF IInv
<1>9. ASSUME NEW w \in Writers, WriteSector(w) PROVE IInv'
  <2> DEFINE i == at[w] + part[w]
  <2>1. /\ location' = location /\ file' = file /\ at' = at
        /\ val' = val /\ job' = job
        /\ pc[w] = "data"
        /\ size' = Later(size, i + 1)
        /\ part'[w] = part[w] + 1
        /\ pc'[w] = IF part[w] + 1 = SizeOf[val[w]] THEN "entry" ELSE "data"
        /\ sectors' = [sectors EXCEPT
                         ![i] = [image |-> val[w], index |-> part[w]]]
    BY <1>9 DEF WriteSector, IInv, TInv, TypeOK
  <2>2. /\ TInv
        /\ SizeOf[val[w]] \in 1..255
        /\ part[w] \in 0..255
        /\ at[w] \in 0..MaxSectors
        /\ size \in 0..MaxSectors
        /\ MaxSectors \in Nat
    BY Reach DEF IInv
  <2>3. /\ part[w] < SizeOf[val[w]]
        /\ at[w] >= 2
        /\ at[w] + SizeOf[val[w]] <= MaxSectors
    BY <2>1, <2>2, ReachData
  <2>4. size' >= size /\ size' >= i + 1 /\ size' >= 2 /\ i \in DataSectors
    <3>1. Later(size, i + 1) >= size /\ Later(size, i + 1) >= i + 1
      BY <2>2, <2>3, SectorFits, ZenonT(40)
    <3>2. Later(size, i + 1) >= 2 /\ i \in DataSectors
      BY <2>2, <2>3, SectorFits, ZenonT(40) DEF DataSectors, FirstDataSector
    <3>3. QED
      BY <2>1, <3>1, <3>2
  <2>5. EntriesSound' /\ ExtentsDisjoint'
    BY <1>0, <2>1, <2>4, SectorWritten
  <2>6. HeaderInv'
    <3>1. file = "present" /\ size' \in Nat
      BY <1>0, <2>1, <2>2 DEF IInv, ThreadInv, TInv, TypeOK
    <3>2. ~(size' < FirstDataSector)
      BY <2>4, <3>1 DEF FirstDataSector
    <3>3. QED
      BY <2>1, <3>1, <3>2 DEF HeaderInv
  <2>7. Beyond(w)'
    BY <2>1 DEF IInv, ThreadInv, Beyond
  <2>8. Written(w)'
    <3>1. \A k \in 0..part[w] - 1 :
             sectors[at[w] + k] = [image |-> val[w], index |-> k]
      BY <2>1 DEF IInv, ThreadInv, Written
    <3>2. sectors'[i] = [image |-> val[w], index |-> part[w]]
      BY <2>1, <2>2, <2>4 DEF TInv, TypeOK
    <3>3. ASSUME NEW k \in 0..part[w]
          PROVE  sectors'[at[w] + k] = [image |-> val[w], index |-> k]
      <4>1. CASE k = part[w]
        BY <3>2, <4>1
      <4>2. CASE k # part[w]
        <5>1. /\ k \in 0..part[w] - 1
              /\ at[w] + k # i
              /\ at[w] + k \in 2..MaxSectors - 1
          BY <2>2, <2>3, <4>2, EarlierPart
        <5>2. at[w] + k \in DataSectors
          BY <5>1 DEF DataSectors, FirstDataSector
        <5>3. QED
          BY <2>1, <2>2, <3>1, <5>1, <5>2 DEF TInv, TypeOK
      <4>3. QED
        BY <4>1, <4>2
    <3>4. 0..part'[w] - 1 = 0..part[w]
      BY <2>1, <2>2, NextPart
    <3>5. at[w] + part'[w] <= size'
      BY <2>1, <2>2, <2>4
    <3>6. QED
      BY <2>1, <3>3, <3>4, <3>5 DEF Written
  <2>9. ThreadInv(w)'
    BY <2>1, <2>7, <2>8 DEF IInv, ThreadInv
  <2>10. \A u \in Writers : ThreadInv(u)'
    BY <2>9 DEF SingleWriter
  <2>11. QED
    BY <1>0, <2>5, <2>6, <2>10 DEF IInv
<1>10. ASSUME NEW w \in Writers, WriteEntry(w) PROVE IInv'
  <2>1. /\ file' = file /\ size' = size /\ sectors' = sectors /\ val' = val
        /\ pc[w] = "entry" /\ pc'[w] = "idle"
    BY <1>10 DEF WriteEntry, IInv, TInv, TypeOK
  <2>2. /\ TInv /\ Beyond(w) /\ Written(w) /\ part[w] = SizeOf[val[w]]
        /\ file = "present"
    BY <2>1 DEF IInv, ThreadInv
  <2>3. /\ at[w] \in Nat /\ at[w] >= 2
        /\ SizeOf[val[w]] \in 1..255 /\ val[w] \in Values
        /\ at[w] + SizeOf[val[w]] <= MaxSectors
        /\ slot[w] \in Slots
    BY <2>1, <2>2, Reach, BoundAssumption DEF WithinReach, TInv, FirstDataSector
  <2>4. location' = [location EXCEPT ![slot[w]] =
                       [offset |-> at[w], count |-> SizeOf[val[w]]]]
    <3>1. at[w] % OffsetLimit = at[w] /\ SizeOf[val[w]] % 256 = SizeOf[val[w]]
      BY <2>3, EntryFits DEF OffsetsFit
    <3>2. QED
      BY <1>10, <3>1 DEF WriteEntry
  <2>5. location'[slot[w]] = [offset |-> at[w], count |-> SizeOf[val[w]]]
    BY <2>2, <2>3, <2>4 DEF TInv, TypeOK
  <2>6. \A s \in Slots : s # slot[w] => location'[s] = location[s]
    BY <2>2, <2>4 DEF TInv, TypeOK
  <2>7. ASSUME NEW s \in Slots PROVE EntrySound(s)'
    <3>1. CASE s = slot[w]
      <4>1. at[w] + SizeOf[val[w]] <= size
        BY <2>2, <2>3 DEF Written
      <4>2. Holds(at[w], val[w])
        BY <2>2, <2>3 DEF Written, Holds, FirstDataSector
      <4>3. Holds(location[s].offset, val[w])'
        BY <2>1, <2>5, <3>1, <4>2, <1>10 DEF Holds, WriteEntry
      <4>4. /\ location'[s].offset = at[w]
            /\ location'[s].count = SizeOf[val[w]]
        BY <2>5, <3>1
      <4>5. location'[s].offset + location'[s].count <= size'
        BY <2>1, <4>1, <4>4
      <4>6. QED
        BY <2>1, <2>3, <4>3, <4>4, <4>5, Zenon DEF EntrySound
    <3>2. CASE s # slot[w]
      BY <2>1, <2>6, <3>2 DEF IInv, EntriesSound, EntrySound, Holds
    <3>3. QED
      BY <3>1, <3>2
  <2>8. ASSUME NEW t \in Slots
        PROVE  Extent(t) \cap (at[w]..at[w] + SizeOf[val[w]] - 1) = {}
    <3>1. /\ location[t].offset + location[t].count <= at[w]
          /\ location[t].offset \in Nat /\ location[t].count \in Nat
      BY <2>2, EntryTypes DEF Beyond
    <3>2. SizeOf[val[w]] \in Nat
      BY <2>3
    <3>3. QED
      BY <2>3, <3>1, <3>2, ApartExtents DEF Extent
  <2>9. ExtentsDisjoint'
    <3>1. Extent(slot[w])' = at[w]..at[w] + SizeOf[val[w]] - 1
      BY <1>10, <2>5 DEF Extent, WriteEntry
    <3>2. \A t \in Slots : t # slot[w] => Extent(t)' = Extent(t)
      BY <2>6 DEF Extent
    <3>3. slot' = slot
      BY <1>10 DEF WriteEntry
    <3>4. ASSUME NEW s \in Slots, NEW t \in Slots, s # t
          PROVE  Extent(s)' \cap Extent(t)' = {}
      <4>1. CASE s = slot[w]
        BY <2>8, <3>1, <3>2, <3>3, <3>4, <4>1, Zenon
      <4>2. CASE t = slot[w]
        BY <2>8, <3>1, <3>2, <3>3, <3>4, <4>2, Zenon
      <4>3. CASE s # slot[w] /\ t # slot[w]
        BY <3>2, <3>4, <4>3 DEF IInv, ExtentsDisjoint
      <4>4. QED
        BY <4>1, <4>2, <4>3
    <3>5. QED
      BY <3>4 DEF ExtentsDisjoint
  <2>10. HeaderInv'
    <3>1. size >= 2 /\ size \in Nat
      BY <2>2, <2>3, BoundAssumption DEF Written, TInv, TypeOK
    <3>2. QED
      BY <2>1, <2>2, <3>1 DEF HeaderInv, FirstDataSector
  <2>11. \A u \in Writers : ThreadInv(u)'
    BY <2>1 DEF ThreadInv, SingleWriter
  <2>12. QED
    BY <1>0, <2>7, <2>9, <2>10, <2>11 DEF IInv, EntriesSound
<1>11. ASSUME NEW w \in Writers, WriteFails(w) PROVE IInv'
  <2>1. UNCHANGED fileVars /\ pc'[w] = "idle"
    BY <1>11 DEF WriteFails, IInv, TInv, TypeOK
  <2>2. QED
    BY <2>1, QuietThread DEF fileVars
<1>12. ASSUME NEW w \in Writers, CrashInWrite(w) PROVE IInv'
  <2>1. /\ location' = location /\ file' = file
        /\ pc[w] = "data" /\ pc'[w] = "idle"
        /\ size' = Later(size, at[w] + part[w])
        /\ sectors' = [sectors EXCEPT ![at[w] + part[w]] = Blank]
    BY <1>12 DEF CrashInWrite, AllIdle
  <2>2. size' >= size
    <3>1. /\ TInv /\ SizeOf[val[w]] \in 1..255 /\ part[w] \in 0..255
          /\ at[w] \in 0..MaxSectors /\ size \in 0..MaxSectors
          /\ MaxSectors \in Nat
      BY Reach DEF IInv
    <3>2. /\ part[w] < SizeOf[val[w]]
          /\ at[w] + SizeOf[val[w]] <= MaxSectors
      BY <2>1, <3>1, ReachData
    <3>3. QED
      BY <2>1, <3>1, <3>2, SectorFits, ZenonT(40)
  <2>3. EntriesSound' /\ ExtentsDisjoint'
    BY <1>0, <2>1, <2>2, SectorWritten
  <2>4. file' = "present"
    BY <2>1 DEF IInv, ThreadInv
  <2>5. HeaderInv'
    <3>1. size \in Nat /\ size' \in Nat
      BY <1>0, BoundAssumption DEF IInv, TInv, TypeOK
    <3>2. size' < FirstDataSector => size < FirstDataSector
      BY <2>2, <3>1 DEF FirstDataSector
    <3>3. QED
      BY <2>1, <2>4, <3>2 DEF IInv, HeaderInv
  <2>6. \A u \in Writers : ThreadInv(u)'
    BY <2>1 DEF ThreadInv, SingleWriter
  <2>7. QED
    BY <1>0, <2>3, <2>5, <2>6 DEF IInv
<1>13. CASE Crash
  <2>1. PICK w \in Writers : pc[w] # "idle"
    BY <1>13 DEF Crash
  <2>2. UNCHANGED fileVars /\ pc'[w] = "idle"
    BY <1>13 DEF Crash, AllIdle
  <2>3. QED
    BY <2>2, QuietThread DEF fileVars
<1>14. ASSUME NEW w \in Writers, CannotCreate(w) PROVE IInv'
  <2>1. UNCHANGED fileVars /\ pc'[w] = "idle"
    BY <1>14 DEF CannotCreate, AllIdle
  <2>2. QED
    BY <2>1, QuietThread DEF fileVars
<1>15. ASSUME NEW w \in Writers, HeaderFails(w) PROVE IInv'
  <2>1. /\ UNCHANGED fileVars /\ job' = job /\ file = "present"
        /\ pc'[w] = AfterOpen(w)
    BY <1>15 DEF HeaderFails, IInv, TInv, TypeOK, ThreadInv
  <2>2. job[w] \in {"save", "load"}
    BY DEF IInv, TInv, TypeOK
  <2>3. /\ pc'[w] # "read" \/ job'[w] = "load"
        /\ pc'[w] # "seek" \/ job'[w] = "save"
        /\ pc'[w] \notin {"create", "header", "data", "entry"}
    BY <2>1, <2>2 DEF AfterOpen
  <2>4. QED
    BY <2>1, <2>3, QuietThread DEF fileVars
<1>16. CASE UNCHANGED vars
  BY <1>16, <1>0 DEF vars, IInv, HeaderInv, EntriesSound, EntrySound, Holds,
     ExtentsDisjoint, Extent, ThreadInv, Beyond, Written
<1>17. QED
  BY <1>1, <1>2, <1>3, <1>4, <1>5, <1>6, <1>7, <1>8, <1>9, <1>10, <1>11,
     <1>12, <1>13, <1>14, <1>15, <1>16 DEF Next, Step

LEMMA Inductive ==
  ASSUME SingleWriter, OffsetsFit
  PROVE  Spec => []IInv
<1>1. IInv /\ [Next]_vars => IInv'
  BY NextIInv
<1>2. QED
  BY <1>1, InitIInv, PTL DEF Spec

\* One thread, saving and loading, failing and crashing at any point, never
\* leaves an entry that leads anywhere but to a whole image in the file.
THEOREM SoundEntries ==
  ASSUME SingleWriter, OffsetsFit
  PROVE  Spec => []EntriesSound
  BY Inductive, PTL DEF IInv

\* ... and never lets two chunks share a sector.
THEOREM DisjointExtents ==
  ASSUME SingleWriter, OffsetsFit
  PROVE  Spec => []ExtentsDisjoint
  BY Inductive, PTL DEF IInv

\* The place of a save that is under way belongs to no chunk, so what it
\* leaves there when it fails or the process dies harms none.
THEOREM AppendsBeyond ==
  ASSUME SingleWriter, OffsetsFit
  PROVE  Spec => []AppendsBeyondLiveData
<1>1. ASSUME IInv PROVE AppendsBeyondLiveData
  <2> SUFFICES ASSUME NEW w \in Writers, pc[w] \in {"data", "entry"},
                      NEW s \in Slots
               PROVE  Extent(s) \cap (at[w]..at[w] + SizeOf[val[w]] - 1) = {}
    BY DEF AppendsBeyondLiveData
  <2>1. location[s].offset + location[s].count <= at[w]
    BY <1>1 DEF IInv, ThreadInv, Beyond
  <2>2. location[s].offset \in Nat /\ location[s].count \in Nat
    BY <1>1, EntryTypes DEF IInv
  <2>3. at[w] \in Nat /\ SizeOf[val[w]] \in Nat
    BY <1>1, Reach, BoundAssumption DEF IInv
  <2>4. QED
    BY <2>1, <2>2, <2>3, ApartExtents DEF Extent
<1>2. QED
  BY <1>1, Inductive, PTL

\* A file that exists is never truncated: the only thread that could have
\* created it since the constructor looked is the one that is looking.
THEOREM NoTruncation ==
  ASSUME SingleWriter, OffsetsFit
  PROVE  Spec => NeverTruncated
<1>1. ASSUME IInv, [Next]_vars
      PROVE  [file = "present" => (file' = "present" /\ size' >= size)]_vars
  <2> SUFFICES ASSUME file = "present" PROVE file' = "present" /\ size' >= size
    OBVIOUS
  <2>1. size \in 0..MaxSectors /\ size \in Nat
    BY <1>1, BoundAssumption DEF IInv, TInv, TypeOK
  <2>2. ASSUME NEW w \in Writers, Create(w) PROVE FALSE
    BY <1>1, <2>2 DEF Create, IInv, ThreadInv
  <2>3. ASSUME NEW w \in Writers, WriteHeader(w)
        PROVE  file' = "present" /\ size' >= size
    BY <2>1, <2>3 DEF WriteHeader, Later, FirstDataSector
  <2>4. ASSUME NEW w \in Writers, WriteSector(w) \/ CrashInWrite(w)
        PROVE  file' = "present" /\ size' >= size
    <3>1. /\ SizeOf[val[w]] \in 1..255 /\ part[w] \in 0..255
          /\ at[w] \in 0..MaxSectors /\ MaxSectors \in Nat
      BY <1>1, Reach DEF IInv
    <3>2. pc[w] = "data"
      BY <2>4 DEF WriteSector, CrashInWrite
    <3>3. /\ part[w] < SizeOf[val[w]]
          /\ at[w] + SizeOf[val[w]] <= MaxSectors
      BY <1>1, <3>2, ReachData DEF IInv
    <3>4. /\ Later(size, at[w] + part[w]) >= size
          /\ Later(size, at[w] + part[w] + 1) >= size
      BY <2>1, <3>1, <3>3, SectorFits, ZenonT(40)
    <3>5. QED
      BY <2>4, <3>4 DEF WriteSector, CrashInWrite
  <2>5. CASE UNCHANGED <<file, size>>
    BY <2>1, <2>5
  <2>6. ASSUME NEW w \in Writers, NEW s \in Slots, NEW v \in Values,
               SaveChunk(w, s, v)
        PROVE  UNCHANGED <<file, size>>
    BY <2>6 DEF SaveChunk
  <2>7. QED
    BY <1>1, <2>2, <2>3, <2>4, <2>5, <2>6
    DEF Next, Step, vars, fileVars, LoadChunk, Open, CannotCreate, ReadFound,
        ReadNothing, ReadFails, SaveFresh, SeekEnd, WriteEntry, HeaderFails,
        WriteFails, Crash
<1>2. QED
  BY <1>1, Inductive, PTL DEF Spec, NeverTruncated

(***************************************************************************)
(* Refinement: what the store holds is what the entries lead to, and every *)
(* step of the file is a step of the store or leaves it as it is.          *)
(***************************************************************************)
LEMMA InitStore == Init => Store!Init
  BY ContentAbsent DEF Init, Store!Init, saving

LEMMA StoreUnchanged ==
  ASSUME \A s \in Slots : Content(s)' = Content(s),
         \A w \in Writers : saving'[w] = saving[w]
  PROVE  UNCHANGED Store!vars
  BY DEF Store!vars, saving

LEMMA StepImplements ==
  ASSUME IInv, [Next]_vars, SingleWriter, OffsetsFit
  PROVE  [Store!Next]_Store!vars
<1> USE DEF Goto, fileVars
<1> DEFINE Kept == \A s \in Slots : Content(s)' = Content(s)
<1>0. IInv'
  BY NextIInv
<1>1. ASSUME UNCHANGED <<size, location, sectors>> PROVE Kept
  BY <1>1, SoundUnchanged
<1>2. ASSUME Kept, NEW w \in Writers, saving'[w] = saving[w]
      PROVE  UNCHANGED Store!vars
  BY <1>2, StoreUnchanged DEF SingleWriter
<1>3. ASSUME NEW w \in Writers, NEW s \in Slots, NEW v \in Values,
             SaveChunk(w, s, v)
      PROVE  Store!Next
  <2>1. Kept
    BY <1>1, <1>3 DEF SaveChunk
  <2>2. saving[w] = Absent
    BY <1>3 DEF SaveChunk, saving
  <2>3. saving' = [saving EXCEPT ![w] = <<s, v>>]
    BY <1>3 DEF SaveChunk, saving, SingleWriter, IInv, TInv, TypeOK
  <2>4. QED
    BY <2>1, <2>2, <2>3 DEF Store!Begin, Store!Next
<1>4. ASSUME NEW w \in Writers, NEW s \in Slots, LoadChunk(w, s)
      PROVE  UNCHANGED Store!vars
  BY <1>1, <1>2, <1>4 DEF LoadChunk, saving, IInv, TInv, TypeOK
<1>5. ASSUME NEW w \in Writers, Open(w) PROVE UNCHANGED Store!vars
  BY <1>1, <1>2, <1>5 DEF Open, AfterOpen, saving, IInv, TInv, TypeOK
<1>6. ASSUME NEW w \in Writers, Create(w) PROVE UNCHANGED Store!vars
  <2>1. \A s \in Slots : location[s] = NoEntry
    BY <1>6, BoundAssumption
    DEF Create, IInv, ThreadInv, HeaderInv, FirstDataSector
  <2>2. \A s \in Slots : location'[s] = NoEntry
    BY <1>6 DEF Create
  <2>3. Kept
    BY <2>1, <2>2 DEF Content, Holds, NoEntry, FirstDataSector
  <2>4. QED
    BY <1>2, <1>6, <2>3 DEF Create, saving, IInv, TInv, TypeOK
<1>7. ASSUME NEW w \in Writers, WriteHeader(w) PROVE UNCHANGED Store!vars
  <2>1. \A s \in Slots : location[s] = NoEntry
    BY <1>7, BoundAssumption
    DEF WriteHeader, IInv, ThreadInv, HeaderInv, FirstDataSector
  <2>2. \A s \in Slots : location'[s] = NoEntry
    BY <1>7 DEF WriteHeader
  <2>3. Kept
    BY <2>1, <2>2 DEF Content, Holds, NoEntry, FirstDataSector
  <2>4. QED
    BY <1>2, <1>7, <2>3 DEF WriteHeader, AfterOpen, saving, IInv, TInv, TypeOK
<1>8. ASSUME NEW w \in Writers, ReadFound(w) PROVE UNCHANGED Store!vars
  BY <1>1, <1>2, <1>8 DEF ReadFound, saving, IInv, TInv, TypeOK, ThreadInv
<1>9. ASSUME NEW w \in Writers, ReadNothing(w) \/ ReadFails(w)
      PROVE  Store!Next
  <2>1. Kept
    BY <1>1, <1>9 DEF ReadNothing, ReadFails, SaveFresh
  <2>2. saving[w] = Absent
    BY <1>9 DEF ReadNothing, ReadFails, SaveFresh, saving, IInv, ThreadInv
  <2>3. saving' = [saving EXCEPT ![w] = <<slot[w], Fresh>>]
    BY <1>9
    DEF ReadNothing, ReadFails, SaveFresh, saving, SingleWriter, IInv, TInv, TypeOK
  <2>4. slot[w] \in Slots /\ Fresh \in Values
    BY ValuesAssumption DEF IInv, TInv, TypeOK
  <2>5. QED
    BY <2>1, <2>2, <2>3, <2>4 DEF Store!Begin, Store!Next
<1>10. ASSUME NEW w \in Writers, SeekEnd(w) PROVE UNCHANGED Store!vars
  BY <1>1, <1>2, <1>10 DEF SeekEnd, saving, IInv, TInv, TypeOK
<1>11. ASSUME NEW w \in Writers, pc[w] = "data", location' = location,
              NEW x, sectors' = [sectors EXCEPT ![at[w] + part[w]] = x],
              size' = Later(size, at[w] + part[w])
                \/ size' = Later(size, at[w] + part[w] + 1)
       PROVE  Kept
  <2>1. /\ TInv /\ SizeOf[val[w]] \in 1..255 /\ part[w] \in 0..255
        /\ at[w] \in 0..MaxSectors /\ size \in 0..MaxSectors
        /\ MaxSectors \in Nat
    BY Reach DEF IInv
  <2>2. /\ part[w] < SizeOf[val[w]]
        /\ at[w] + SizeOf[val[w]] <= MaxSectors
    BY <1>11, <2>1, ReachData
  <2>3. size' >= size
    <3>1. /\ Later(size, at[w] + part[w]) >= size
          /\ Later(size, at[w] + part[w] + 1) >= size
      BY <2>1, <2>2, SectorFits
    <3>2. QED
      BY <1>11, <3>1
  <2>4. TInv'
    BY <1>0 DEF IInv
  <2>5. QED
    BY <1>11, <2>3, <2>4, SectorWritten
<1>12. ASSUME NEW w \in Writers, WriteSector(w) PROVE UNCHANGED Store!vars
  <2>1. Kept
    BY <1>11, <1>12 DEF WriteSector
  <2>2. saving'[w] = saving[w]
    BY <1>12 DEF WriteSector, saving, IInv, TInv, TypeOK
  <2>3. QED
    BY <1>2, <2>1, <2>2
<1>13. ASSUME NEW w \in Writers, WriteEntry(w) PROVE Store!Next
  <2>1. /\ pc[w] = "entry" /\ pc' = [pc EXCEPT ![w] = "idle"]
        /\ sectors' = sectors /\ size' = size
        /\ job' = job /\ slot' = slot /\ val' = val /\ at' = at
    BY <1>13 DEF WriteEntry
  <2>2. TInv /\ job[w] = "save" /\ slot[w] \in Slots /\ val[w] \in Values
    BY <2>1 DEF IInv, ThreadInv, TInv, TypeOK
  <2>3. saving[w] = <<slot[w], val[w]>> /\ saving[w] # Absent
    BY <2>1, <2>2, ValuesAssumption DEF saving
  <2>4. saving' = [saving EXCEPT ![w] = Absent]
    BY <2>1, <2>2 DEF saving, SingleWriter, TInv, TypeOK
  <2>5. \A s \in Slots : s # slot[w] => Content(s)' = Content(s)
    <3>1. \A s \in Slots : s # slot[w] => location'[s] = location[s]
      BY <1>13, <2>2 DEF WriteEntry, TInv, TypeOK
    <3>2. ASSUME NEW s \in Slots, s # slot[w] PROVE Content(s)' = Content(s)
      <4>1. location'[s].offset = location[s].offset
        BY <3>1, <3>2
      <4>2. \A v \in Values : Holds(location[s].offset, v)'
                               <=> Holds(location[s].offset, v)
        BY <2>1, <4>1 DEF Holds
      <4>3. (CHOOSE v \in Values : Holds(location[s].offset, v)')
              = CHOOSE v \in Values : Holds(location[s].offset, v)
        BY <4>2
      <4>4. QED
        BY <4>2, <4>3 DEF Content
    <3>3. QED
      BY <3>2
  <2>6. Content(slot[w])' = val[w]
    <3>1. Holds(at[w], val[w])
      <4>1. /\ at[w] >= 2 /\ at[w] + SizeOf[val[w]] <= MaxSectors
        BY <2>1, <2>2 DEF WithinReach, TInv, FirstDataSector
      <4>2. Written(w) /\ part[w] = SizeOf[val[w]]
        BY <2>1 DEF IInv, ThreadInv
      <4>3. QED
        BY <4>1, <4>2 DEF Holds, Written, FirstDataSector
    <3>2. location'[slot[w]].offset = at[w]
      <4>1. /\ at[w] \in Nat /\ SizeOf[val[w]] \in 1..255
            /\ at[w] + SizeOf[val[w]] <= MaxSectors
        BY <2>1, <2>2, Reach, BoundAssumption DEF WithinReach, TInv
      <4>2. at[w] % OffsetLimit = at[w]
        BY <4>1, EntryFits DEF OffsetsFit
      <4>3. QED
        BY <1>13, <2>2, <4>2 DEF WriteEntry, TInv, TypeOK
    <3>3. Holds(location[slot[w]].offset, val[w])'
      BY <2>1, <3>1, <3>2 DEF Holds
    <3>4. ASSUME NEW s \in Slots, NEW v \in Values
          PROVE  (TInv /\ Holds(location[s].offset, v) => Content(s) = v)'
      BY ContentIs, PTL
    <3>5. TInv'
      BY <1>0 DEF IInv
    <3>6. QED
      BY <2>1, <2>2, <3>3, <3>4, <3>5
  <2>7. [s \in Slots |-> Content(s)]'
          = [[s \in Slots |-> Content(s)] EXCEPT ![slot[w]] = val[w]]
    BY <2>1, <2>5, <2>6
  <2>8. saving[w][1] = slot[w] /\ saving[w][2] = val[w]
    BY <2>3
  <2>9. Store!Commit(w)
    BY <2>3, <2>4, <2>7, <2>8 DEF Store!Commit
  <2>10. QED
    BY <2>9 DEF Store!Next
<1>14. ASSUME NEW w \in Writers, WriteFails(w) PROVE Store!Next
  <2>1. Kept
    BY <1>1, <1>14 DEF WriteFails
  <2>2. saving[w] # Absent
    BY <1>14, ValuesAssumption
    DEF WriteFails, saving, IInv, ThreadInv, TInv, TypeOK
  <2>3. saving' = [saving EXCEPT ![w] = Absent]
    BY <1>14 DEF WriteFails, saving, SingleWriter, IInv, TInv, TypeOK
  <2>4. QED
    BY <2>1, <2>2, <2>3 DEF Store!Drop, Store!Next
<1>15. ASSUME NEW w \in Writers, CrashInWrite(w) PROVE Store!Next
  <2>1. Kept
    BY <1>11, <1>15 DEF CrashInWrite
  <2>2. saving' = [u \in Writers |-> Absent]
    BY <1>15 DEF CrashInWrite, AllIdle, saving
  <2>3. QED
    BY <2>1, <2>2 DEF Store!Abort, Store!Next
<1>16. ASSUME Crash PROVE Store!Next
  <2>1. Kept
    BY <1>1, <1>16 DEF Crash
  <2>2. saving' = [u \in Writers |-> Absent]
    BY <1>16 DEF Crash, AllIdle, saving
  <2>3. QED
    BY <2>1, <2>2 DEF Store!Abort, Store!Next
<1>17. ASSUME NEW w \in Writers, CannotCreate(w) PROVE Store!Next
  <2>1. Kept
    BY <1>1, <1>17 DEF CannotCreate
  <2>2. saving' = [u \in Writers |-> Absent]
    BY <1>17 DEF CannotCreate, AllIdle, saving
  <2>3. QED
    BY <2>1, <2>2 DEF Store!Abort, Store!Next
<1>18. ASSUME NEW w \in Writers, HeaderFails(w) PROVE UNCHANGED Store!vars
  BY <1>1, <1>2, <1>18 DEF HeaderFails, AfterOpen, saving, IInv, TInv, TypeOK
<1>19. CASE UNCHANGED vars
  BY <1>1, <1>19 DEF vars, saving, Store!vars
<1>20. QED
  BY <1>3, <1>4, <1>5, <1>6, <1>7, <1>8, <1>9, <1>10, <1>12, <1>13, <1>14,
     <1>15, <1>16, <1>17, <1>18, <1>19 DEF Next, Step

\* The file is the store of ChunkStore: a save takes effect when its entry is
\* written, wholly or not at all, and a crash loses no committed one.
THEOREM Implementation ==
  ASSUME SingleWriter, OffsetsFit
  PROVE  Spec => ImplementsStore
<1>1. IInv /\ [Next]_vars => [Store!Next]_Store!vars
  BY StepImplements
<1>2. QED
  BY <1>1, InitStore, Inductive, PTL DEF Spec, ImplementsStore, Store!Spec
=============================================================================
