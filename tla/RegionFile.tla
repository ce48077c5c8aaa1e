----------------------------- MODULE RegionFile -----------------------------
(***************************************************************************)
(* One Anvil region file (r.X.Z.mca) and the threads that call saveChunk   *)
(* and loadChunk on it (world/RegionFile.cpp, world/WorldSave.cpp).        *)
(*                                                                         *)
(* The file is two header sectors (the location and the timestamp table)   *)
(* followed by data sectors.  A save appends the chunk's sectors at the    *)
(* end of the file and then overwrites the chunk's location entry; nothing *)
(* is ever freed.  Every RegionFile object opens the file anew, so two     *)
(* threads share nothing but the file itself.                              *)
(*                                                                         *)
(* A byte is never modelled: a sector holds the part-th 4096 bytes of a    *)
(* chunk image, or nothing that can be inflated (Blank: a hole, or the     *)
(* remains of a write the process did not survive).                        *)
(***************************************************************************)
EXTENDS Integers

CONSTANTS
  Writers,      \* threads: the one in TcpClient::handle, the console thread
  Slots,        \* chunkIndex values, the entries of the location table
  Values,       \* chunk images, the bytes buildChunkNBT can produce
  Fresh,        \* the image of a default-constructed Chunk
  SizeOf,       \* sectorsNeeded of an image once deflated
  Inflatable,   \* images that fit readChunk's buffer of 8 * payloadLength
  OffsetLimit,  \* 2^24: the offset of an entry is three bytes
  MaxSectors,   \* bound on the length of the file
  Absent,       \* no image
  Blank         \* a sector without a part of an image

FirstDataSector == 2

ASSUME ValuesAssumption ==
  /\ Fresh \in Values
  /\ Absent \notin Values
  /\ Absent \notin Slots \X Values
  /\ Inflatable \subseteq Values

\* An image is at most 165253 bytes, which zlib never grows beyond 41 sectors.
ASSUME SizeAssumption == SizeOf \in [Values -> 1..255]

ASSUME BoundAssumption ==
  /\ OffsetLimit \in Nat
  /\ MaxSectors \in Nat
  /\ FirstDataSector < OffsetLimit
  /\ FirstDataSector < MaxSectors

Piece == [image : Values, index : Nat]

ASSUME BlankAssumption == Blank \notin Piece

VARIABLES
  file,      \* nowhere (not even its directory), missing, or present
  size,      \* its length in whole sectors, fileSize / 4096
  location,  \* the location table: sector offset and sector count
  sectors,   \* what each data sector holds
  pc,        \* where each thread is in saveChunk or loadChunk
  job,       \* which of the two it runs
  slot,      \* ... for which chunk
  val,       \* ... with which image
  at,        \* appendSector
  part       \* sectors of the image written so far

fileVars == <<file, size, location, sectors>>
threadVars == <<pc, job, slot, val, at, part>>
vars == <<file, size, location, sectors, pc, job, slot, val, at, part>>

Steps == {"idle", "open", "create", "header", "read", "seek", "data", "entry"}
Entry == [offset : 0..OffsetLimit - 1, count : 0..255]
NoEntry == [offset |-> 0, count |-> 0]
DataSectors == FirstDataSector..MaxSectors - 1

TypeOK ==
  /\ file \in {"nowhere", "missing", "present"}
  /\ size \in 0..MaxSectors
  /\ location \in [Slots -> Entry]
  /\ sectors \in [DataSectors -> Piece \cup {Blank}]
  /\ pc \in [Writers -> Steps]
  /\ job \in [Writers -> {"save", "load"}]
  /\ slot \in [Writers -> Slots]
  /\ val \in [Writers -> Values]
  /\ at \in [Writers -> 0..MaxSectors]
  /\ part \in [Writers -> 0..255]

-----------------------------------------------------------------------------
(* What readChunk makes of the file.                                       *)

\* The sectors from o on hold the image v, from its first part to its last.
Holds(o, v) ==
  /\ o >= FirstDataSector
  /\ o + SizeOf[v] <= MaxSectors
  /\ \A k \in 0..SizeOf[v] - 1 : sectors[o + k] = [image |-> v, index |-> k]

\* The image the entry of s leads to.  The stored length and the checksum of
\* the deflated data make anything else than a whole image unreadable.
Content(s) ==
  IF \E v \in Values : Holds(location[s].offset, v)
    THEN CHOOSE v \in Values : Holds(location[s].offset, v)
    ELSE Absent

\* What readChunk can inflate: its buffer is fixed, and an image that
\* overflows it is answered with nothing.
CanRead(s) == Content(s) \in Inflatable

Later(a, b) == IF a < b THEN b ELSE a

-----------------------------------------------------------------------------
Init ==
  /\ file \in {"nowhere", "missing"}
  /\ size = 0
  /\ location = [s \in Slots |-> NoEntry]
  /\ sectors = [i \in DataSectors |-> Blank]
  /\ pc = [w \in Writers |-> "idle"]
  /\ job = [w \in Writers |-> "load"]
  /\ slot \in [Writers -> Slots]
  /\ val = [w \in Writers |-> Fresh]
  /\ at = [w \in Writers |-> 0]
  /\ part = [w \in Writers |-> 0]

Goto(w, step) == pc' = [pc EXCEPT ![w] = step]

\* A thread enters saveChunk, which sees to it that the directory is there.
\* An image that this program never builds stands for one that was there when
\* it came to the file.
SaveChunk(w, s, v) ==
  /\ pc[w] = "idle"
  /\ Goto(w, "open")
  /\ file' = IF file = "nowhere" THEN "missing" ELSE file
  /\ job' = [job EXCEPT ![w] = "save"]
  /\ slot' = [slot EXCEPT ![w] = s]
  /\ val' = [val EXCEPT ![w] = v]
  /\ UNCHANGED <<size, location, sectors, at, part>>

\* A thread enters loadChunk, which does not.
LoadChunk(w, s) ==
  /\ pc[w] = "idle"
  /\ Goto(w, "open")
  /\ job' = [job EXCEPT ![w] = "load"]
  /\ slot' = [slot EXCEPT ![w] = s]
  /\ UNCHANGED <<fileVars, val, at, part>>

AfterOpen(w) == IF job[w] = "load" THEN "read" ELSE "seek"

\* Wrong: the constructor does not ask whether the file exists.
OpenTruncating(w) ==
  /\ pc[w] = "open"
  /\ Goto(w, "create")
  /\ UNCHANGED <<fileVars, job, slot, val, at, part>>

\* The constructor looks for the file ...
Open(w) ==
  /\ pc[w] = "open"
  /\ Goto(w, IF file = "present" THEN AfterOpen(w) ELSE "create")
  /\ UNCHANGED <<fileVars, job, slot, val, at, part>>

\* ... and otherwise opens it for output, which truncates what is there ...
Create(w) ==
  /\ pc[w] = "create" /\ file # "nowhere"
  /\ file' = "present"
  /\ size' = 0
  /\ location' = [s \in Slots |-> NoEntry]
  /\ sectors' = [i \in DataSectors |-> Blank]
  /\ Goto(w, "header")
  /\ UNCHANGED <<job, slot, val, at, part>>

\* ... and writes 8192 zero bytes over the two tables.
WriteHeader(w) ==
  /\ pc[w] = "header"
  /\ size' = Later(size, FirstDataSector)
  /\ location' = [s \in Slots |-> NoEntry]
  /\ Goto(w, AfterOpen(w))
  /\ UNCHANGED <<file, sectors, job, slot, val, at, part>>

\* The write of the tables fails (a full disk), nobody looks, and the empty
\* file is used as if they were there.
HeaderFails(w) ==
  /\ pc[w] = "header"
  /\ Goto(w, AfterOpen(w))
  /\ UNCHANGED <<fileVars, job, slot, val, at, part>>

\* readChunk finds an image it can inflate, and loadChunk returns it.
ReadFound(w) ==
  /\ pc[w] = "read"
  /\ CanRead(slot[w])
  /\ Goto(w, "idle")
  /\ UNCHANGED <<fileVars, job, slot, val, at, part>>

\* readChunk has answered nothing: loadChunk makes a fresh chunk and saves it.
SaveFresh(w) ==
  /\ Goto(w, "open")
  /\ job' = [job EXCEPT ![w] = "save"]
  /\ val' = [val EXCEPT ![w] = Fresh]
  /\ UNCHANGED <<fileVars, slot, at, part>>

\* readChunk finds nothing that it can inflate.  An empty file (its creator
\* died before the header) is read into uninitialized bytes: this answer, or
\* the process aborts.
ReadNothing(w) ==
  /\ pc[w] = "read"
  /\ ~CanRead(slot[w])
  /\ SaveFresh(w)

\* The file cannot be opened for once, or a read of it fails:
\* the answer is the same, whatever the file holds.
ReadFails(w) ==
  /\ pc[w] = "read"
  /\ SaveFresh(w)

\* Wrong: the data of an empty file goes where the header should be.
SeekEndUnclamped(w) ==
  /\ pc[w] = "seek"
  /\ Later(size, FirstDataSector) + SizeOf[val[w]] <= MaxSectors
  /\ at' = [at EXCEPT ![w] = Later(size, 1)]
  /\ part' = [part EXCEPT ![w] = 0]
  /\ Goto(w, "data")
  /\ UNCHANGED <<fileVars, job, slot, val>>

\* Wrong: the end of the file is taken for its last sector.
SeekLastSector(w) ==
  /\ pc[w] = "seek"
  /\ Later(size, FirstDataSector) + SizeOf[val[w]] <= MaxSectors
  /\ at' = [at EXCEPT ![w] = Later(size - 1, FirstDataSector)]
  /\ part' = [part EXCEPT ![w] = 0]
  /\ Goto(w, "data")
  /\ UNCHANGED <<fileVars, job, slot, val>>

\* writeChunk finds the end of the file.  MaxSectors bounds the file here.
SeekEnd(w) ==
  /\ pc[w] = "seek"
  /\ Later(size, FirstDataSector) + SizeOf[val[w]] <= MaxSectors
  /\ at' = [at EXCEPT ![w] = Later(size, FirstDataSector)]
  /\ part' = [part EXCEPT ![w] = 0]
  /\ Goto(w, "data")
  /\ UNCHANGED <<fileVars, job, slot, val>>

\* Wrong: one sector of padding too many.
WriteSectorPadded(w) ==
  /\ pc[w] = "data"
  /\ sectors' = [sectors EXCEPT
                   ![at[w] + part[w]] = [image |-> val[w], index |-> part[w]]]
  /\ size' = Later(size, at[w] + part[w] + 1)
  /\ part' = [part EXCEPT ![w] = @ + 1]
  /\ Goto(w, IF part[w] = SizeOf[val[w]] THEN "entry" ELSE "data")
  /\ UNCHANGED <<file, location, job, slot, val, at>>

\* It writes the image, header, payload and padding, one sector at a time.
WriteSector(w) ==
  /\ pc[w] = "data"
  /\ sectors' = [sectors EXCEPT
                   ![at[w] + part[w]] = [image |-> val[w], index |-> part[w]]]
  /\ size' = Later(size, at[w] + part[w] + 1)
  /\ part' = [part EXCEPT ![w] = @ + 1]
  /\ Goto(w, IF part[w] + 1 = SizeOf[val[w]] THEN "entry" ELSE "data")
  /\ UNCHANGED <<file, location, job, slot, val, at>>

\* Wrong: the entry is written although the data was not.
WriteFailsOnwards(w) ==
  /\ pc[w] \in {"data", "entry"}
  /\ Goto(w, IF pc[w] = "data" THEN "entry" ELSE "idle")
  /\ UNCHANGED <<fileVars, job, slot, val, at, part>>

\* A write fails (a full disk).  The stream turns bad, every later write to
\* it is void, nobody looks at its state, and saveChunk returns as usual.
WriteFails(w) ==
  /\ pc[w] \in {"data", "entry"}
  /\ Goto(w, "idle")
  /\ UNCHANGED <<fileVars, job, slot, val, at, part>>

\* The location entry: three bytes of offset, one byte of sector count.
WriteEntry(w) ==
  /\ pc[w] = "entry"
  /\ location' = [location EXCEPT ![slot[w]] =
                    [offset |-> at[w] % OffsetLimit,
                     count |-> SizeOf[val[w]] % 256]]
  /\ Goto(w, "idle")
  /\ UNCHANGED <<file, size, sectors, job, slot, val, at, part>>

AllIdle == pc' = [w \in Writers |-> "idle"]

\* The process dies (a signal, or an exception nobody catches) between two
\* writes.  The file stays as the system calls so far have left it.
Crash ==
  /\ \E w \in Writers : pc[w] # "idle"
  /\ AllIdle
  /\ UNCHANGED <<fileVars, job, slot, val, at, part>>

\* The process dies inside a write: part of a sector reaches the file.
CrashInWrite(w) ==
  /\ pc[w] = "data"
  /\ sectors' = [sectors EXCEPT ![at[w] + part[w]] = Blank]
  /\ size' = Later(size, at[w] + part[w])
  /\ AllIdle
  /\ UNCHANGED <<file, location, job, slot, val, at, part>>

\* The constructor cannot create the file for want of its directory, and
\* throws an exception that nobody catches.
CannotCreate(w) ==
  /\ pc[w] = "create" /\ file = "nowhere"
  /\ AllIdle
  /\ UNCHANGED <<fileVars, job, slot, val, at, part>>

Step(w) ==
  \/ Open(w) \/ Create(w) \/ CannotCreate(w) \/ WriteHeader(w)
  \/ ReadFound(w) \/ ReadNothing(w)
  \/ SeekEnd(w) \/ WriteSector(w) \/ WriteEntry(w)

Next ==
  \/ \E w \in Writers, s \in Slots, v \in Values : SaveChunk(w, s, v)
  \/ \E w \in Writers, s \in Slots : LoadChunk(w, s)
  \/ \E w \in Writers : Step(w)
  \/ \E w \in Writers : HeaderFails(w) \/ WriteFails(w) \/ ReadFails(w)
  \/ \E w \in Writers : CrashInWrite(w)
  \/ Crash

Spec == Init /\ [][Next]_vars

-----------------------------------------------------------------------------
(* Properties of the file.                                                 *)

\* The sectors an entry claims.  Empty for a position without a chunk.
Extent(s) == location[s].offset..location[s].offset + location[s].count - 1

\* Every entry leads to a whole image that lies inside the file, and claims
\* exactly the sectors of that image: writeChunk writes the entry only after
\* the last sector (RegionFile.cpp:188-211).
EntrySound(s) ==
  \/ location[s] = NoEntry
  \/ /\ location[s].offset + location[s].count <= size
     /\ \E v \in Values : /\ location[s].count = SizeOf[v]
                          /\ Holds(location[s].offset, v)

EntriesSound == \A s \in Slots : EntrySound(s)

\* No two chunks share a sector: every save appends beyond what the others
\* have written (RegionFile.cpp:178-189).
ExtentsDisjoint ==
  \A s, t \in Slots : s # t => Extent(s) \cap Extent(t) = {}

\* The sectors a save is about to write belong to no chunk, so a crash or a
\* failed write in the middle of a save costs no stored chunk anything.
AppendsBeyondLiveData ==
  \A w \in Writers : pc[w] \in {"data", "entry"} =>
    \A s \in Slots : Extent(s) \cap (at[w]..at[w] + SizeOf[val[w]] - 1) = {}

\* A file that holds chunks never gets shorter: the truncating open of the
\* constructor (RegionFile.cpp:15-24) meets only a file that did not exist.
NeverTruncated ==
  [][file = "present" => (file' = "present" /\ size' >= size)]_vars

\* While files can be opened and read, loadChunk never puts a fresh chunk in
\* the place of a stored one: readChunk answers nothing for a "Chunk not
\* generated yet" (RegionFile.cpp:72).
LoadNeverOverwrites ==
  [][\A w \in Writers :
       ReadNothing(w) => Content(slot[w]) \in {Absent, Fresh}]_vars

\* The file implements the store that ChunkStore describes: a save happens
\* at the write of its entry, or never, whatever crashes and whatever read or
\* write fails.
saving == [w \in Writers |-> IF pc[w] # "idle" /\ job[w] = "save"
                               THEN <<slot[w], val[w]>>
                               ELSE Absent]

Store == INSTANCE ChunkStore WITH
           store <- [s \in Slots |-> Content(s)], pending <- saving

ImplementsStore == Store!Spec
=============================================================================
