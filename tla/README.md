# A TLA+ model of TCP-Minecraft-Server

The program is a Minecraft 1.7.10 server in C++ (about 2000 lines under
`src/src`, cited below by file name). One thread accepts clients and serves
them one at a time; another one reads commands from the console. Blocks live in
memory and in Anvil region files. This directory holds TLA+ modules of the
program, the TLC configurations that check them, and proofs for TLAPS.

    tlc -workers 2 -config RegionFile.cfg MCRegionFile      # a run
    tlapm RegionFileProofs.tla                              # proofs

`PROJECT.json` lists the runs, the lines of code each definition stands for,
the findings and the hazards.

## Inventory

| Component | State | Operations | Works with | What is hard | What makes it correct |
|---|---|---|---|---|---|
| Region file (`world/RegionFile.cpp`) | the file: two header sectors, data sectors | constructor, `readChunk`, `writeChunk` | called by `saveChunk`, `loadChunk`, from two threads | writes are many system calls, none is checked; crashes between them; two writers | an entry leads to a whole chunk; chunks do not overlap; a save is atomic |
| Saving and loading (`world/WorldSave.cpp`) | none | `saveChunk`, `loadChunk`, `saveAllChunks` | World, region file, NBT | a load writes | a load loses nothing, a save arrives |
| World in memory (`game/world.cpp`) | map of chunks | `getChunk`, `saveAllChunks` | `TcpClient`, console thread | two threads, no lock; memory and files drift apart | the files follow the memory |
| Server (`network/server.cpp`) | `running_`, `socketFd_`, the process's descriptors | `start`, `stop`, `consoleLoop` | World, `TcpClient`, region files | `stop` runs in either thread, at any time; numbers are closed more than once | a stop ends the process and saves the world; no number is lost or shared |
| Framing (`TcpClient::readBytes`, `tryReadPacket`, `protocol/packet.cpp`) | `buffer_` | read, take a packet | `handle` | reads split and join packets anywhere | the packets sent are those handled, in order |
| VarInts (`protocol/varint.cpp`, `helper.cpp`) | none | two writers, two readers | framing, every packet | boundaries, cut numbers | readers invert writers |
| Connection (`TcpClient::handle`) | connection state, player, last chunk | one handler per state and packet id | framing, World | two state machines that only share a stream | each packet is read as it was meant; questions are answered |
| NBT (`world/NBT.cpp`) | none | read, write, build and parse a chunk | saving, loading | recursion, lists without names, two nibbles in a byte | parse inverts build; file and wire agree |
| Fixed-width readers and writers (`protocol/helper.cpp`) | offset | one value each | handlers, NBT | bounds, lengths, slots of two widths | each reader takes what its writer wrote |
| Block coordinates (in `handle`, `WorldSave.cpp`, `RegionFile.cpp`) | none | block to chunk and cell, chunk to region and entry, block beside a face | edits, saves | negative coordinates, `blockY` of eight bits | no two blocks share a cell, no two chunks an entry |
| Player, inventory (`include/player.hpp`) | 45 slots, never changed | none | `sendFullInventory` | nothing | nothing |
| Tests, build | | | | | |

## Modules

| Module | Models | Uses |
|---|---|---|
| `ChunkStore` | abstract: a map in which a save happens at once or never | |
| `RegionFile` | one region file, and threads in `saveChunk` and `loadChunk` | implements `ChunkStore` |
| `RegionFileProofs` | the theorems about `RegionFile` | |
| `World` | memory, files and the client's view; accept loop, console, stop, restart | files are a `ChunkStore` |
| `WorldProofs` | the theorems about `World` | |
| `Server` | accept loop, console, `stop` in both threads, the table of descriptors | |
| `ServerProofs` | the theorems about `Server` | |
| `VarInt` | the four VarInt functions | |
| `Numbers` | what the four owe one another, number by number | `VarInt` |
| `VarIntProofs` | the theorems about `VarInt`, and about sequences of bytes | |
| `Helper` | readers and writers of fixed width, strings, inventory slots | `VarInt` |
| `Fields` | what these owe one another, field by field of a packet | `Helper` |
| `ConversionsProofs` | the theorems about `Numbers`, `Helper` and `Fields` | `VarIntProofs` |
| `NBT` | tags, `writeTag`, `readTag` | `Helper` |
| `Tags` | what these owe one another, tag by tag | `NBT` |
| `ChunkNBT` | a chunk, `buildChunkNBT`, `parseChunkNBT`, `Chunk::serialize` | `NBT` |
| `Chunks` | what a chunk, its file and what the client gets owe one another | `ChunkNBT` |
| `BlockCoords` | from a block to its chunk, byte, file and entry | |
| `ChunkProofs` | the theorems about `BlockCoords`, `NBT`, `Tags`, `ChunkNBT` and `Chunks` | `ConversionsProofs` |
| `PacketChannel` | abstract: the packets sent are received in order | |
| `PacketFraming` | the byte stream, `buffer_`, `tryReadPacket` | `VarInt`; implements `PacketChannel` |
| `PacketFramingProofs` | the theorems about `PacketFraming` | `VarIntProofs` |
| `Connection` | `handle` and a client, packet by packet | streams as `PacketFraming` leaves them |
| `ConnectionProofs` | the theorems about `Connection` | |

An `MC` module gives TLC the constants of each; `MCConversions` does for the
modules of pure functions, from `VarInt` to `BlockCoords`. Operators that begin with
`Wrong:` are variants of the definition below them with a plausible mistake;
no specification uses them. They are there to see that the properties notice.

### RegionFile

A sector holds the part-th 4096 bytes of a chunk *image*, or nothing that can
be inflated. `pc` steps a thread through the calls: `open` (the constructor's
`exists`), `create` (the truncating open), `header` (8192 zeros), `read`
(`readChunk`), `seek` (`tellg`), `data` (one sector at a time), `entry` (the
location entry). `loadChunk` is `read` and, when that answers nothing, a save
of a fresh chunk. `WriteFails` is a stream that has turned bad, which nobody
looks at, and `HeaderFails` the same for the constructor. `ReadFails` is an open
or a read that fails, of which `readChunk` says what it says of a chunk that is
not there. `Crash` and `CrashInWrite` are the end of the process between and
inside two writes; `CannotCreate` is the exception of the constructor. The
timestamp table is never used by the code.

Whether `readChunk` can inflate an image is the constant `Inflatable`: its
buffer has eight times the deflated size, while NBT of a chunk is 165253 bytes
and a default chunk deflates to 580. Only an image that deflates badly, from
another generator, is in that set.

### World

Two threads, `main` and `console`, with their places in the code as program
counters. A save begins (`Store!Begin`) and later returns (`SaveReturns`:
committed or lost), so the other thread can act in between. `chunks` is the map
in memory; `store` is what is in the files; `view` is what the client has been
sent. `saveAllChunks` walks the set `todo`; inserting into the map during the
walk is a data race, modelled as losing any part of the walk. A process that
ends (`Exit`, `Crash`) forgets everything but `store`, and `Start` begins again.
The region directory is taken to exist (`RegionFile` has the other case).

The files are the store of `ChunkStore`, which a region file is as long as one
thread at a time uses it. Once "stop" is typed both threads may be saving, and
`RegionFileRace` shows what then happens to one file: both append to the same
sectors. `raced` holds the threads whose save has met the other's, and `beside`
what the other has saved since a save began. A save that has met another may
leave its chunk without a whole image of its own (`Garble`), and may at any
time ruin what the other has saved beside it (`Overwrite`, also when its
constructor found the file missing and truncates what the other has made of
it). `Absent` in the store stands for all of it: no chunk there, or an entry
that leads to no whole image of it. This allows more than the code does, for it
does not ask whether the two chunks are of one file, or the images of one size,
so what holds here holds of the code.

A load finds nothing to read (`LoadFresh`) when the file has no image that
`readChunk` can inflate, and, with `CanFail`, also when the file cannot be
opened for once or a read fails; `misread` remembers the chunk of such a load
until the fresh one is saved. It, `saved`, and `quiet` (a "stop" was typed
during an accept, and no client and no failing accept has come since) are history.

### Server

The same two threads once more, seen through the numbers of their descriptors.
`table` says what each number stands for: the listening socket, the client, a
region file that a thread has open, or nothing. The system gives out the lowest
free number (`Opens`), and `close` frees a number whoever has it (`Closes`).
`Start` is `socket`, `ListenFails` a `bind` or `listen` that fails, `CallAccept`
the entry into `accept`, which waits only if the number is still the listening
socket's. A client's number is closed by `start` (`Release`, `server.cpp:67`)
and again by `~TcpClient` (`DestroyClient`, `tcpclient.cpp:13`); the listening
socket's by `start` (`LeaveLoop`) and by `stop` (`CloseSocket`) in the console,
and in the main thread when `~Server` finds `socketFd_` still set. `stop` has a
step for each call, for both threads can be in it at once.

Of the region files only their numbers are here: `OpenFile`, `WriteFile` and
`CloseFile` are the life of the stream in `RegionFile`, and a write goes to the
chunk's file only while the number is still the stream's own. `whole` and `hit`
are history: the chunks that `stop` has saved so, and whether the second close
of a client's number closed a file that the console had just been given under
it. In the first, both threads save the same chunks; that this can spoil the
file itself is the run `RegionFileRace` and not repeated here. What the chunks
hold when they are saved is in `World`. The end of the process (`Exit`) closes
everything and takes the console thread along.

### Helper, Fields, NBT, Tags, ChunkNBT, Chunks

Functions from values to sequences of bytes and back. A byte has `2 * Base`
values, so many bytes have `Span[bytes]`, and a 32-bit word fits `WordBytes` of
them; in the code that is 2^8, 2^(8 * bytes), 4 and 2^32. A reader takes a vector and an offset and
answers a value and the offset behind it, as the code's do with a reference.
Floating-point numbers are their bits, which is all the code moves.

`Fields` has one variable, the fields of a packet in their order; its steps add
any field of the set `Fields`. `Write` and `Read` choose for each kind the
writer and the reader that the code's callers take for it. The code has no such
list: each caller writes its packet's fields one after the other, as
`tcpclient.cpp:98-115` and `188-247` do.

A tag is a record of its type, its name and what it holds. A Compound is a
function from names to tags; its map is walked in the order of the names, which
is the constant `Order`, for a proof need not know more of it. `writeTag` and
`readPayload` call themselves for the tags inside a tag. The code bounds this by
nothing but the stack; here it is bounded by the constant `Nesting`, and each is
a function of how deep tags are nested: `Contents(tag)[n]` writes what holds no
more than n levels with the help of `Contents(tag)[n - 1]`, and `Payloads(data)`
reads in the same way. `Content` and `PayloadAt` are one call, a case for each
type. The loop of `readPayload` over a Compound ends at the End tag; `ReadChildren`
goes round once for each name that there is and once for the End tag, and rests
when it has met it.

`Tags` has one variable, a tag; its steps put it into a list before others of
its type, or into a Compound beside others of other names. `depth` counts them.

The chunk is that of `world.hpp`, with `Side` and `Sections` in
place of 16 and a nibble in place of four bits. Names of its tags are single
bytes, for no code looks into one. `BuildRoot` and
`BuildSection` are `buildChunkNBT`, `ParseChunkNBT` is `parseChunkNBT`, with
`ParseThrows` for its exceptions and those of `std::get`. `Chunks` has two
variables, a chunk that is made and edited, and the sections that the file of
another program lists of it. The code has neither walk.

Both readers of NBT trust the file: a vector that ends early, a negative length
and a section outside the chunk have no defined outcome in the code and are
outside the domain of the functions.

### BlockCoords

The coordinates of `handle` (shift, mask, index), `saveChunk` (region) and
`RegionFile::chunkIndex` (entry), with the numbers of the code and integers in
place of 32 bits. Its one variable is the block that a player points at; he
places a block on a face of it and goes on from there (`Place`). The property
`PlacedBeside` knows the faces from the protocol's numbering and not from
`Beside`: a face is told by its axis and its least corner (`FaceOf`), and the
new block must have the very face that was clicked in common with the old one.
The only exception is the wrap of `blockY`: exactly at the two ends of a column
the new block lands at the other end.

### VarInt, PacketFraming

`Base` is 2^7 in the code, 4 or 8 in TLC and anything in the proofs, with the
word cut so that the last of `MaxBytes` digits is partly used, as it is in 32
bits. `Weight` is 2^`shift`, what a digit counts: the code adds 7 to `shift`
with every byte. `VarIntAssumption` says that a word takes `MaxBytes` digits and
has a bit in the last (2 * 2^28 <= 2^32 <= 2^35). Overlapping bits and shifts by
more than the width do not come up: `Overshift` stands for what a build makes
of the sixth digit.

`Numbers` has one variable, the number, and the bytes behind it; its steps go
through all numbers of the word, so that a property of it is one of the
functions for every number. The code has no such walk.

`PacketFraming` is byte by byte:
`ReadBytes` moves any prefix of the wire into the buffer, `TakePacket`,
`NoPacket` and `Abort` are the outcomes of `tryReadPacket`. `TotalSize` is cut to
an `int`, as the code's sum of a `size_t` and a length is. A packet is an id of 32
bits and bytes; `PacketAssumption` says that one is not longer than an `int` can
say. The `break` at
`tcpclient.cpp:457` ends the inner loop after one packet, so `TakePacket` goes
back to reading. `cut` and `burst` are history: a length was taken too early; a
read left two whole packets.

### Connection

One handler per state and packet id. The client side is external: it sends
handshake and request without waiting, as 1.7.10 does, answers keep-alives,
walks, acts, and may quit at any time. Packets carry the state they are `means`t
for, a field the handlers do not look at. What remains of the framing is that a
read brings the ends of 0 to `Burst` packets, and that one packet is taken per
read. All chunks of a window are one message.

## Runs

| Run | Bounds | Result |
|---|---|---|
| `RegionFile.cfg` | 1 thread, 2 chunks, 3 images (one of 2 sectors), 7 sectors; failing reads and writes, crashes | file sound, disjoint, never truncated; implements `ChunkStore` |
| `RegionFileRace.cfg` | 2 threads | **violated** `ExtentsDisjoint` |
| `RegionFileLoad.cfg` | as the first | **violated** `LoadNeverOverwrites` |
| `World.cfg` | 2 chunks of 2 blocks, 2 edits per process, failing reads and writes | `FilesFollowMemory`, `QuietStopSavesAll`, `ReadableSurvivesLoads` |
| `WorldStop.cfg`, `WorldEdit.cfg` | 1 edit, no failing reads or writes | **violated** `StopSavesWorld`, `EditChangesOneBlock` |
| `Server.cfg` | 3 chunks, numbers 3 to 8 | `NothingLeaks`, `ServedFilesKept`, `NumbersNotShared`, `SavedUnlessHit`; `StopEnds` |
| `Conversions.cfg` | VarInts: 11-bit numbers, with nothing or one byte of each kind behind; packets of up to 3 fields; tags in up to 2 lists or Compounds; chunks of 2 sections of 2 x 2 x 2; 2 blocks placed from 300 places | `RoundTrip`, `WritersAgree`, `CutShort`; `FieldsInStep`, `CutStringRefused`; `TagRoundTrip`, `LoadsWhatWasSaved`, `FileMatchesWire`, `LoadsForeign`; `OwnCell`, `OwnEntry`, `PlacedBeside` |
| `PacketFraming.cfg` | packets of lengths 1, 4, 5, 8; 2 sent; reads of up to 10 bytes | `AlignedUnlessCut`, implements `PacketChannel`; `DeliversUnlessBurst`, `ReachesEnd` |
| `PacketFramingRound.cfg` | reads of up to 6 bytes | **violated** `NothingMadeUp` |
| `Connection.cfg` | 3 chunks, windows 3 x 3, 2 acts, reads of up to 2 packets | `HandledAsMeant`, `OneKeepAlive`, `WindowFollows`; `Answered`, `KeptAlive`, `Released` |
| `ConnectionBurst.cfg` | 1 act | **violated** `LoginCompletes` |

Why the bounds are enough. *RegionFile*: seven sectors let two chunks be saved
and saved again, one over two sectors; a third chunk would relate to each of the
others as these do, and the theorems remove the bound. `OffsetLimit` is above the
file's length, as 2^24 is in practice. *World*: the interesting cases need one
chunk that is edited and one beside it that is loaded, one block that is edited
and one that is not, and an edit before and one after a stop or a load; two
chunks are also enough for both threads to be saving the same chunk or
different ones. What `QuietStopSavesAll` says is of the one stop for which the
code gives it: typed while the main thread waits in `accept`, where it stays
until everything is saved. If the main thread is between two accepts at that
moment, it leaves the loop and both threads are in `stop()` at once, with the
race on the files that is described above; then nothing is promised.
*PacketFraming*: one- and two-byte lengths, two of them with a first digit of
zero, a read inside each, a read over two packets. *Connection*: three chunks
give a straight and a diagonal step, two acts a way back. *Server*: at most four
numbers are open at once (the listening socket, a client, a file of each
thread), so six are more than are ever wanted; three chunks let one thread be
ahead of, beside and behind the other in its saves. The theorems remove both
bounds. *Conversions*: these are functions, and the steps of the run only make
their inputs grow. Bytes have 16 values (`Base` 8) and fields of fixed width
three of them, so that each width has more than one byte, a sign and a value at
either end. VarInts are of 11 bits (`Word` 2048): two of the three bits of the
last of four digits are used, as some are in the code, and all 2048 numbers are
tried, so that the theorems about them were known to hold there before they were
proved. Two fields
that stand beside one another show a wrong width; the third shows that it
lasts. A list in a list and a Compound in a list are the depths at which a
header or a name could be lost. A section of 8 blocks has every combination of
low and high nibble and of coordinates 0 and 1, and every single edit of a
chunk is tried. The places have coordinates on both sides of each multiple of
16 and 512 next to zero, and heights at both ends.

What holds only with an exception says so in its name or its text, and the
exception is a state or a history of the model: `cut` (a length was taken
early) and `burst` (a read left two whole packets) for the framing, `Backlog`
(handle reads while it holds a packet) for the connection. In `World` it is
`misread` (a load has failed to read a chunk that is there, and
`ReadableSurvivesLoads` lets it be lost), and `StopSavesWorld` looks away from
chunks that two saves at once have ruined, so that its trace is about what is
never saved. `LoadNeverOverwrites` is said of files that can be opened and read
(`ReadFails` overwrites, and no trace is needed to see it). The packets of the
code that never meet `cut` are those whose length is not a multiple of 128.

`CHECK_DEADLOCK FALSE` is said for the framing, whose one connection ends, and
for the conversions, whose inputs stop growing.

### Fairness

`PacketFraming`: weak fairness of the server's thread, which has nothing else
to do, and TCP delivers what was sent before the end of the stream is read
(`ReadEnd`). That is an assumption on the environment: a connection that breaks
off, so that a read fails while bytes are on their way, loses them whatever the
server does. The client owes nothing. `Connection`: the
same, and weak fairness of the client's network thread for messages that have
arrived; the player owes nothing. `Server`: weak fairness of the main thread
where it does not wait for a client, and of the console thread once "stop" is
typed; there is no lock that could starve either. Clients come and go as they
like, and nobody need ever type "stop". So `StopEnds` has to allow for a client
that stays: it holds the process, as `handle` has no timeout. `World` states
safety only.

### Findings

1. `tcpclient.cpp:457`: one packet per read. Packets that arrive together wait
   for the next read; a client that sends handshake and login start together
   waits for ever (`LoginCompletes`).
2. `tcpclient.cpp:38`: a length cut after a zero digit makes up an empty packet
   and loses the stream (`NothingMadeUp`).
3. `RegionFile.cpp:94`: the program cannot read back its own chunks, and every
   load overwrites them (`LoadNeverOverwrites`).
4. `server.cpp:91`: stop writes to region files beside the main thread
   (`ExtentsDisjoint` with two threads), and what the client changes after it is
   not saved (`StopSavesWorld`).
5. `world.cpp:25`: the first edit of a chunk after a restart replaces the stored
   chunk by a default one (`EditChangesOneBlock`).

The models also contain smaller disagreements that need no run to be seen, each
being one step or a remark. `loadChunk`, other than `saveChunk`, does not create
`world/region`, so the first login in a fresh directory ends the process
(`CannotCreate` in `RegionFile`). `decodeVarInt` decodes six bytes before it
refuses a number (`Throws` in `VarInt`; the message at `varint.cpp:44` says
five). The block change that acknowledges a broken block shows stone
(`Dig` in `World`; the comment at `tcpclient.cpp:379` says air). The light that
`buildChunkNBT` fills in "by default" (`NBT.cpp:332`) is always overwritten, and
the root that is named in a comment (`NBT.cpp:298`) has no name; both are so in
`ChunkNBT`. In `Server`, the second close of a client's number can close a file
of the console, which then loses that chunk's save: without `~hit`,
`SavedUnlessHit` does not hold. And main may return while the console, which is
detached, still saves; then the main thread has saved everything itself.

## Proofs

`RegionFileProofs` proves, for every set of slots and images and every size:

| Theorem | Statement | Assumes |
|---|---|---|
| `TypeCorrect` | `Spec => []TypeOK` | any number of threads |
| `SoundEntries` | `Spec => []EntriesSound` | `SingleWriter`, `OffsetsFit` |
| `DisjointExtents` | `Spec => []ExtentsDisjoint` | same |
| `AppendsBeyond` | `Spec => []AppendsBeyondLiveData` | same |
| `NoTruncation` | `Spec => NeverTruncated` | same |
| `Implementation` | `Spec => ImplementsStore` | same |

`SingleWriter` says that one thread uses the file, which is so until "stop" is
typed; `RegionFileRace` shows that it is needed. `OffsetsFit` says that the file
stays below 2^24 sectors. The assumptions on constants are those of the module:
an image needs 1 to 255 sectors, the fresh image is an image, and the markers
`Absent` and `Blank` are not.

`TypeOK` is not inductive: that a write stays in the file needs to know that
the place it has found has room for all of it (`WithinReach`); the two are `TInv`.
For the rest, the crash cases decide what the invariant must say. `EntriesSound`
holds after `WriteEntry` only if all sectors of the image are there, so `IInv`
has `Written`: the first `part` sectors are in the file. It holds after
`WriteSector` only if the sector belongs to nobody, so `IInv` has `Beyond`: all
entries end before the place a save writes to. `Beyond` holds after `SeekEnd`
because entries end inside the file, which is part of `EntrySound`, and because
a file without a header has no entries (`HeaderInv`). `ThreadInv` also says that
a thread about to create the file knows that it is not there, which is
`NoTruncation`. The refinement maps the store to what the entries lead to; only
`WriteEntry` changes that, and there it is the image whose sectors `Written` and
`part = SizeOf` say are complete (`ContentIs`, `HoldsUnique`).

`WorldProofs` proves, for every set of chunks and blocks, any number of edits,
and reads and writes that fail or not. That a save takes effect at one instant
is `Implementation` for one thread; for two it is refuted, and there the
theorems rest on what `World` says of saves that meet (`Garble`, `Overwrite`):

| Theorem | Statement |
|---|---|
| `TypeCorrect` | `Spec => []TypeOK` |
| `SurvivesLoads` | `Spec => ReadableSurvivesLoads` |
| `FilesFollow` | `Spec => []FilesFollowMemory` |
| `QuietStop` | `Spec => []QuietStopSavesAll` |

`TypeOK` needs to know that a thread only saves chunks that are in memory
(`TodoInv`), for otherwise it would save `None`. `SurvivesLoads` needs
`PendingInv`: what is under way was written by this program and goes to a chunk
in memory, to one that could not be read, or to the one whose read has failed
(`MayReplace`); it cannot become readable in the meantime because whatever else
is saved is this program's too. `BesideInv` says the same of the chunks that a
save which meets another can ruin. `FilesFollow` needs `PlaceInv`: before "stop"
the console saves nothing, the main thread saves one chunk at a time, and no
save meets another (`Calm`). It is inductive only with `FollowInv`: a chunk that
was saved without being in memory is a fresh one, so an edit that brings it
into memory starts from what the file has. `QuietStop` needs that a chunk that
is `Right` stays so whichever thread saves (`QuietReturn`), and that each chunk
is `Covered` by each thread that is saving all: it is done, under way or to do.
`QuietInv` says why no save meets another: as long as the console is saving,
the main thread is in `accept`.
`AllSaved` then makes covered chunks right, and the main thread leaves without
saving only when the console has finished (`socket` in `PlaceInv`).

`ServerProofs` proves, for every set of chunks and every number of descriptors:

| Theorem | Statement |
|---|---|
| `TypeCorrect` | `Spec => []TypeOK` |
| `Leaks` | `Spec => []NothingLeaks` |
| `ServedFiles` | `Spec => []ServedFilesKept` |
| `OwnNumbers` | `Spec => []NumbersNotShared` |
| `StopSaves` | `Spec => []SavedUnlessHit` |

It assumes `ServerAssumption`, that there are at least four numbers. The argument goes by
number 3, the first to be given out. It is the listening socket's until a
thread has come through its part of `stop`, and so never a file's of a client
that is served (`Listener`). A stream has lost its number (`Lost`) in two ways
only. The main thread's is lost when the console closes 3, after which the
console opens nothing. The console's is lost when a client is destroyed, or when
the main thread closes 3 in its own `stop`; after the latter the main thread
opens nothing, and after the former it can only leave, and open files in `stop`
with 3 free and thus as 3. So nobody is given a number that is lost, which is
what `Losses` says and `NumbersNotShared` needs. `SavedUnlessHit` needs `Saves`:
what a thread has been through it has saved whole, or the other thread had saved
everything by then.

`ConnectionProofs` proves, for every set of chunks, every radius, any number of
packets in a read and any number of acts:

| Theorem | Statement |
|---|---|
| `TypeCorrect` | `Spec => []TypeOK` |
| `Meant` | `Spec => []HandledAsMeant` |
| `KeepAlives` | `Spec => []OneKeepAlive` |
| `Window` | `Spec => []WindowFollows` |

None of the four is inductive alone, since what a packet meets depends on all
that is before it. The invariant `CInv` looks at buffer and wire as one
`Stream`, which a read does not change (`ReadMoves`). `StreamInv` lists what can
be on it in each state of `handle`: two packets at most before a login, and only
packets for the state `Play` after it. `ModeInv` ties the client's mode to that,
and says that no message to a client in play makes it ask again. `EchoInv`
counts keep-alives: none before the login, one after it, and at most one once
the client has gone, when answers get lost. That needs how a cardinality grows
with a sequence (`WhereConcat`, from a bijection between places). `WindowInv`
says that the window around the last chunk that `handle` knows of is with the
client or on its way, and that the last step on the stream leads to where the
player stands. The assumption is `ConnectionAssumption`: the spawn is a chunk,
chunks are pairs of integers.

`ChunkProofs` proves, for every block with integer coordinates and every
set of other blocks:

| Theorem | Statement |
|---|---|
| `TypeCorrect` | `Spec => []TypeOK` |
| `OwnCells` | `Spec => []OwnCell` |
| `OwnEntries` | `Spec => []OwnEntry` |
| `Placed` | `Spec => []PlacedBeside` |

A coordinate is told by its quotient and its remainder by 16 or 32
(`QuotientAndRemainder`), the remainder that C++ takes twice is the one that is
never negative (`TwiceRemainder`), and the parts of an index can be told apart
(`IndexParts`, `EntryParts`). `Placed` goes through the six faces.

`VarIntProofs` and `ConversionsProofs` prove, for every `Base`, `Word` and `MaxBytes`
that `VarIntAssumption` allows, those of the code among them, and whatever bytes
stand behind a number:

| Theorem | Statement |
|---|---|
| `EncodeBitsDigits` | `\A u \in Nat : Digits(u, EncodeBits[u])` |
| `NumberRoundTrip` | `NumberSpec => []RoundTrip` |
| `NumberWritersAgree` | `NumberSpec => []WritersAgree` |
| `NumberCutShort` | `NumberSpec => []CutShort` |

That the recursive functions of `VarInt` exist, so that they obey their own
definitions, is `Recursion`: a function whose value refers to smaller numbers
only. It and the inductions (`StrongInduction`, `Induction`) go through the
smallest element of a set of numbers, which the library has for well-founded
orders; what is to be shown of all numbers is always written as a set. `Digits`
says what `encodeVarInt` writes: byte i holds `(u \div Weight[i - 1]) % Base`,
and there are no leading zeros. `WriteBitsAgrees` carries this over to the other
writer. On the readers' side, `TakenEnds` and `TakenAll` say how many bytes are
taken and `ValueOfDigits` what they add up to: after k digits, `u %
Weight[k]`, which is `u` when k is their number (`Decoding`) and the part of it
that has come when a cut leaves fewer (`DecodingCut`). `SignedUnsigned` brings
the sign back.

`ConversionsProofs` goes on to fields, for every width of a word and every set of
fields whose values are of their kinds (`FieldsAssumption`): integers that fit,
strings whose length is an `int32_t`, inventories whose length is an `int16_t`,
slots whose id is not the -1 of an empty one. `HelperAssumption` says that
`WordBytes` bytes hold a word.

| Theorem | Statement |
|---|---|
| `PutThenGet`, `PutThenGetSigned` | a number of any width is read back where it stands |
| `StringReadBack`, `SlotReadBack`, `InventoryReadBack` | the same for strings and slots |
| `FieldReadBack` | the same for a field of any kind, and the reader stops where the writer did |
| `FieldsReadInStep` | `FieldsSpec => []FieldsInStep` |
| `CutStringIsRefused` | `FieldsSpec => []CutStringRefused` |

All of it is about a vector that `Holds` certain bytes behind an offset, whatever
stands before and behind them. What holds the bytes of two writers holds each
of them at its own offset (`HoldsParts`), and a payload holds the bytes of each
field behind those of the fields before (`WrittenHolds`, from `FlattenHolds`).
A reader of a fixed width computes by Horner's rule; after i of k bytes it has
`(n \div Span[k - i]) % Span[i]`, so that in the end it has `n % Span[k]`, and
`CastBack` brings the sign back. What the recursive functions in `Get`,
`TakeInventory` and `FieldsInStep` itself compute is found by naming the answer
for every place and showing that it obeys the same rule (`SameAnswer`).
`CutStringIsRefused` has two cases: the cut is inside the length, of which a part
is no VarInt (`ReadingCut`), or behind it, and then the end of the string is out
of bounds (`StringCut`); in neither can the length come out negative.

`PacketFramingProofs` proves, for every set of packets, any number of them, reads
of any size, and any base:

| Theorem | Statement |
|---|---|
| `TypeCorrect` | `Spec => []TypeOK` |
| `DeserializeSerialize` | `Deserialize[Serialize(p)] = p` for each packet |
| `FramingInvariant` | `Spec => []Framing` |
| `AlignedUntilCut` | `Spec => []AlignedUnlessCut` |
| `AbortsOnlyWhenCut` | `Spec => [](pc = "aborted" => cut)` |
| `FramingImplementsChannel` | `Spec => ImplementsChannel` |

Beside `VarIntAssumption` it assumes `PacketAssumption`. `AlignedUnlessCut` is
inductive but for two things that `Framing` adds: no more packets have been
received than sent, without which the packets that are left say nothing, and the
process has not died. Buffer and wire are one stream, the bytes of the packets
that are left (`Framed`). `Send` adds to its end (`BytesAppend`) and `ReadBytes`
moves the cut between the two parts of it (`FirstAndRest`). `TakePacket` needs
`NextInBuffer`. The buffer and the length of the next packet are both first
parts of the stream. Either the buffer holds the whole length (`LongerPart`), and
by `Decoding` the size is the packet's, and the packet is there when there are as
many bytes; or it ends inside the length (`ShorterPart`), so that all its bytes
go on, and by `DecodingCut` a packet that is taken sets `cut`. In neither case
is the size negative or a number refused, so that `Abort` is impossible. That
the step is the channel's `Receive` is then `DeserializeSerialize`.

`ChunkProofs` also proves, for tags of every type, nested to any `Nesting` and
with names in any `Order`:

| Theorem | Statement |
|---|---|
| `TagReadBack` | what holds a tag's bytes is read as that tag, and to its last byte |
| `TagsReadBack` | `TagSpec => []TagRoundTrip` |

`TagReadBack` is about tags that are `Deep`: whatever is inside them, down to
`Nesting`, is `Sound` (the items of a list have one type and no names, a
Compound has its tags under their names, numbers fit their widths), and there is
nothing inside what is that far down. Writing and reading are followed level by
level from the inside (`LevelReadBack`). What one level owes the next is
`ReadBack`: the bytes of a tag are read as its payload wherever they stand. If
that holds of the tags inside a tag it holds of the tag itself (`LevelStep`), by
cases on its type (`ContentReadBack`): a list is read item by item
(`ItemsReadBack`), and a Compound child by child, each one under its name in the
map, until the End tag, which no child can be taken for (`ChildrenReadBack`,
where `Rounds` says what each round of the loop has). `TagsOK` is the invariant
of `TagSpec`: the tag is `Deep` to its `depth`, and lists and Compounds keep
that up (`ListSound`, `CompoundSound`, `DeepAround`). `NBTAssumption` says that
a byte tells the types apart and that no name comes twice in `Order`;
`TagsAssumption` that the innermost tags hold what their type may hold.

Last, `ChunkProofs` proves, for every chunk, sections of any even side, any number
of them that an `int8_t` can count, and every set of chunks, edits and missing
arrays:

| Theorem | Statement |
|---|---|
| `SavedAndLoaded` | what `buildChunkNBT` makes of a chunk at any coordinates is the chunk again when it is read |
| `SavedIsLoaded` | `ChunkSpec => []LoadsWhatWasSaved` |
| `FileIsWire` | `ChunkSpec => []FileMatchesWire` |
| `ForeignIsLoaded` | `ChunkSpec => []LoadsForeign` |

The invariant is `ChunksOK`: there is no chunk, or one whose arrays are of the
right size, and the sections that are listed are different ones. Section s is a
part of each array without a gap (`IdxAtIs`): cell i of it is at
`s * SectionSize + i`. A section has a whole number of bytes of nibbles, so that
two nibbles that share a byte in the section share one in the chunk
(`SectionInHalves`). A loop over the cells of a section has done the first i of
them after i rounds; `Over` says what a byte is then, also the one half of
which is done, whatever it held before (`OverSteps`), so that the fill with
which the light starts does not matter. With that `Packed` is a `Piece` of the
array (`PackedIs`); `Unpacked` puts one back and leaves all other sections
alone (`UnpackedIs`). The tags are `Deep` (`BuiltRoot`, `StoredSection`, `SectionsSound`,
`RootSound`), so that `TagReadBack` says that they are read as they were
written. What `parseChunkNBT` has after some of the sections is `Mixed`: the
chunk where they had an array and a new chunk elsewhere (`SectionPuts`,
`ParseIs`). It is the chunk itself when every section has every array
(`MixedEnds`), and what `LoadsForeign` says when some are missing; a Compound
that is no section changes nothing (`StrayPuts`), and there are never more
sections listed than a chunk has (`ListedFew`). That the bytes of the file are
those that are sent is `PiecesJoined`, for each array. `ChunkAssumption` says that a section
has an even number of blocks along a side, so that no byte belongs to two
sections, that its number fits an `int8_t` and the size of a chunk an `int`, that a
byte is two nibbles, and that the four levels below the root of a chunk's NBT may
be nested;
`KeysAssumption` that `Order` has all the names of a chunk's tags;
`ChunksAssumption` that chunks are made of bytes.

Only model-checked is all of liveness (`DeliversUnlessBurst`, `ReachesEnd`,
`StopEnds`, `Answered`, `KeptAlive`, `Released`), which the provers do not reach.

## Not modelled

Tests and build files. Input on which the code has no defined outcome: NBT that
ends early or has negative lengths, a section's Y outside 0 to 15, packets
shorter than their fields (strings apart, which are checked). The end of the
console's input, on which `consoleLoop` spins without any change of state.
Timeouts, of which the code has none; sends that block on a client that does not
read. The rate at which a region file grows. `writeLegacyString`, which nothing
calls.

## Plan

Done: `ChunkStore`, `RegionFile` and proofs, `World` and proofs, `Server` and
proofs, `VarInt`, `Numbers`, `Helper`, `Fields` and proofs, `NBT`, `Tags`,
`BlockCoords` and proofs, `ChunkNBT`, `Chunks` and proofs, `PacketChannel`, `PacketFraming`
and proofs, `Connection` and proofs. Left, in this order:

1. Two region files shared by two threads, sector by sector, shown to do no more
   than what `World` allows to saves that meet.
