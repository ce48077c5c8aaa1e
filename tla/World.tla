------------------------------- MODULE World -------------------------------
(***************************************************************************)
(* The blocks of the world in the three places where they live: memory     *)
(* (World::chunks_), the region files, and what the one client has been    *)
(* shown.  Two threads change them: main accepts and serves the client     *)
(* (Server::start, TcpClient::handle), console waits for "stop"            *)
(* (Server::consoleLoop).  A client is sent chunks from the files and      *)
(* edits chunks in memory, and nothing copies the files into memory.       *)
(*                                                                         *)
(* The region files are the store of ChunkStore.tla, which RegionFile.tla  *)
(* implements while one thread at a time uses a file.  What two saves that *)
(* are under way at once do to each other is said under Saves.             *)
(***************************************************************************)
EXTENDS Integers

CONSTANTS
  Chunks,     \* chunk positions
  Cells,      \* block positions in a chunk
  Blocks,     \* block ids
  Air, Stone, \* what is left of a broken block, and what is placed
  Ground,     \* the blocks of a default-constructed Chunk
  Imports,    \* blocks of chunks in files that another program wrote
  Spawn,      \* the chunk of the spawn position
  Around,     \* the chunks that sendChunksAround sends (7 x 7 in the code)
  MaxEdits,   \* bound on the edits between a start and the end of a process
  CanFail,    \* whether reads and writes of the files can fail
  Absent,     \* no whole image in the file; no save under way
  None        \* not in memory; not shown

ASSUME BlocksAssumption ==
  /\ Air \in Blocks /\ Stone \in Blocks
  /\ Ground \in [Cells -> Blocks]
  /\ Imports \subseteq [Cells -> Blocks]
  /\ None \notin [Cells -> Blocks]

ASSUME PlaceAssumption ==
  /\ Spawn \in Chunks
  /\ Around \in [Chunks -> SUBSET Chunks]
  /\ CanFail \in BOOLEAN /\ MaxEdits \in Nat

Threads == {"main", "console"}

\* An image remembers who wrote it: readChunk inflates into a buffer of eight
\* times the deflated size, and what this program writes deflates to less
\* than an eighth (RegionFile.tla, Inflatable).
Image == [blocks : [Cells -> Blocks], by : {"server", "import"}]
Written(b) == [blocks |-> b, by |-> "server"]
Imported(b) == [blocks |-> b, by |-> "import"]
CanRead(image) == image # Absent /\ image.by = "import"

ASSUME AbsentAssumption ==
  /\ Absent \notin Image
  /\ Absent \notin Chunks \X Image

VARIABLES
  store,    \* the region files
  pending,  \* the save each thread has under way
  saved,    \* chunks whose last save since the start reached the file
  raced,    \* threads whose save under way has met the other's
  beside,   \* ... and the chunks the other has saved meanwhile
  misread,  \* the chunk a load is replacing because a read of it failed
  chunks,   \* World::chunks_, None where there is no entry
  view,     \* what the client has been shown of each chunk
  last,     \* lastChunkX_, lastChunkZ_
  main,     \* where the main thread is
  console,  \* where the console thread is
  todo,     \* the chunks a thread has yet to send or save
  running,  \* running_
  socket,   \* socketFd_: open, shut down, or -1
  quiet,    \* "stop" was typed during an accept, and left undisturbed
  edits     \* edits since the start

vars == <<store, pending, saved, raced, beside, misread, chunks, view, last,
          main, console, todo, running, socket, quiet, edits>>

Store == INSTANCE ChunkStore WITH
           Writers <- Threads, Slots <- Chunks, Values <- Image

MainSteps == {"loop", "accept", "play", "send", "fresh", "save",
              "leave", "saveAll", "exit", "down"}
ConsoleSteps == {"getline", "saveAll", "shut", "done"}

TypeOK ==
  /\ Store!TypeOK
  /\ saved \subseteq Chunks
  /\ raced \subseteq Threads
  /\ beside \in [Threads -> SUBSET Chunks]
  /\ misread \subseteq Chunks
  /\ chunks \in [Chunks -> [Cells -> Blocks] \cup {None}]
  /\ view \in [Chunks -> [Cells -> Blocks] \cup {None}]
  /\ last \in Chunks
  /\ main \in MainSteps
  /\ console \in ConsoleSteps
  /\ todo \in [Threads -> SUBSET Chunks]
  /\ running \in BOOLEAN
  /\ socket \in {"open", "shut", "none"}
  /\ quiet \in BOOLEAN
  /\ edits \in 0..MaxEdits

Loaded == {c \in Chunks : chunks[c] # None}
Serving == main \in {"play", "send", "fresh", "save"}
Nowhere == [c \in Chunks |-> None]

raceVars == <<raced, beside>>
fileVars == <<store, pending, saved, raceVars, misread>>
memVars == <<chunks, edits>>
clientVars == <<view, last>>
serverVars == <<running, socket, quiet>>

Init ==
  /\ store \in [Chunks -> {Imported(b) : b \in Imports} \cup {Absent}]
  /\ pending = [t \in Threads |-> Absent]
  /\ saved = {}
  /\ raced = {} /\ beside = [t \in Threads |-> {}] /\ misread = {}
  /\ chunks = Nowhere /\ edits = 0
  /\ view = Nowhere /\ last = Spawn
  /\ main = "down" /\ console = "done"
  /\ todo = [t \in Threads |-> {}]
  /\ running = FALSE /\ socket = "none" /\ quiet = FALSE

-----------------------------------------------------------------------------
(* Saves.                                                                  *)

Other(t) == IF t = "main" THEN "console" ELSE "main"

\* saveChunk is called.
BeginSave(t, c, image) ==
  /\ Store!Begin(t, c, image)
  /\ raced' = IF pending[Other(t)] # Absent THEN Threads ELSE raced
  /\ UNCHANGED <<saved, beside>>

\* The other thread has appended to the same sectors of the same file: the
\* chunk's entry leads to no whole image, or to one of another chunk.
Garble(t) ==
  /\ t \in raced
  /\ store' = [store EXCEPT ![pending[t][1]] = Absent]
  /\ pending' = [pending EXCEPT ![t] = Absent]

\* saveChunk returns: what thread t was saving is in the file, or is lost and
\* nobody is told.
SaveReturns(t) ==
  LET c == pending[t][1] IN
  /\ pending[t] # Absent
  /\ raced' = raced \ {t}
  /\ \/ /\ Store!Commit(t) \/ Garble(t)
        /\ saved' = saved \cup {c}
        /\ beside' = [u \in Threads |->
                        IF u # t /\ pending[u] # Absent
                          THEN beside[u] \cup {c} ELSE {}]
     \/ /\ CanFail /\ Store!Drop(t)
        /\ saved' = saved \ {c}
        /\ beside' = [beside EXCEPT ![t] = {}]

\* A slow save writes where it found the end of the file, or opens a file that
\* it found missing, over what the other thread has saved meanwhile.
Overwrite(t) ==
  /\ \E c \in beside[t] : store' = [store EXCEPT ![c] = Absent]
  /\ UNCHANGED <<pending, saved, raceVars, misread, memVars, clientVars, main,
                 console, todo, serverVars>>

\* saveAllChunks, one chunk after the other.
SaveNext(t, c) ==
  /\ c \in todo[t]
  /\ BeginSave(t, c, Written(chunks[c]))
  /\ todo' = [todo EXCEPT ![t] = @ \ {c}]
  /\ UNCHANGED <<misread, memVars, clientVars, main, console, serverVars>>

AllSaved(t) == todo[t] = {} /\ pending[t] = Absent

-----------------------------------------------------------------------------
(* The main thread.                                                        *)

\* The process starts: main calls Server::start, which starts the console.
Start ==
  /\ main = "down"
  /\ main' = "loop" /\ console' = "getline"
  /\ running' = TRUE /\ socket' = "open" /\ quiet' = FALSE
  /\ UNCHANGED <<fileVars, memVars, clientVars, todo>>

\* The accept loop looks at running_ ...
Loop ==
  /\ main = "loop"
  /\ main' = IF running THEN "accept" ELSE "leave"
  /\ UNCHANGED <<fileVars, memVars, clientVars, console, todo, serverVars>>

\* ... accept fails, of itself or because the socket is shut down ...
AcceptFails ==
  /\ main = "accept"
  /\ main' = "loop"
  /\ quiet' = (quiet /\ socket # "open")
  /\ UNCHANGED <<fileVars, memVars, clientVars, console, todo, running,
                 socket>>

\* ... or a player connects and logs in: the chunks around the spawn follow.
Connect ==
  /\ main = "accept" /\ socket = "open"
  /\ main' = "send"
  /\ todo' = [todo EXCEPT !["main"] = Around[Spawn]]
  /\ view' = Nowhere /\ last' = Spawn
  /\ quiet' = FALSE
  /\ UNCHANGED <<fileVars, memVars, console, running, socket>>

\* The player enters another chunk: the chunks around it follow.
Move(c) ==
  /\ main = "play" /\ c # last
  /\ main' = "send"
  /\ last' = c
  /\ todo' = [todo EXCEPT !["main"] = Around[c]]
  /\ UNCHANGED <<fileVars, memVars, view, console, serverVars>>

\* sendChunk sends what loadChunk finds in the file ...
SendStored(c) ==
  /\ main = "send" /\ c \in todo["main"]
  /\ CanRead(store[c])
  /\ view' = [view EXCEPT ![c] = store[c].blocks]
  /\ todo' = [todo EXCEPT !["main"] = @ \ {c}]
  /\ UNCHANGED <<fileVars, memVars, last, main, console, serverVars>>

\* Wrong: a fresh chunk is saved whatever the file holds.
LoadAlwaysFresh(c) ==
  /\ main = "send" /\ c \in todo["main"]
  /\ BeginSave("main", c, Written(Ground))
  /\ main' = "fresh"
  /\ UNCHANGED <<misread, memVars, clientVars, console, todo, serverVars>>

\* ... and where it finds nothing to read, or the file cannot be opened or
\* read, it saves a fresh chunk there ...
LoadFresh(c) ==
  /\ main = "send" /\ c \in todo["main"]
  /\ CanRead(store[c]) => CanFail
  /\ misread' = IF CanRead(store[c]) THEN {c} ELSE {}
  /\ BeginSave("main", c, Written(Ground))
  /\ main' = "fresh"
  /\ UNCHANGED <<memVars, clientVars, console, todo, serverVars>>

\* ... and that one is sent.
SendFresh ==
  /\ main = "fresh"
  /\ SaveReturns("main")
  /\ view' = [view EXCEPT ![pending["main"][1]] = Ground]
  /\ todo' = [todo EXCEPT !["main"] = @ \ {pending["main"][1]}]
  /\ main' = "send" /\ misread' = {}
  /\ UNCHANGED <<memVars, last, console, serverVars>>

AllSent ==
  /\ main = "send" /\ todo["main"] = {}
  /\ main' = "play"
  /\ UNCHANGED <<fileVars, memVars, clientVars, console, todo, serverVars>>

\* The blocks getChunk returns: those in memory, or a new Chunk's.
GetChunk(c) == IF chunks[c] = None THEN Ground ELSE chunks[c]

\* Wrong: the chunk is saved before it is changed.
EditSavesOld(c, x, b, shown) ==
  /\ main = "play" /\ edits < MaxEdits
  /\ chunks' = [chunks EXCEPT ![c] = [GetChunk(c) EXCEPT ![x] = b]]
  /\ BeginSave("main", c, Written(GetChunk(c)))
  /\ view' = IF view[c] = None THEN view ELSE [view EXCEPT ![c][x] = shown]
  /\ edits' = edits + 1
  /\ main' = "save"
  /\ UNCHANGED <<misread, last, console, todo, serverVars>>

\* The player changes the block x of chunk c to b.  The block change is sent,
\* with the id shown, before the chunk is saved.  An entry inserted into
\* chunks_ while the console walks it is a data race: the walk may lose its
\* way and miss any of the chunks it has not reached.
Edit(c, x, b, shown) ==
  /\ main = "play" /\ edits < MaxEdits
  /\ LET new == [GetChunk(c) EXCEPT ![x] = b] IN
       /\ chunks' = [chunks EXCEPT ![c] = new]
       /\ BeginSave("main", c, Written(new))
  /\ view' = IF view[c] = None THEN view ELSE [view EXCEPT ![c][x] = shown]
  /\ IF chunks[c] = None
       THEN \E left \in SUBSET todo["console"] :
              todo' = [todo EXCEPT !["console"] = left]
       ELSE UNCHANGED todo
  /\ edits' = edits + 1
  /\ main' = "save"
  /\ UNCHANGED <<misread, last, console, serverVars>>

\* Wrong: what is left of a broken block is no block id.
DigNothing(c, x) == Edit(c, x, None, Stone)

Dig(c, x) == Edit(c, x, Air, Stone)
Place(c, x) == Edit(c, x, Stone, Stone)

EditSaved ==
  /\ main = "save"
  /\ SaveReturns("main")
  /\ main' = "play"
  /\ UNCHANGED <<misread, memVars, clientVars, console, todo, serverVars>>

Disconnect ==
  /\ main = "play"
  /\ main' = "loop"
  /\ view' = Nowhere /\ last' = Spawn
  /\ UNCHANGED <<fileVars, memVars, console, todo, serverVars>>

\* main returns, and ~Server calls stop() unless the console has run it.
Leave ==
  /\ main = "leave"
  /\ IF socket = "none"
       THEN main' = "exit" /\ UNCHANGED todo
       ELSE /\ main' = "saveAll"
            /\ todo' = [todo EXCEPT !["main"] = Loaded]
  /\ UNCHANGED <<fileVars, memVars, clientVars, console, serverVars>>

MainSaveNext(c) == main = "saveAll" /\ SaveNext("main", c)

MainSaved ==
  /\ main = "saveAll"
  /\ SaveReturns("main")
  /\ UNCHANGED <<misread, memVars, clientVars, main, console, todo,
                 serverVars>>

MainStops ==
  /\ main = "saveAll" /\ AllSaved("main")
  /\ main' = "exit"
  /\ socket' = "none"
  /\ UNCHANGED <<fileVars, memVars, clientVars, console, todo, running, quiet>>

-----------------------------------------------------------------------------
(* The console thread.                                                     *)

\* "stop" is typed: the flag is cleared, and stop() saves what is in memory.
StopTyped ==
  /\ console = "getline" /\ main # "down"
  /\ running' = FALSE
  /\ console' = "saveAll"
  /\ todo' = [todo EXCEPT !["console"] = Loaded]
  /\ quiet' = (main = "accept")
  /\ UNCHANGED <<fileVars, memVars, clientVars, main, socket>>

ConsoleSaveNext(c) == console = "saveAll" /\ SaveNext("console", c)

ConsoleSaved ==
  /\ console = "saveAll"
  /\ SaveReturns("console")
  /\ UNCHANGED <<misread, memVars, clientVars, main, console, todo,
                 serverVars>>

\* Wrong: the socket is shut down before the chunks are saved.
ShutdownFirst ==
  /\ console = "saveAll"
  /\ console' = "shut"
  /\ socket' = IF socket = "none" THEN "none" ELSE "shut"
  /\ UNCHANGED <<fileVars, memVars, clientVars, main, todo, running, quiet>>

\* The socket is shut down, which wakes the accept ...
Shutdown ==
  /\ console = "saveAll" /\ AllSaved("console")
  /\ console' = "shut"
  /\ socket' = IF socket = "none" THEN "none" ELSE "shut"
  /\ UNCHANGED <<fileVars, memVars, clientVars, main, todo, running, quiet>>

\* ... and forgotten.  The loop ends, for running_ is false.
ConsoleStops ==
  /\ console = "shut"
  /\ console' = "done"
  /\ socket' = "none"
  /\ UNCHANGED <<fileVars, memVars, clientVars, main, todo, running, quiet>>

-----------------------------------------------------------------------------
(* The end of the process, which takes the detached console thread along.  *)

ProcessEnds ==
  /\ Store!Abort
  /\ main' = "down" /\ console' = "done"
  /\ chunks' = Nowhere /\ edits' = 0 /\ saved' = {}
  /\ raced' = {} /\ beside' = [t \in Threads |-> {}] /\ misread' = {}
  /\ view' = Nowhere /\ last' = Spawn
  /\ todo' = [t \in Threads |-> {}]
  /\ running' = FALSE /\ socket' = "none" /\ quiet' = FALSE

Exit == main = "exit" /\ ProcessEnds

\* A signal, or an exception that nobody catches.
Crash == main \notin {"down", "exit"} /\ ProcessEnds

\* What the main thread does without being asked by a client.
MainStep ==
  \/ Loop \/ AcceptFails \/ Leave \/ MainSaved \/ MainStops \/ Exit
  \/ SendFresh \/ AllSent \/ EditSaved
  \/ \E c \in Chunks : SendStored(c) \/ LoadFresh(c) \/ MainSaveNext(c)

\* What the console does once "stop" is typed.
ConsoleStep ==
  \/ ConsoleSaved \/ Shutdown \/ ConsoleStops
  \/ \E c \in Chunks : ConsoleSaveNext(c)

ClientStep ==
  \/ Connect \/ Disconnect
  \/ \E c \in Chunks : Move(c)
  \/ \E c \in Chunks, x \in Cells : Dig(c, x) \/ Place(c, x)

Next ==
  \/ Start \/ MainStep \/ ConsoleStep \/ ClientStep \/ StopTyped \/ Crash
  \/ \E t \in Threads : Overwrite(t)

Spec == Init /\ [][Next]_vars

-----------------------------------------------------------------------------
(* Properties.                                                             *)

\* Until "stop" is typed, a chunk that is in memory is in its file as it is in
\* memory, or as the fresh chunk that a load has put over it, or its save is
\* under way and the file is behind by the one block that was just edited
\* (TcpClient::handle saves after every edit, tcpclient.cpp:385 and :441).
FilesFollowMemory ==
  console = "getline" =>
    \A c \in Loaded \cap saved :
      \/ store[c] \in {Written(chunks[c]), Written(Ground)}
      \/ /\ pending["main"] = <<c, Written(chunks[c])>>
         /\ \E x \in Cells : \A y \in Cells \ {x} :
              store[c].blocks[y] = chunks[c][y]

\* A "stop" that is typed while the server waits for a client, and no client
\* or failing accept stirs it, leaves in the files every chunk as it is in
\* memory, also those that loads had put a fresh chunk over: the main thread
\* wakes only when the console has saved, and saves after it or not at all
\* (server.cpp:7-10, 53-81).
QuietStopSavesAll ==
  main = "exit" /\ quiet =>
    \A c \in Loaded : c \in saved \/ ~CanFail => store[c] = Written(chunks[c])

\* A chunk that the server can read is lost only to an edit of that chunk, or
\* to a load that has failed to read it: connecting, walking, stopping and
\* saves that race never replace it (WorldSave.cpp:16-37).
ReadableSurvivesLoads ==
  [][\A c \in Chunks : CanRead(store[c]) /\ store'[c] # store[c] =>
       c \in Loaded \/ (CanFail /\ c \in misread)]_vars

\* README.md:28: "World saves on server shutdown via "stop" console command".
\* What two saves at once ruin is left aside here (RegionFileRace.cfg).
StopSavesWorld ==
  main = "exit" /\ ~CanFail =>
    \A c \in Loaded : store[c] \in {Written(chunks[c]), Absent}

\* README.md:26-27: "Chunk persistence via Anvil region file format (.mca)",
\* "Block breaking and placement".  An edit changes one block of its chunk.
EditChangesOneBlock ==
  [][\A c \in Chunks :
       /\ EditSaved /\ store'[c] # store[c]
       /\ Absent \notin {store[c], store'[c]}
       => \E x \in Cells : \A y \in Cells \ {x} :
            store'[c].blocks[y] = store[c].blocks[y]]_vars
=============================================================================
