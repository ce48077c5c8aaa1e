---------------------------- MODULE WorldProofs ----------------------------
(***************************************************************************)
(* Proofs about World, for every set of chunks and blocks, any number of   *)
(* edits, and reads and writes that fail or not.                           *)
(***************************************************************************)
EXTENDS World, TLAPS

(***************************************************************************)
(* Types.  Only chunks that are in memory are ever queued for saving, so   *)
(* what is saved is a chunk.  What is under way to a file was written by   *)
(* this program and goes to a chunk in memory or to one that was not read, *)
(* and what a slow save may write over is no other program's, which is     *)
(* what ReadableSurvivesLoads needs.                                       *)
(***************************************************************************)
TodoInv ==
  /\ todo["console"] \subseteq Loaded
  /\ main = "saveAll" => todo["main"] \subseteq Loaded

MayReplace(t, c) ==
  \/ c \in Loaded
  \/ ~CanRead(store[c])
  \/ t = "main" /\ CanFail /\ c \in misread

PendingInv ==
  \A t \in Threads : pending[t] # Absent =>
    pending[t][2].by = "server" /\ MayReplace(t, pending[t][1])

BesideInv == \A t \in Threads : \A c \in beside[t] : ~CanRead(store[c])

TInv == TypeOK /\ TodoInv /\ PendingInv /\ BesideInv

USE DEF raceVars, fileVars

LEMMA WrittenImage ==
  ASSUME NEW b \in [Cells -> Blocks]
  PROVE  /\ Written(b) \in Image
         /\ Written(b).by = "server"
         /\ Written(b).blocks = b
         /\ ~CanRead(Written(b))
  BY DEF Written, Image, CanRead

LEMMA GroundBlocks ==
  ASSUME TypeOK, NEW c \in Chunks
  PROVE  /\ GetChunk(c) \in [Cells -> Blocks]
         /\ c \in Loaded => chunks[c] \in [Cells -> Blocks]
  BY BlocksAssumption DEF TypeOK, GetChunk, Loaded

\* A save that begins.
LEMMA BeginKeeps ==
  ASSUME TInv, NEW t \in Threads, NEW c \in Chunks,
         NEW b \in [Cells -> Blocks],
         BeginSave(t, c, Written(b)),
         Loaded \subseteq Loaded',
         t = "main" \/ misread' = misread,
         MayReplace(t, c)'
  PROVE  /\ Store!TypeOK' /\ PendingInv' /\ BesideInv'
         /\ saved' \subseteq Chunks
         /\ raced' \subseteq Threads /\ beside' \in [Threads -> SUBSET Chunks]
<1>1. Written(b) \in Image /\ Written(b).by = "server"
  BY WrittenImage
<1>2. /\ store' = store
      /\ pending' = [pending EXCEPT ![t] = <<c, Written(b)>>]
      /\ saved' = saved /\ beside' = beside
      /\ raced' = Threads \/ raced' = raced
  BY DEF BeginSave, Store!Begin
<1>3. Store!TypeOK'
  BY <1>1, <1>2 DEF Store!TypeOK, TInv, TypeOK
<1>4. ASSUME NEW u \in Threads, pending'[u] # Absent
      PROVE  pending'[u][2].by = "server" /\ MayReplace(u, pending[u][1])'
  <2>1. CASE u = t
    <3>1. pending'[u] = <<c, Written(b)>>
      BY <1>2, <2>1 DEF TInv, TypeOK, Store!TypeOK
    <3>2. QED
      BY <1>1, <2>1, <3>1 DEF MayReplace, CanRead
  <2>2. CASE u # t
    <3>1. pending'[u] = pending[u]
      BY <1>2, <2>2 DEF TInv, TypeOK, Store!TypeOK
    <3>2. pending[u][2].by = "server" /\ MayReplace(u, pending[u][1])
      BY <1>4, <3>1 DEF TInv, PendingInv
    <3>3. u = "main" => misread' = misread
      BY <2>2
    <3>4. QED
      BY <1>2, <3>1, <3>2, <3>3 DEF MayReplace, CanRead
  <2>3. QED
    BY <2>1, <2>2
<1>5. PendingInv'
  BY <1>4 DEF PendingInv
<1>6. BesideInv'
  BY <1>2 DEF TInv, BesideInv, CanRead
<1>7. QED
  BY <1>2, <1>3, <1>5, <1>6 DEF TInv, TypeOK

\* A save that ends, in the file or nowhere.
LEMMA ReturnKeeps ==
  ASSUME TInv, NEW t \in Threads, SaveReturns(t), chunks' = chunks,
         t = "main" \/ misread' = misread
  PROVE  /\ Store!TypeOK' /\ PendingInv' /\ BesideInv'
         /\ saved' \subseteq Chunks
         /\ raced' \subseteq Threads /\ beside' \in [Threads -> SUBSET Chunks]
<1>1. /\ pending[t] # Absent /\ pending[t] \in Chunks \X Image
      /\ pending' = [pending EXCEPT ![t] = Absent]
      /\ pending[t][1] \in Chunks
  BY DEF SaveReturns, Store!Commit, Store!Drop, Garble, TInv, TypeOK,
     Store!TypeOK
<1>2. \/ store' = store
      \/ store' = [store EXCEPT ![pending[t][1]] = pending[t][2]]
      \/ store' = [store EXCEPT ![pending[t][1]] = Absent]
  BY DEF SaveReturns, Store!Commit, Store!Drop, Garble
<1>3. Store!TypeOK'
  BY <1>1, <1>2 DEF TInv, TypeOK, Store!TypeOK
<1>4. saved' \subseteq Chunks /\ raced' \subseteq Threads
  BY <1>1 DEF SaveReturns, TInv, TypeOK
<1>5. Loaded' = Loaded
  BY DEF Loaded
<1>6. pending[t][2].by = "server"
  BY <1>1 DEF TInv, PendingInv
<1>7. \A c \in Chunks : CanRead(store'[c]) => CanRead(store[c])
  <2>1. ~CanRead(pending[t][2]) /\ ~CanRead(Absent)
    BY <1>6 DEF CanRead
  <2>2. QED
    BY <1>1, <1>2, <2>1 DEF TInv, TypeOK, Store!TypeOK
<1>8. ASSUME NEW u \in Threads, pending'[u] # Absent
      PROVE  pending'[u][2].by = "server" /\ MayReplace(u, pending[u][1])'
  <2>1. u # t /\ pending'[u] = pending[u] /\ pending[u] \in Chunks \X Image
    BY <1>1, <1>8 DEF TInv, TypeOK, Store!TypeOK
  <2>2. pending[u][1] \in Chunks
    BY <2>1
  <2>3. pending[u][2].by = "server" /\ MayReplace(u, pending[u][1])
    BY <1>8, <2>1 DEF TInv, PendingInv
  <2>4. u = "main" => misread' = misread
    BY <2>1
  <2>5. MayReplace(u, pending[u][1])'
          <=> \/ pending'[u][1] \in Loaded'
              \/ ~CanRead(store'[pending'[u][1]])
              \/ u = "main" /\ CanFail /\ pending'[u][1] \in misread'
    BY DEF MayReplace, CanRead
  <2>6. QED
    BY <1>5, <1>7, <2>1, <2>2, <2>3, <2>4, <2>5 DEF MayReplace
<1>9. PendingInv'
  BY <1>8 DEF PendingInv
<1>10. CASE CanFail /\ Store!Drop(t) /\ beside' = [beside EXCEPT ![t] = {}]
  <2>1. store' = store
    BY <1>10 DEF Store!Drop
  <2>2. /\ beside' \in [Threads -> SUBSET Chunks]
        /\ \A u \in Threads : beside'[u] \subseteq beside[u]
    BY <1>10 DEF TInv, TypeOK
  <2>3. BesideInv'
    BY <2>1, <2>2 DEF TInv, BesideInv, CanRead
  <2>4. QED
    BY <1>3, <1>4, <1>9, <2>2, <2>3
<1>11. CASE /\ Store!Commit(t) \/ Garble(t)
            /\ beside' = [u \in Threads |->
                            IF u # t /\ pending[u] # Absent
                              THEN beside[u] \cup {pending[t][1]} ELSE {}]
  <2>1. store'[pending[t][1]] \in {pending[t][2], Absent}
    BY <1>1, <1>11 DEF Store!Commit, Garble, TInv, TypeOK, Store!TypeOK
  <2>2. ~CanRead(store'[pending[t][1]])
    BY <1>6, <2>1 DEF CanRead
  <2>3. \A u \in Threads : beside[u] \in SUBSET Chunks
    BY DEF TInv, TypeOK
  <2>4. \A u \in Threads : beside'[u] \subseteq beside[u] \cup {pending[t][1]}
    BY <1>11
  <2>5. beside' \in [Threads -> SUBSET Chunks]
    BY <1>1, <1>11, <2>3
  <2>6. ASSUME NEW u \in Threads, NEW c \in beside'[u]
        PROVE  ~CanRead(store'[c])
    <3>1. CASE c = pending[t][1]
      BY <2>2, <3>1
    <3>2. CASE c # pending[t][1]
      <4>1. c \in beside[u] /\ c \in Chunks
        BY <2>3, <2>4, <2>6, <3>2
      <4>2. ~CanRead(store[c])
        BY <4>1 DEF TInv, BesideInv
      <4>3. QED
        BY <1>7, <4>1, <4>2
    <3>3. QED
      BY <3>1, <3>2
  <2>7. BesideInv'
    BY <2>6 DEF BesideInv, CanRead
  <2>8. QED
    BY <1>3, <1>4, <1>9, <2>5, <2>7
<1>12. QED
  BY <1>10, <1>11 DEF SaveReturns

LEMMA InitTInv == Init => TInv
<1> SUFFICES ASSUME Init PROVE TInv
  OBVIOUS
<1>1. Imports \subseteq [Cells -> Blocks]
  BY BlocksAssumption
<1>2. \A b \in Imports : Imported(b) \in Image
  BY <1>1 DEF Imported, Image
<1>3. Store!TypeOK
  BY <1>2 DEF Init, Store!TypeOK
<1>4. TypeOK
  <2>1. Nowhere \in [Chunks -> [Cells -> Blocks] \cup {None}]
    BY DEF Nowhere
  <2>2. [t \in Threads |-> {}] \in [Threads -> SUBSET Chunks]
    OBVIOUS
  <2>3. 0 \in 0..MaxEdits /\ Spawn \in Chunks
    BY PlaceAssumption
  <2>4. QED
    BY <1>3, <2>1, <2>2, <2>3 DEF Init, TypeOK, MainSteps, ConsoleSteps
<1>5. TodoInv /\ PendingInv /\ BesideInv
  BY DEF Init, TodoInv, PendingInv, BesideInv, Threads
<1>6. QED
  BY <1>4, <1>5 DEF TInv

\* A step that leaves memory, the saves under way and the files alone.
LEMMA StillKeeps ==
  ASSUME TInv, UNCHANGED <<fileVars, chunks>>
  PROVE  /\ Store!TypeOK' /\ PendingInv' /\ BesideInv' /\ Loaded' = Loaded
         /\ saved' \subseteq Chunks /\ misread' \subseteq Chunks
         /\ raced' \subseteq Threads
         /\ beside' \in [Threads -> SUBSET Chunks]
         /\ chunks' \in [Chunks -> [Cells -> Blocks] \cup {None}]
  BY DEF TInv, TypeOK, Store!TypeOK, PendingInv, BesideInv, MayReplace, Loaded,
     CanRead

LEMMA NextTInv ==
  ASSUME TInv, [Next]_vars
  PROVE  TInv'
<1> USE DEF memVars, clientVars, serverVars
<1>1. ASSUME NEW t \in Threads, NEW c \in Chunks, SaveNext(t, c),
             t = "console" \/ main = "saveAll"
      PROVE  TInv'
  <2>1. c \in Loaded /\ chunks[c] \in [Cells -> Blocks]
    BY <1>1, GroundBlocks DEF SaveNext, TInv, TodoInv, Threads
  <2>2. /\ Loaded' = Loaded /\ BeginSave(t, c, Written(chunks[c]))
        /\ misread' = misread
    BY <1>1 DEF SaveNext, Loaded
  <2>3. /\ Store!TypeOK' /\ PendingInv' /\ BesideInv'
        /\ saved' \subseteq Chunks /\ raced' \subseteq Threads
        /\ beside' \in [Threads -> SUBSET Chunks]
    BY <2>1, <2>2, BeginKeeps DEF MayReplace
  <2>4. TypeOK'
    BY <1>1, <2>3 DEF SaveNext, TInv, TypeOK
  <2>5. TodoInv'
    BY <1>1, <2>2 DEF SaveNext, TInv, TypeOK, TodoInv, Threads
  <2>6. QED
    BY <2>3, <2>4, <2>5 DEF TInv
<1>2. ASSUME NEW t \in Threads, SaveReturns(t), chunks' = chunks,
             edits' = edits, last' = last, view' = view, console' = console,
             todo' = todo, misread' = misread, UNCHANGED serverVars,
             main' \in MainSteps,
             main' = "saveAll" => main = "saveAll"
      PROVE  TInv'
  <2>1. /\ Store!TypeOK' /\ PendingInv' /\ BesideInv'
        /\ saved' \subseteq Chunks /\ raced' \subseteq Threads
        /\ beside' \in [Threads -> SUBSET Chunks]
    BY <1>2, ReturnKeeps
  <2>2. TypeOK'
    BY <1>2, <2>1 DEF TInv, TypeOK
  <2>3. TodoInv'
    BY <1>2 DEF TInv, TodoInv, Loaded
  <2>4. QED
    BY <2>1, <2>2, <2>3 DEF TInv
<1>3. CASE Start
  BY <1>3, StillKeeps DEF Start, TInv, TypeOK, TodoInv, MainSteps, ConsoleSteps
<1>4. CASE Loop
  BY <1>4, StillKeeps DEF Loop, TInv, TypeOK, TodoInv, MainSteps
<1>5. CASE AcceptFails
  <2>1. quiet' \in BOOLEAN
    BY <1>5, Zenon DEF AcceptFails
  <2>2. QED
    BY <1>5, <2>1, StillKeeps
    DEF AcceptFails, TInv, TypeOK, TodoInv, MainSteps
<1>6. CASE Connect
  BY <1>6, StillKeeps, PlaceAssumption
  DEF Connect, TInv, TypeOK, TodoInv, MainSteps, Nowhere, Threads
<1>7. ASSUME NEW c \in Chunks, Move(c) PROVE TInv'
  BY <1>7, StillKeeps, PlaceAssumption
  DEF Move, TInv, TypeOK, TodoInv, MainSteps, Threads
<1>8. ASSUME NEW c \in Chunks, SendStored(c) PROVE TInv'
  <2>1. store[c].blocks \in [Cells -> Blocks]
    BY <1>8 DEF SendStored, CanRead, TInv, TypeOK, Store!TypeOK, Image
  <2>2. view' \in [Chunks -> [Cells -> Blocks] \cup {None}]
    BY <1>8, <2>1 DEF SendStored, TInv, TypeOK
  <2>3. QED
    BY <1>8, <2>2, StillKeeps
    DEF SendStored, TInv, TypeOK, TodoInv, MainSteps, Threads
<1>9. ASSUME NEW c \in Chunks, LoadFresh(c) PROVE TInv'
  <2>1. Loaded' = Loaded /\ Ground \in [Cells -> Blocks]
    BY <1>9, BlocksAssumption DEF LoadFresh, Loaded
  <2>2. misread' \subseteq Chunks /\ MayReplace("main", c)'
    <3>1. store' = store
      BY <1>9 DEF LoadFresh, BeginSave, Store!Begin
    <3>2. QED
      BY <1>9, <3>1 DEF LoadFresh, MayReplace, CanRead
  <2>3. /\ Store!TypeOK' /\ PendingInv' /\ BesideInv'
        /\ saved' \subseteq Chunks /\ raced' \subseteq Threads
        /\ beside' \in [Threads -> SUBSET Chunks]
    BY <1>9, <2>1, <2>2, BeginKeeps DEF LoadFresh, Threads
  <2>4. TypeOK' /\ TodoInv'
    BY <1>9, <2>1, <2>2, <2>3 DEF LoadFresh, TInv, TypeOK, TodoInv, MainSteps
  <2>5. QED
    BY <2>3, <2>4 DEF TInv
<1>10. CASE SendFresh
  <2>1. /\ Store!TypeOK' /\ PendingInv' /\ BesideInv'
        /\ saved' \subseteq Chunks /\ raced' \subseteq Threads
        /\ beside' \in [Threads -> SUBSET Chunks]
    BY <1>10, ReturnKeeps DEF SendFresh, Threads
  <2>2. view' \in [Chunks -> [Cells -> Blocks] \cup {None}]
    BY <1>10, BlocksAssumption DEF SendFresh, TInv, TypeOK
  <2>3. todo' \in [Threads -> SUBSET Chunks] /\ TodoInv'
    BY <1>10 DEF SendFresh, TInv, TypeOK, TodoInv, Loaded, Threads
  <2>4. TypeOK'
    BY <1>10, <2>1, <2>2, <2>3 DEF SendFresh, TInv, TypeOK, MainSteps
  <2>5. QED
    BY <2>1, <2>3, <2>4 DEF TInv
<1>11. CASE AllSent
  BY <1>11, StillKeeps DEF AllSent, TInv, TypeOK, TodoInv, MainSteps
<1>12. ASSUME NEW c \in Chunks, NEW x \in Cells, NEW b \in Blocks,
              NEW shown \in Blocks, Edit(c, x, b, shown)
       PROVE  TInv'
  <2> DEFINE new == [GetChunk(c) EXCEPT ![x] = b]
  <2>1. new \in [Cells -> Blocks]
    BY GroundBlocks DEF TInv
  <2>2. chunks' = [chunks EXCEPT ![c] = new]
        /\ BeginSave("main", c, Written(new))
    BY <1>12 DEF Edit
  <2>3. chunks' \in [Chunks -> [Cells -> Blocks] \cup {None}]
    BY <2>1, <2>2 DEF TInv, TypeOK
  <2>4. Loaded \subseteq Loaded' /\ c \in Loaded'
    BY <2>1, <2>2, BlocksAssumption DEF TInv, TypeOK, Loaded
  <2>5. /\ Store!TypeOK' /\ PendingInv' /\ BesideInv'
        /\ saved' \subseteq Chunks /\ raced' \subseteq Threads
        /\ beside' \in [Threads -> SUBSET Chunks]
    BY <2>1, <2>2, <2>4, BeginKeeps DEF Threads, MayReplace
  <2>6. view' \in [Chunks -> [Cells -> Blocks] \cup {None}]
    <3>1. CASE view[c] = None
      BY <1>12, <3>1 DEF Edit, TInv, TypeOK
    <3>2. CASE view[c] # None
      <4>1. view[c] \in [Cells -> Blocks]
        BY <3>2 DEF TInv, TypeOK
      <4>2. [view[c] EXCEPT ![x] = shown] \in [Cells -> Blocks]
        BY <4>1
      <4>3. view' = [view EXCEPT ![c] = [view[c] EXCEPT ![x] = shown]]
        BY <1>12, <3>2 DEF Edit
      <4>4. QED
        BY <4>2, <4>3 DEF TInv, TypeOK
    <3>3. QED
      BY <3>1, <3>2
  <2>7. todo' \in [Threads -> SUBSET Chunks] /\ todo'["console"] \subseteq Loaded
    BY <1>12 DEF Edit, TInv, TypeOK, TodoInv, Threads
  <2>8. edits' \in 0..MaxEdits
    BY <1>12, PlaceAssumption DEF Edit, TInv, TypeOK
  <2>9. TypeOK'
    BY <1>12, <2>3, <2>5, <2>6, <2>7, <2>8 DEF Edit, TInv, TypeOK, MainSteps
  <2>10. TodoInv'
    BY <1>12, <2>4, <2>7 DEF Edit, TodoInv
  <2>11. QED
    BY <2>5, <2>9, <2>10 DEF TInv
<1>13. ASSUME NEW c \in Chunks, NEW x \in Cells, Dig(c, x) \/ Place(c, x)
       PROVE  TInv'
  BY <1>12, <1>13, BlocksAssumption DEF Dig, Place
<1>14. CASE EditSaved
  BY <1>2, <1>14 DEF EditSaved, MainSteps, Threads
<1>15. CASE Disconnect
  BY <1>15, StillKeeps, PlaceAssumption
  DEF Disconnect, TInv, TypeOK, TodoInv, MainSteps, Nowhere
<1>16. CASE Leave
  <2>1. Loaded \subseteq Chunks
    BY DEF Loaded
  <2>2. QED
    BY <1>16, <2>1, StillKeeps
    DEF Leave, TInv, TypeOK, TodoInv, MainSteps, Threads
<1>17. ASSUME NEW c \in Chunks, MainSaveNext(c) PROVE TInv'
  BY <1>1, <1>17 DEF MainSaveNext, Threads
<1>18. CASE MainSaved
  BY <1>2, <1>18 DEF MainSaved, MainSteps, Threads
<1>19. CASE MainStops
  BY <1>19, StillKeeps DEF MainStops, TInv, TypeOK, TodoInv, MainSteps
<1>20. CASE StopTyped
  <2>1. Loaded \subseteq Chunks
    BY DEF Loaded
  <2>2. todo' \in [Threads -> SUBSET Chunks] /\ TodoInv'
    BY <1>20, <2>1, StillKeeps
    DEF StopTyped, TInv, TypeOK, TodoInv, Threads
  <2>3. quiet' \in BOOLEAN
    <3>1. quiet' = (main = "accept")
      BY <1>20 DEF StopTyped
    <3>2. (main = "accept") \in BOOLEAN
      OBVIOUS
    <3>3. QED
      BY <3>1, <3>2, Zenon
  <2>4. TypeOK'
    BY <1>20, <2>2, <2>3, StillKeeps
    DEF StopTyped, TInv, TypeOK, ConsoleSteps
  <2>5. PendingInv' /\ BesideInv'
    BY <1>20, StillKeeps DEF StopTyped
  <2>6. QED
    BY <2>2, <2>4, <2>5 DEF TInv
<1>21. ASSUME NEW c \in Chunks, ConsoleSaveNext(c) PROVE TInv'
  BY <1>1, <1>21 DEF ConsoleSaveNext, Threads
<1>22. CASE ConsoleSaved
  BY <1>2, <1>22 DEF ConsoleSaved, Threads, TInv, TypeOK
<1>23. CASE Shutdown
  BY <1>23, StillKeeps DEF Shutdown, TInv, TypeOK, TodoInv, ConsoleSteps
<1>24. CASE ConsoleStops
  BY <1>24, StillKeeps DEF ConsoleStops, TInv, TypeOK, TodoInv, ConsoleSteps
<1>25. CASE ProcessEnds
  <2>1. Store!TypeOK'
    BY <1>25 DEF ProcessEnds, Store!Abort, TInv, TypeOK, Store!TypeOK
  <2>2. TypeOK'
    <3>1. Nowhere \in [Chunks -> [Cells -> Blocks] \cup {None}]
      BY DEF Nowhere
    <3>2. [t \in Threads |-> {}] \in [Threads -> SUBSET Chunks]
      OBVIOUS
    <3>3. 0 \in 0..MaxEdits /\ Spawn \in Chunks
      BY PlaceAssumption
    <3>4. QED
      BY <1>25, <2>1, <3>1, <3>2, <3>3
      DEF ProcessEnds, TypeOK, MainSteps, ConsoleSteps
  <2>3. TodoInv' /\ PendingInv' /\ BesideInv'
    BY <1>25
    DEF ProcessEnds, Store!Abort, TodoInv, PendingInv, BesideInv, Threads
  <2>4. QED
    BY <2>2, <2>3 DEF TInv
<1>26. ASSUME NEW t \in Threads, Overwrite(t) PROVE TInv'
  <2>1. PICK d \in beside[t] : store' = [store EXCEPT ![d] = Absent]
    BY <1>26 DEF Overwrite
  <2>2. Store!TypeOK' /\ Loaded' = Loaded
    BY <1>26, <2>1 DEF Overwrite, Loaded, TInv, TypeOK, Store!TypeOK
  <2>3. \A c : CanRead(store'[c]) /\ c \in Chunks => CanRead(store[c])
    BY <2>1 DEF CanRead, TInv, TypeOK, Store!TypeOK
  <2>4. PendingInv' /\ BesideInv'
    <3>1. pending' = pending /\ misread' = misread /\ beside' = beside
      BY <1>26 DEF Overwrite
    <3>2. \A u \in Threads : /\ beside[u] \subseteq Chunks
                             /\ pending[u] # Absent => pending[u][1] \in Chunks
      BY DEF TInv, TypeOK, Store!TypeOK
    <3>3. BesideInv'
      BY <2>3, <3>1, <3>2 DEF TInv, BesideInv, CanRead
    <3>4. PendingInv'
      BY <2>2, <2>3, <3>1, <3>2 DEF TInv, PendingInv, MayReplace, CanRead
    <3>5. QED
      BY <3>3, <3>4
  <2>5. TypeOK' /\ TodoInv'
    BY <1>26, <2>2 DEF Overwrite, TInv, TypeOK, TodoInv
  <2>6. QED
    BY <2>4, <2>5 DEF TInv
<1>27. CASE UNCHANGED vars
  BY <1>27, StillKeeps DEF vars, TInv, TypeOK, TodoInv
<1>28. QED
  BY <1>3, <1>4, <1>5, <1>6, <1>7, <1>8, <1>9, <1>10, <1>11, <1>13, <1>14,
     <1>15, <1>16, <1>17, <1>18, <1>19, <1>20, <1>21, <1>22, <1>23, <1>24,
     <1>25, <1>26, <1>27
  DEF Next, MainStep, ConsoleStep, ClientStep, Exit, Crash

LEMMA TypingInv == Spec => []TInv
  BY InitTInv, NextTInv, PTL DEF Spec

\* Whatever clients, the console and crashes do, memory, files and the
\* client's view hold chunks, and both threads are at a place in the code.
THEOREM TypeCorrect == Spec => []TypeOK
  BY TypingInv, PTL DEF TInv

\* A chunk of another generator that the server can read is lost to nothing
\* but an edit of it or a load that has failed to read it: connecting, walking
\* and stopping leave it alone, and so do crashes and saves that race.
THEOREM SurvivesLoads == Spec => ReadableSurvivesLoads
<1>1. ASSUME TInv, [Next]_vars
      PROVE  [\A c \in Chunks : CanRead(store[c]) /\ store'[c] # store[c] =>
                c \in Loaded \/ (CanFail /\ c \in misread)]_vars
  <2> USE DEF memVars, clientVars, serverVars
  <2> SUFFICES ASSUME NEW c \in Chunks,
                      CanRead(store[c]), store'[c] # store[c]
               PROVE  c \in Loaded \/ (CanFail /\ c \in misread)
    OBVIOUS
  <2>1. \E t \in Threads : SaveReturns(t) \/ Overwrite(t)
    BY <1>1
    DEF Next, MainStep, ConsoleStep, ClientStep, Exit, Crash, ProcessEnds, vars,
        Start, Loop, AcceptFails, Connect, Move, SendStored, LoadFresh,
        SendFresh, AllSent, Dig, Place, Edit, EditSaved, Disconnect, Leave,
        MainSaveNext, MainSaved, MainStops, StopTyped, ConsoleSaveNext,
        ConsoleSaved, Shutdown, ConsoleStops, SaveNext, Threads, BeginSave,
        Store!Begin, Store!Abort
  <2>2. PICK t \in Threads : SaveReturns(t) \/ Overwrite(t)
    BY <2>1
  <2>3. CASE Overwrite(t)
    <3>1. PICK d \in beside[t] : store' = [store EXCEPT ![d] = Absent]
      BY <2>3 DEF Overwrite
    <3>2. c = d
      BY <1>1, <3>1 DEF TInv, TypeOK, Store!TypeOK
    <3>3. QED
      BY <1>1, <3>2 DEF TInv, BesideInv
  <2>4. CASE SaveReturns(t)
    <3>1. /\ pending[t] # Absent
          /\ \/ store' = store
             \/ store' = [store EXCEPT ![pending[t][1]] = pending[t][2]]
             \/ store' = [store EXCEPT ![pending[t][1]] = Absent]
      BY <2>4 DEF SaveReturns, Store!Commit, Store!Drop, Garble
    <3>2. pending[t][1] = c
      BY <1>1, <3>1 DEF TInv, TypeOK, Store!TypeOK
    <3>3. QED
      BY <1>1, <3>1, <3>2 DEF TInv, PendingInv, MayReplace
  <2>5. QED
    BY <2>2, <2>3, <2>4
<1>2. QED
  BY <1>1, TypingInv, PTL DEF Spec, ReadableSurvivesLoads

(***************************************************************************)
(* Where the threads can be, and when they have a save under way.  Until   *)
(* "stop" is typed no save meets another.                                  *)
(***************************************************************************)
Calm == raced = {} /\ beside = [t \in Threads |-> {}]

PlaceInv ==
  /\ main = "down" => console = "done" /\ saved = {}
  /\ console = "getline" => running = TRUE /\ socket = "open"
  /\ main \in {"leave", "saveAll", "exit"} => running = FALSE
  /\ console # "saveAll" => pending["console"] = Absent
  /\ main \notin {"fresh", "save", "saveAll"} => pending["main"] = Absent
  /\ socket = "none" => console = "done" \/ main \in {"exit", "down"}
  /\ console = "getline" \/ main = "down" => Calm

\* What the end of a save does to the saves under way.
LEMMA ReturnFrees ==
  ASSUME TInv, NEW t \in Threads, SaveReturns(t)
  PROVE  /\ pending'[t] = Absent
         /\ \A u \in Threads \ {t} : pending'[u] = pending[u]
         /\ pending[t] # Absent /\ pending[t] \in Chunks \X Image
         /\ pending[t][1] \in Chunks
         /\ \A c \in Chunks : c # pending[t][1] =>
              store'[c] = store[c] /\ (c \in saved' <=> c \in saved)
         /\ \/ store'[pending[t][1]] = pending[t][2]
            \/ CanFail /\ pending[t][1] \notin saved'
            \/ t \in raced
  BY DEF SaveReturns, Store!Commit, Store!Drop, Garble, TInv, TypeOK,
     Store!TypeOK

\* What the start of one does.
LEMMA BeginSets ==
  ASSUME TInv, NEW t \in Threads, NEW c, NEW v, BeginSave(t, c, v)
  PROVE  /\ pending[t] = Absent /\ pending'[t] = <<c, v>>
         /\ \A u \in Threads \ {t} : pending'[u] = pending[u]
         /\ store' = store /\ saved' = saved
  BY DEF BeginSave, Store!Begin, TInv, TypeOK, Store!TypeOK

\* A save that meets no other leaves it at that.
LEMMA BeginCalm ==
  ASSUME Calm, NEW t \in Threads, NEW c, NEW v, BeginSave(t, c, v),
         pending[Other(t)] = Absent
  PROVE  Calm'
  BY DEF Calm, BeginSave

LEMMA ReturnCalm ==
  ASSUME TInv, Calm, NEW t \in Threads, SaveReturns(t),
         pending[Other(t)] = Absent
  PROVE  Calm'
<1>1. raced' = {}
  BY DEF Calm, SaveReturns
<1>2. \A u \in Threads : u # t => u = Other(t)
  BY DEF Threads, Other
<1>3. beside' = [u \in Threads |-> {}]
  <2>1. CASE beside' = [beside EXCEPT ![t] = {}]
    BY <2>1 DEF Calm
  <2>2. CASE beside' = [u \in Threads |-> IF u # t /\ pending[u] # Absent
                                           THEN beside[u] \cup {pending[t][1]}
                                           ELSE {}]
    <3>1. \A u \in Threads : ~(u # t /\ pending[u] # Absent)
      BY <1>2
    <3>2. QED
      BY <2>2, <3>1
  <2>3. QED
    BY <2>1, <2>2 DEF SaveReturns
<1>4. QED
  BY <1>1, <1>3 DEF Calm

LEMMA InitPlaceInv == Init => PlaceInv
  BY DEF Init, PlaceInv, Calm, Threads

LEMMA NextPlaceInv ==
  ASSUME TInv, PlaceInv, [Next]_vars
  PROVE  PlaceInv'
<1> USE DEF memVars, clientVars, serverVars, PlaceInv
<1>0. /\ "main" \in Threads /\ "console" \in Threads \ {"main"}
      /\ "main" \in Threads \ {"console"} /\ "console" \in Threads
      /\ Other("main") = "console" /\ Other("console") = "main"
  BY DEF Threads, Other
<1>1. CASE Start \/ Loop \/ AcceptFails \/ Connect \/ AllSent \/ Disconnect
           \/ Leave \/ StopTyped
  BY <1>1 DEF Start, Loop, AcceptFails, Connect, AllSent, Disconnect, Leave,
     StopTyped, TInv, TypeOK, Calm
<1>2. CASE MainStops \/ Shutdown \/ ConsoleStops
  BY <1>2 DEF MainStops, Shutdown, ConsoleStops, AllSaved, Calm
<1>3. ASSUME NEW c \in Chunks, Move(c) \/ SendStored(c) PROVE PlaceInv'
  BY <1>3 DEF Move, SendStored, Calm
\* The main thread begins a save, or ends one.
<1>4. ASSUME NEW c, NEW v, BeginSave("main", c, v),
             console' = console, running' = running, socket' = socket,
             main \in {"send", "play", "saveAll"},
             main' \in {"fresh", "save"} \/ main' = main,
             main' = main => main = "saveAll"
      PROVE  PlaceInv'
  <2>1. pending'["console"] = pending["console"] /\ saved' = saved
    BY <1>0, <1>4, BeginSets
  <2>2. console' = "getline" => Calm'
    BY <1>0, <1>4, BeginCalm
  <2>3. QED
    BY <1>4, <2>1, <2>2
<1>5. ASSUME SaveReturns("main"),
             console' = console, running' = running, socket' = socket,
             main \in {"fresh", "save", "saveAll"},
             main' \in {"play", "send"} \/ main' = main
      PROVE  PlaceInv'
  <2>1. pending'["console"] = pending["console"] /\ pending'["main"] = Absent
    BY <1>0, <1>5, ReturnFrees
  <2>2. console' = "getline" => Calm'
    BY <1>0, <1>5, ReturnCalm
  <2>3. QED
    BY <1>5, <2>1, <2>2
<1>6. ASSUME NEW c \in Chunks, LoadFresh(c) PROVE PlaceInv'
  BY <1>4, <1>6 DEF LoadFresh
<1>7. CASE SendFresh \/ EditSaved \/ MainSaved
  BY <1>5, <1>7 DEF SendFresh, EditSaved, MainSaved
<1>8. ASSUME NEW c \in Chunks, NEW x \in Cells, Dig(c, x) \/ Place(c, x)
      PROVE  PlaceInv'
  <2>1. ASSUME NEW b, NEW shown, Edit(c, x, b, shown) PROVE PlaceInv'
    <3>1. BeginSave("main", c, Written([GetChunk(c) EXCEPT ![x] = b]))
      BY <2>1 DEF Edit
    <3>2. QED
      BY <1>4, <2>1, <3>1 DEF Edit
  <2>2. QED
    BY <1>8, <2>1 DEF Dig, Place
<1>9. ASSUME NEW c \in Chunks, MainSaveNext(c) PROVE PlaceInv'
  BY <1>4, <1>9 DEF MainSaveNext, SaveNext
\* The console does.
<1>10. ASSUME console = "saveAll", console' = console, main' = main,
              running' = running, socket' = socket,
              main = "down" => saved' = saved,
              pending'["main"] = pending["main"]
       PROVE  PlaceInv'
  BY <1>10
<1>11. ASSUME NEW c \in Chunks, ConsoleSaveNext(c) PROVE PlaceInv'
  BY <1>0, <1>10, <1>11, BeginSets DEF ConsoleSaveNext, SaveNext
<1>12. CASE ConsoleSaved
  BY <1>0, <1>10, <1>12, ReturnFrees DEF ConsoleSaved
<1>13. CASE ProcessEnds
  BY <1>0, <1>13 DEF ProcessEnds, Store!Abort, Calm
<1>14. ASSUME NEW t \in Threads, Overwrite(t) PROVE PlaceInv'
  BY <1>14 DEF Overwrite, Calm
<1>15. CASE UNCHANGED vars
  BY <1>15 DEF vars, Calm
<1>16. QED
  BY <1>1, <1>2, <1>3, <1>6, <1>7, <1>8, <1>9, <1>11, <1>12, <1>13, <1>14,
     <1>15
  DEF Next, MainStep, ConsoleStep, ClientStep, Exit, Crash

(***************************************************************************)
(* Until "stop" is typed only the main thread saves, one chunk at a time.  *)
(* A file that does not follow memory holds the fresh chunk of a load, the *)
(* only thing that is saved without being in memory.                       *)
(***************************************************************************)
FollowInv ==
  console = "getline" =>
    /\ \A c \in saved : c \notin Loaded => store[c] = Written(Ground)
    /\ main = "fresh" => pending["main"][2] = Written(Ground)
    /\ main = "save" =>
         /\ pending["main"][1] \in Loaded
         /\ pending["main"][2] = Written(chunks[pending["main"][1]])

Follows(c) ==
  \/ store[c] \in {Written(chunks[c]), Written(Ground)}
  \/ /\ pending["main"] = <<c, Written(chunks[c])>>
     /\ \E x \in Cells : \A y \in Cells \ {x} :
          store[c].blocks[y] = chunks[c][y]

LEMMA InitFollow == Init => FollowInv /\ FilesFollowMemory
  BY DEF Init, FollowInv, FilesFollowMemory

LEMMA NextFollow ==
  ASSUME TInv, PlaceInv, FollowInv, FilesFollowMemory, [Next]_vars
  PROVE  FollowInv' /\ FilesFollowMemory'
<1> USE DEF memVars, clientVars, serverVars, Follows
<1>0. "main" \in Threads /\ "console" \in Threads /\ "main" # "console"
  BY DEF Threads
<1>1. FilesFollowMemory <=>
        (console = "getline" => \A c \in Loaded \cap saved : Follows(c))
  BY DEF FilesFollowMemory
<1>2. FilesFollowMemory' <=>
        (console' = "getline" =>
           \A c \in Loaded' \cap saved' : Follows(c)')
  BY DEF FilesFollowMemory
\* Nothing that matters changes, and the main thread begins no save.
<1>3. ASSUME UNCHANGED <<store, pending, saved, chunks>>,
             console' = "getline" => console = "getline",
             main' \in {"fresh", "save"} => main' = main
      PROVE  FollowInv' /\ FilesFollowMemory'
  <2>1. Loaded' = Loaded
    BY <1>3 DEF Loaded
  <2>2. FollowInv'
    BY <1>3, <2>1 DEF FollowInv
  <2>3. FilesFollowMemory'
    BY <1>1, <1>2, <1>3, <2>1
  <2>4. QED
    BY <2>2, <2>3
<1>4. ASSUME console' # "getline" PROVE FollowInv' /\ FilesFollowMemory'
  BY <1>2, <1>4 DEF FollowInv
\* The main thread's save ends.
<1>5. ASSUME SaveReturns("main"), main \in {"fresh", "save"},
             main' \notin {"fresh", "save"},
             chunks' = chunks, console' = console, console = "getline"
      PROVE  FollowInv' /\ FilesFollowMemory'
  <2> DEFINE d == pending["main"][1]
  <2>1. /\ d \in Chunks
        /\ \A c \in Chunks : c # d =>
             store'[c] = store[c] /\ (c \in saved' <=> c \in saved)
        /\ store'[d] = pending["main"][2] \/ d \notin saved'
        /\ pending["main"] = <<d, pending["main"][2]>>
    <3>1. raced = {}
      BY <1>5 DEF PlaceInv, Calm
    <3>2. QED
      BY <1>0, <1>5, <3>1, ReturnFrees
  <2>2. Loaded' = Loaded /\ Loaded \subseteq Chunks
    BY <1>5 DEF Loaded
  <2>3. saved' \subseteq Chunks
    BY <1>0, <1>5, ReturnKeeps
  <2>4. \/ pending["main"][2] = Written(Ground)
        \/ d \in Loaded /\ pending["main"][2] = Written(chunks[d])
    <3>1. CASE main = "fresh"
      BY <1>5, <3>1 DEF FollowInv
    <3>2. CASE main = "save"
      BY <1>5, <3>2 DEF FollowInv
    <3>3. QED
      BY <1>5, <3>1, <3>2
  <2>5. ASSUME NEW c \in Loaded \cap saved' PROVE Follows(c)'
    <3>1. CASE c = d
      BY <1>5, <2>1, <2>4, <2>5, <3>1 DEF Written
    <3>2. CASE c # d
      <4>1. Follows(c) /\ store'[c] = store[c]
        BY <1>1, <1>5, <2>1, <2>2, <2>5, <3>2
      <4>2. store[c] \in {Written(chunks[c]), Written(Ground)}
        BY <2>1, <3>2, <4>1
      <4>3. QED
        BY <1>5, <4>1, <4>2 DEF Written
    <3>3. QED
      BY <3>1, <3>2
  <2>6. FilesFollowMemory'
    BY <1>2, <2>2, <2>5
  <2>7. ASSUME NEW c \in saved', c \notin Loaded
        PROVE  store'[c] = Written(Ground)
    <3>1. CASE c = d
      BY <2>1, <2>4, <2>7, <3>1
    <3>2. CASE c # d
      BY <1>5, <2>1, <2>3, <2>7, <3>2 DEF FollowInv
    <3>3. QED
      BY <3>1, <3>2
  <2>8. FollowInv'
    BY <1>5, <2>2, <2>7 DEF FollowInv, Written
  <2>9. QED
    BY <2>6, <2>8
<1>6. CASE Start
  <2>1. saved' = {}
    BY <1>6 DEF Start, PlaceInv
  <2>2. FollowInv' /\ FilesFollowMemory'
    BY <1>2, <1>6, <2>1 DEF Start, FollowInv
  <2>3. QED
    BY <2>2
<1>7. CASE Loop \/ AcceptFails \/ Connect \/ AllSent \/ Disconnect \/ Leave
           \/ MainStops \/ Shutdown \/ ConsoleStops
  BY <1>3, <1>7 DEF Loop, AcceptFails, Connect, AllSent, Disconnect, Leave,
     MainStops, Shutdown, ConsoleStops
<1>8. ASSUME NEW c \in Chunks, Move(c) \/ SendStored(c)
      PROVE  FollowInv' /\ FilesFollowMemory'
  BY <1>3, <1>8 DEF Move, SendStored
<1>9. ASSUME NEW c \in Chunks, LoadFresh(c), console = "getline"
      PROVE  FollowInv' /\ FilesFollowMemory'
  <2>1. /\ pending["main"] = Absent /\ store' = store
        /\ pending'["main"] = <<c, Written(Ground)>> /\ saved' = saved
    BY <1>0, <1>9, BeginSets DEF LoadFresh
  <2>2. /\ chunks' = chunks /\ console' = console
        /\ main' = "fresh" /\ Loaded' = Loaded
    BY <1>9 DEF LoadFresh, Loaded
  <2>3. FollowInv'
    BY <1>9, <2>1, <2>2 DEF FollowInv, Written
  <2>4. ASSUME NEW d \in Loaded \cap saved PROVE Follows(d)'
    <3>1. Follows(d) /\ d \in Chunks
      BY <1>1, <1>9 DEF Loaded
    <3>2. pending["main"] # <<d, Written(chunks[d])>>
      <4>1. chunks[d] \in [Cells -> Blocks]
        BY <3>1, GroundBlocks DEF TInv
      <4>2. <<d, Written(chunks[d])>> \in Chunks \X Image
        BY <3>1, <4>1, WrittenImage
      <4>3. QED
        BY <2>1, <4>2, AbsentAssumption
    <3>3. QED
      BY <2>1, <2>2, <3>1, <3>2 DEF Written
  <2>5. QED
    BY <1>2, <2>1, <2>2, <2>3, <2>4
<1>10. CASE SendFresh \/ EditSaved
  BY <1>4, <1>5, <1>10 DEF SendFresh, EditSaved
<1>11. ASSUME NEW c \in Chunks, NEW x \in Cells, NEW b \in Blocks,
              NEW shown, Edit(c, x, b, shown), console = "getline"
       PROVE  FollowInv' /\ FilesFollowMemory'
  <2> DEFINE new == [GetChunk(c) EXCEPT ![x] = b]
  <2>1. BeginSave("main", c, Written(new))
    BY <1>11 DEF Edit
  <2>2. /\ pending["main"] = Absent /\ store' = store /\ saved' = saved
        /\ pending'["main"] = <<c, Written(new)>>
    BY <1>0, <2>1, BeginSets
  <2>3. /\ console' = console /\ main' = "save"
        /\ chunks' = [chunks EXCEPT ![c] = new]
    BY <1>11 DEF Edit
  <2>4. GetChunk(c) \in [Cells -> Blocks] /\ new \in [Cells -> Blocks]
    BY GroundBlocks DEF TInv
  <2>5. /\ chunks'[c] = new
        /\ \A d \in Chunks \ {c} : chunks'[d] = chunks[d]
        /\ Loaded' = Loaded \cup {c}
    BY <2>3, <2>4, BlocksAssumption DEF TInv, TypeOK, Loaded
  <2>6. saved \subseteq Chunks
    BY DEF TInv, TypeOK
  <2>7. \A d \in saved : d \notin Loaded' => store'[d] = Written(Ground)
    BY <1>11, <2>2, <2>5 DEF FollowInv
  <2>8. FollowInv'
    <3>1. /\ pending'["main"][1] \in Loaded'
          /\ pending'["main"][2] = Written(chunks'[pending'["main"][1]])
      BY <2>2, <2>5
    <3>2. Written(chunks[pending["main"][1]])'
            = Written(chunks'[pending'["main"][1]])
          /\ Written(Ground)' = Written(Ground)
      BY DEF Written
    <3>3. QED
      BY <2>2, <2>3, <2>7, <3>1, <3>2 DEF FollowInv
  <2>9. ASSUME NEW d \in Loaded' \cap saved PROVE Follows(d)'
    <3>1. CASE d = c /\ c \in Loaded
      <4>1. Follows(c) /\ chunks[c] = GetChunk(c)
        BY <1>1, <1>11, <2>9, <3>1 DEF Loaded, GetChunk
      <4>2. pending["main"] # <<c, Written(chunks[c])>>
        <5>1. <<c, Written(chunks[c])>> \in Chunks \X Image
          BY <2>4, <4>1, WrittenImage
        <5>2. QED
          BY <2>2, <5>1, AbsentAssumption
      <4>3. CASE store[c] = Written(Ground)
        BY <2>2, <3>1, <4>3 DEF Written
      <4>4. CASE store[c] = Written(chunks[c])
        <5>1. store[c].blocks = GetChunk(c)
          BY <2>4, <4>1, <4>4, WrittenImage
        <5>2. \A y \in Cells \ {x} : store'[c].blocks[y] = chunks'[c][y]
          BY <2>2, <2>4, <2>5, <5>1
        <5>3. pending'["main"] = <<c, Written(chunks'[c])>>
          BY <2>2, <2>5
        <5>4. QED
          BY <3>1, <5>2, <5>3 DEF Written
      <4>5. QED
        BY <4>1, <4>2, <4>3, <4>4
    <3>2. CASE d = c /\ c \notin Loaded
      BY <1>11, <2>2, <2>9, <3>2 DEF FollowInv, Written
    <3>3. CASE d # c
      <4>1. Follows(d) /\ d \in Chunks /\ d \in Loaded
        BY <1>1, <1>11, <2>5, <2>6, <2>9, <3>3
      <4>2. pending["main"] # <<d, Written(chunks[d])>>
        <5>1. chunks[d] \in [Cells -> Blocks]
          BY <4>1, GroundBlocks DEF TInv
        <5>2. <<d, Written(chunks[d])>> \in Chunks \X Image
          BY <4>1, <5>1, WrittenImage
        <5>3. QED
          BY <2>2, <5>2, AbsentAssumption
      <4>3. chunks'[d] = chunks[d]
        BY <2>5, <3>3, <4>1
      <4>4. QED
        BY <2>2, <4>1, <4>2, <4>3 DEF Written
    <3>4. QED
      BY <3>1, <3>2, <3>3
  <2>10. FilesFollowMemory'
    BY <1>2, <2>2, <2>3, <2>9
  <2>11. QED
    BY <2>8, <2>10
<1>12. ASSUME NEW c \in Chunks, NEW x \in Cells, Dig(c, x) \/ Place(c, x)
       PROVE  FollowInv' /\ FilesFollowMemory'
  <2>1. CASE console = "getline"
    BY <1>11, <1>12, <2>1, BlocksAssumption DEF Dig, Place
  <2>2. CASE console # "getline"
    BY <1>4, <1>12, <2>2 DEF Dig, Place, Edit
  <2>3. QED
    BY <2>1, <2>2
<1>13. ASSUME NEW c \in Chunks, LoadFresh(c)
       PROVE  FollowInv' /\ FilesFollowMemory'
  <2>1. CASE console = "getline"
    BY <1>9, <1>13, <2>1
  <2>2. CASE console # "getline"
    BY <1>4, <1>13, <2>2 DEF LoadFresh
  <2>3. QED
    BY <2>1, <2>2
<1>14. ASSUME NEW c \in Chunks, MainSaveNext(c) \/ ConsoleSaveNext(c)
       PROVE  FollowInv' /\ FilesFollowMemory'
  BY <1>4, <1>14 DEF MainSaveNext, ConsoleSaveNext, SaveNext, PlaceInv
<1>15. CASE MainSaved \/ ConsoleSaved \/ StopTyped \/ ProcessEnds
  BY <1>4, <1>15
  DEF MainSaved, ConsoleSaved, StopTyped, ProcessEnds, PlaceInv
<1>16. ASSUME NEW t \in Threads, Overwrite(t)
       PROVE  FollowInv' /\ FilesFollowMemory'
  <2>1. console # "getline"
    BY <1>16 DEF Overwrite, PlaceInv, Calm
  <2>2. QED
    BY <1>4, <1>16, <2>1 DEF Overwrite
<1>17. CASE UNCHANGED vars
  BY <1>3, <1>17 DEF vars
<1>18. QED
  BY <1>6, <1>7, <1>8, <1>10, <1>12, <1>13, <1>14, <1>15, <1>16, <1>17
  DEF Next, MainStep, ConsoleStep, ClientStep, Exit, Crash

\* Until the server is told to stop, every edit is in its file, or about to
\* be, or was overwritten by a load, unless its write failed.
THEOREM FilesFollow == Spec => []FilesFollowMemory
<1> DEFINE Inv == TInv /\ PlaceInv /\ FollowInv /\ FilesFollowMemory
<1>1. Init => Inv
  BY InitTInv, InitPlaceInv, InitFollow
<1>2. Inv /\ [Next]_vars => Inv'
  BY NextTInv, NextPlaceInv, NextFollow
<1>3. QED
  BY <1>1, <1>2, PTL DEF Spec

(***************************************************************************)
(* A quiet stop.  From the moment "stop" is typed memory does not change   *)
(* and all that is saved is memory, so a chunk that is right in its file   *)
(* stays right.  The main thread waits in accept while the console saves,  *)
(* so no save meets another.                                               *)
(***************************************************************************)
Right(c) == c \in saved \/ ~CanFail => store[c] = Written(chunks[c])

\* Thread t has saved c, is saving it, or will.
Covered(t, c) ==
  \/ c \in todo[t]
  \/ pending[t] = <<c, Written(chunks[c])>>
  \/ Right(c)

\* What thread t is saving is what memory holds.
SavesMemory(t) ==
  pending[t] # Absent => pending[t][2] = Written(chunks[pending[t][1]])

QuietInv ==
  quiet = TRUE =>
    /\ running = FALSE /\ console # "getline" /\ Calm
    /\ main \in {"loop", "accept", "leave", "saveAll", "exit"}
    /\ console = "saveAll" => main = "accept" /\ socket = "open"
    /\ \A t \in Threads : SavesMemory(t)
    /\ console = "saveAll" => \A c \in Loaded : Covered("console", c)
    /\ console \in {"shut", "done"} => \A c \in Loaded : Right(c)
    /\ main = "saveAll" => \A c \in Loaded : Covered("main", c)
    /\ main = "exit" => \A c \in Loaded : Right(c)

LEMMA InitQuiet == Init => QuietInv
  BY DEF Init, QuietInv

\* A save that ends in a quiet stop leaves right what was right, and what was
\* being saved is right as well.
LEMMA QuietReturn ==
  ASSUME TInv, NEW t \in Threads, SaveReturns(t), chunks' = chunks,
         todo' = todo, Calm,
         \A u \in Threads : SavesMemory(u)
  PROVE  /\ \A u \in Threads : SavesMemory(u)'
         /\ \A c \in Chunks : Right(c) => Right(c)'
         /\ \A c \in Chunks, u \in Threads : Covered(u, c) => Covered(u, c)'
<1>0. PICK d \in Chunks : d = pending[t][1]
  BY ReturnFrees
<1>1. /\ pending'[t] = Absent
      /\ \A u \in Threads \ {t} : pending'[u] = pending[u]
      /\ pending[t] # Absent /\ pending[t] \in Chunks \X Image
      /\ \A c \in Chunks : c # d =>
           store'[c] = store[c] /\ (c \in saved' <=> c \in saved)
      /\ store'[d] = pending[t][2] \/ (CanFail /\ d \notin saved')
  BY <1>0, ReturnFrees DEF Calm
<1>2. pending[t][2] = Written(chunks[d])
  BY <1>0, <1>1 DEF SavesMemory
<1>3. ASSUME NEW c \in Chunks PROVE Written(chunks[c])' = Written(chunks[c])
  BY DEF Written
<1>4. ASSUME NEW u \in Threads PROVE SavesMemory(u)'
  BY <1>1 DEF SavesMemory, Written
<1>5. Right(d)'
  BY <1>1, <1>2, <1>3 DEF Right
<1>6. ASSUME NEW c \in Chunks, Right(c) PROVE Right(c)'
  <2>1. CASE c = d
    BY <1>5, <2>1
  <2>2. CASE c # d
    BY <1>1, <1>3, <1>6, <2>2 DEF Right
  <2>3. QED
    BY <2>1, <2>2
<1>7. ASSUME NEW c \in Chunks, NEW u \in Threads, Covered(u, c)
      PROVE  Covered(u, c)'
  <2>1. CASE Right(c)
    BY <1>6, <2>1 DEF Covered
  <2>2. CASE c \in todo[u]
    BY <2>2 DEF Covered
  <2>3. CASE pending[u] = <<c, Written(chunks[c])>> /\ u = t
    <3>1. c = d
      BY <1>0, <2>3
    <3>2. QED
      BY <1>5, <3>1 DEF Covered
  <2>4. CASE pending[u] = <<c, Written(chunks[c])>> /\ u # t
    BY <1>1, <1>3, <2>4 DEF Covered
  <2>5. QED
    BY <1>7, <2>1, <2>2, <2>3, <2>4 DEF Covered
<1>8. QED
  BY <1>4, <1>6, <1>7

\* A save of what memory holds that begins in a quiet stop.
LEMMA QuietBegin ==
  ASSUME TInv, NEW t \in Threads, NEW c \in Chunks, SaveNext(t, c),
         \A u \in Threads : SavesMemory(u)
  PROVE  /\ \A u \in Threads : SavesMemory(u)'
         /\ \A d \in Chunks : Right(d) => Right(d)'
         /\ \A d \in Loaded, u \in Threads : Covered(u, d) => Covered(u, d)'
<1>1. /\ pending[t] = Absent /\ pending'[t] = <<c, Written(chunks[c])>>
      /\ \A u \in Threads \ {t} : pending'[u] = pending[u]
      /\ store' = store /\ saved' = saved /\ chunks' = chunks
  BY BeginSets DEF SaveNext, memVars
<1>2. /\ \A u \in Threads \ {t} : todo'[u] = todo[u]
      /\ todo'[t] = todo[t] \ {c}
  BY DEF SaveNext, TInv, TypeOK
<1>3. ASSUME NEW d \in Chunks PROVE Written(chunks[d])' = Written(chunks[d])
  BY <1>1 DEF Written
<1>4. ASSUME NEW u \in Threads PROVE SavesMemory(u)'
  BY <1>1 DEF SavesMemory, Written
<1>5. ASSUME NEW d \in Chunks PROVE Right(d)' <=> Right(d)
  BY <1>1, <1>3 DEF Right
<1>6. ASSUME NEW d \in Loaded, NEW u \in Threads, Covered(u, d)
      PROVE  Covered(u, d)'
  <2>0. d \in Chunks /\ chunks[d] \in [Cells -> Blocks]
    BY GroundBlocks DEF TInv, Loaded
  <2>1. CASE Right(d)
    BY <1>5, <2>0, <2>1 DEF Covered
  <2>2. CASE u # t
    BY <1>1, <1>2, <1>3, <1>5, <1>6, <2>0, <2>2 DEF Covered
  <2>3. CASE d = c /\ u = t
    BY <1>1, <1>3, <2>0, <2>3 DEF Covered
  <2>4. CASE d # c /\ u = t /\ d \in todo[t]
    BY <1>2, <2>4 DEF Covered
  <2>5. CASE d # c /\ u = t /\ pending[t] = <<d, Written(chunks[d])>>
    <3>1. <<d, Written(chunks[d])>> \in Chunks \X Image
      BY <2>0, WrittenImage
    <3>2. QED
      BY <1>1, <2>5, <3>1, AbsentAssumption
  <2>6. QED
    BY <1>6, <2>1, <2>2, <2>3, <2>4, <2>5 DEF Covered
<1>7. QED
  BY <1>4, <1>5, <1>6

LEMMA NextQuiet ==
  ASSUME TInv, PlaceInv, QuietInv, [Next]_vars
  PROVE  QuietInv'
<1> USE DEF memVars, clientVars, serverVars
<1> SUFFICES ASSUME quiet' = TRUE PROVE QuietInv'
  BY DEF QuietInv
<1>0. /\ "main" \in Threads /\ "console" \in Threads
      /\ Loaded \subseteq Chunks
      /\ Other("main") = "console" /\ Other("console") = "main"
  BY DEF Threads, Loaded, Other
\* Memory and files stay, and the threads move on.
<1>1. ASSUME UNCHANGED <<fileVars, chunks>>
      PROVE  /\ Loaded' = Loaded /\ (Calm => Calm')
             /\ \A t \in Threads : SavesMemory(t)' <=> SavesMemory(t)
             /\ \A c \in Chunks : Right(c)' <=> Right(c)
             /\ \A c \in Chunks, t \in Threads :
                  todo'[t] = todo[t] => (Covered(t, c)' <=> Covered(t, c))
             /\ \A c \in Chunks, t \in Threads : c \in todo'[t] => Covered(t, c)'
  BY <1>1 DEF Loaded, SavesMemory, Right, Covered, Written, Calm
<1>2. \A t \in Threads : AllSaved(t) =>
        \A c \in Chunks : c \in Loaded /\ Covered(t, c) => Right(c)
  <2> SUFFICES ASSUME NEW t \in Threads, AllSaved(t),
                      NEW c \in Chunks, c \in Loaded, Covered(t, c)
               PROVE  Right(c)
    OBVIOUS
  <2>1. Absent # <<c, Written(chunks[c])>>
    BY GroundBlocks, WrittenImage, AbsentAssumption DEF TInv
  <2>2. QED
    BY <2>1 DEF AllSaved, Covered
<1>3. CASE Loop \/ AcceptFails \/ MainStops \/ Shutdown \/ ConsoleStops
           \/ UNCHANGED vars
  <2>1. /\ UNCHANGED <<fileVars, chunks, todo>> /\ running' = running
    BY <1>3 DEF Loop, AcceptFails, MainStops, Shutdown, ConsoleStops, vars
  <2>2. /\ quiet = TRUE
        /\ main = "accept" /\ main' # main => socket # "open"
        /\ main' # main /\ main # "accept" => socket' = socket \/ main' = "exit"
    <3>1. CASE AcceptFails
      BY <3>1, Zenon DEF AcceptFails
    <3>2. CASE Loop \/ MainStops \/ Shutdown \/ ConsoleStops \/ UNCHANGED vars
      BY <3>2 DEF Loop, MainStops, Shutdown, ConsoleStops, vars
    <3>3. QED
      BY <1>3, <3>1, <3>2
  <2>3. /\ console' # console =>
             \/ console = "saveAll" /\ console' = "shut" /\ AllSaved("console")
             \/ console = "shut" /\ console' = "done"
        /\ main' # main =>
             \/ main' \in {"loop", "leave"} \/ running = TRUE
             \/ main = "saveAll" /\ main' = "exit" /\ AllSaved("main")
    BY <1>3, Zenon DEF Loop, AcceptFails, MainStops, Shutdown, ConsoleStops, vars
  <2>4. console' = "saveAll" => main' = "accept" /\ socket' = "open"
    <3>1. CASE console = "saveAll" /\ console' = "saveAll"
      <4>1. main = "accept" /\ socket = "open"
        BY <2>2, <3>1 DEF QuietInv
      <4>2. main' = main
        BY <2>2, <4>1
      <4>3. socket' = socket
        BY <1>3, <3>1, <4>1
        DEF Loop, AcceptFails, MainStops, Shutdown, ConsoleStops, vars
      <4>4. QED
        BY <4>1, <4>2, <4>3
    <3>2. QED
      BY <2>3, <3>1
  <2>5. QED
    BY <1>0, <1>1, <1>2, <2>1, <2>2, <2>3, <2>4 DEF QuietInv
<1>4. CASE Leave
  <2>1. /\ UNCHANGED <<fileVars, chunks, console>>
        /\ quiet = TRUE /\ running' = running /\ main = "leave"
        /\ todo'["console"] = todo["console"]
    BY <1>4 DEF Leave, TInv, TypeOK, Threads
  <2>2. console # "saveAll"
    BY <2>1 DEF QuietInv
  <2>3. CASE socket = "none"
    BY <1>0, <1>1, <1>4, <2>1, <2>2, <2>3 DEF Leave, QuietInv, PlaceInv
  <2>4. CASE socket # "none"
    <3>1. main' = "saveAll" /\ todo'["main"] = Loaded
      BY <1>0, <1>4, <2>4 DEF Leave, TInv, TypeOK
    <3>2. QED
      BY <1>0, <1>1, <2>1, <2>2, <3>1 DEF QuietInv
  <2>5. QED
    BY <2>3, <2>4
<1>5. CASE StopTyped
  <2>1. /\ UNCHANGED <<fileVars, chunks, main, socket>>
        /\ running' = FALSE /\ main = "accept"
        /\ console = "getline" /\ console' = "saveAll"
        /\ todo'["console"] = Loaded
    BY <1>0, <1>5 DEF StopTyped, TInv, TypeOK
  <2>2. \A t \in Threads : pending[t] = Absent
    BY <2>1 DEF PlaceInv, Threads
  <2>3. \A t \in Threads : SavesMemory(t)
    BY <2>2 DEF SavesMemory
  <2>4. Calm /\ socket' = "open"
    BY <2>1 DEF PlaceInv
  <2>5. QED
    BY <1>0, <1>1, <2>1, <2>3, <2>4 DEF QuietInv
<1>6. CASE MainSaved \/ ConsoleSaved
  <2>1. /\ UNCHANGED <<chunks, todo, main, console, running, socket>>
        /\ quiet = TRUE
    BY <1>6 DEF MainSaved, ConsoleSaved
  <2>2. PICK t \in Threads : SaveReturns(t) /\ pending[Other(t)] = Absent
    <3>1. CASE MainSaved
      <4>1. main = "saveAll" /\ SaveReturns("main")
        BY <3>1 DEF MainSaved
      <4>2. pending["console"] = Absent
        BY <2>1, <4>1 DEF QuietInv, PlaceInv
      <4>3. QED
        BY <1>0, <4>1, <4>2
    <3>2. CASE ConsoleSaved
      <4>1. console = "saveAll" /\ SaveReturns("console")
        BY <3>2 DEF ConsoleSaved
      <4>2. pending["main"] = Absent
        BY <2>1, <4>1 DEF QuietInv, PlaceInv
      <4>3. QED
        BY <1>0, <4>1, <4>2
    <3>3. QED
      BY <1>6, <3>1, <3>2
  <2>3. /\ \A u \in Threads : SavesMemory(u)'
        /\ \A c \in Chunks : Right(c) => Right(c)'
        /\ \A c \in Chunks, u \in Threads : Covered(u, c) => Covered(u, c)'
    BY <2>1, <2>2, QuietReturn DEF QuietInv
  <2>4. Calm'
    BY <2>1, <2>2, ReturnCalm DEF QuietInv
  <2>5. Loaded' = Loaded
    BY <2>1 DEF Loaded
  <2>6. QED
    BY <1>0, <2>1, <2>3, <2>4, <2>5 DEF QuietInv
<1>7. ASSUME NEW c \in Chunks, MainSaveNext(c) \/ ConsoleSaveNext(c)
      PROVE  QuietInv'
  <2>1. /\ UNCHANGED <<chunks, main, console, running, socket>>
        /\ quiet = TRUE
    BY <1>7 DEF MainSaveNext, ConsoleSaveNext, SaveNext
  <2>2. PICK t \in Threads : SaveNext(t, c) /\ pending[Other(t)] = Absent
    <3>1. CASE MainSaveNext(c)
      <4>1. main = "saveAll" /\ SaveNext("main", c)
        BY <3>1 DEF MainSaveNext
      <4>2. pending["console"] = Absent
        BY <2>1, <4>1 DEF QuietInv, PlaceInv
      <4>3. QED
        BY <1>0, <4>1, <4>2
    <3>2. CASE ConsoleSaveNext(c)
      <4>1. console = "saveAll" /\ SaveNext("console", c)
        BY <3>2 DEF ConsoleSaveNext
      <4>2. pending["main"] = Absent
        BY <2>1, <4>1 DEF QuietInv, PlaceInv
      <4>3. QED
        BY <1>0, <4>1, <4>2
    <3>3. QED
      BY <1>7, <3>1, <3>2
  <2>3. /\ \A u \in Threads : SavesMemory(u)'
        /\ \A d \in Chunks : Right(d) => Right(d)'
        /\ \A d \in Loaded, u \in Threads : Covered(u, d) => Covered(u, d)'
    BY <2>1, <2>2, QuietBegin DEF QuietInv
  <2>4. Calm'
    BY <2>1, <2>2, BeginCalm DEF QuietInv, SaveNext
  <2>5. Loaded' = Loaded
    BY <2>1 DEF Loaded
  <2>6. QED
    BY <1>0, <2>1, <2>3, <2>4, <2>5 DEF QuietInv
\* No other step is taken in a quiet stop.
<1>8. CASE Start \/ Connect \/ AllSent \/ Disconnect \/ SendFresh \/ EditSaved
           \/ ProcessEnds
  BY <1>8 DEF Start, Connect, AllSent, Disconnect, SendFresh, EditSaved,
     ProcessEnds, QuietInv
<1>9. ASSUME NEW c \in Chunks, Move(c) \/ SendStored(c) \/ LoadFresh(c)
      PROVE  QuietInv'
  BY <1>9 DEF Move, SendStored, LoadFresh, QuietInv
<1>10. ASSUME NEW c \in Chunks, NEW x \in Cells, Dig(c, x) \/ Place(c, x)
       PROVE  QuietInv'
  BY <1>10 DEF Dig, Place, Edit, QuietInv
<1>11. ASSUME NEW t \in Threads, Overwrite(t) PROVE QuietInv'
  BY <1>11 DEF Overwrite, QuietInv, Calm
<1>12. QED
  BY <1>3, <1>4, <1>5, <1>6, <1>7, <1>8, <1>9, <1>10, <1>11
  DEF Next, MainStep, ConsoleStep, ClientStep, Exit, Crash

\* A stop that is typed during an accept, and left undisturbed by clients and
\* failing accepts, leaves every chunk of memory in its file.
THEOREM QuietStop == Spec => []QuietStopSavesAll
<1> DEFINE Inv == TInv /\ PlaceInv /\ QuietInv
<1>1. Init => Inv
  BY InitTInv, InitPlaceInv, InitQuiet
<1>2. Inv /\ [Next]_vars => Inv'
  BY NextTInv, NextPlaceInv, NextQuiet
<1>3. Inv => QuietStopSavesAll
  BY DEF QuietInv, QuietStopSavesAll, Right, TInv, TypeOK
<1>4. QED
  BY <1>1, <1>2, <1>3, PTL DEF Spec
=============================================================================
