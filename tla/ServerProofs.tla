---------------------------- MODULE ServerProofs ----------------------------
(***************************************************************************)
(* Proofs about Server, for every set of chunks and any number of          *)
(* descriptors.  Number 3, the first to be given out, decides: it is the   *)
(* listening socket's until a thread has gone through its part of stop().  *)
(***************************************************************************)
EXTENDS Server, TLAPS

Accepting == {"loop", "call", "accept", "serve", "release", "destroy", "leave"}

\* stop() up to its close, which is when a thread may hold the socket's number.
Closing == {"stop", "saveAll", "shutdown", "close"}

\* Where the threads can be at the same time.
Places ==
  /\ pc["main"] \in {"down", "start"} => pc["console"] = "none"
  /\ pc["main"] \in Accepting => pc["console"] # "none"
  /\ running <=> pc["console"] = "getline"
  /\ pc["main"] \in {"leave", "exit"} \cup StopSteps => pc["console"] # "getline"

\* The first number that is given out is the listening socket's, and it stays
\* so until one of the threads has gone through its part of stop().
Listener ==
  /\ socketFd \in {None, 3} /\ clientFd # 3
  /\ \A n \in Fds :
       table[n] = "listener" =>
         /\ n = socketFd
         /\ pc["main"] \notin {"forget", "exit"}
         /\ pc["console"] \notin {"forget", "done"}
  /\ pc["main"] = "down" => \A n \in Fds : table[n] = "free"
  /\ pc["main"] \in {"start"} \cup Accepting
     /\ pc["console"] \notin {"forget", "done"}
     => socketFd = 3 /\ table[3] = "listener"
  /\ pc["main"] \in Accepting /\ pc["console"] \in {"close", "forget", "done"}
     => shut
  /\ socketFd = None /\ pc["main"] \in StopSteps
     => pc["console"] \in {"none", "done"}
  /\ socketFd = None /\ pc["console"] \in StopSteps => pc["main"] = "exit"

\* The number of the client that is served is his.
Clients ==
  /\ \A n \in Fds :
       table[n] = "client" => n = clientFd /\ pc["main"] \in {"serve", "release"}
  /\ pc["main"] \in {"serve", "release"} =>
       clientFd \in Fds /\ table[clientFd] = "client"
  /\ pc["main"] = "destroy" => clientFd \in Fds

\* A number that stands for a file is in the stream of the thread that has it.
Files ==
  /\ \A t \in Threads : \A n \in Fds : table[n] = t => fileFd[t] = n
  /\ fileFd["main"] # None => pc["main"] \in {"serve", "saveAll"}
  /\ fileFd["console"] # None => pc["console"] = "saveAll"

\* The number in a thread's stream has been closed by the other thread.
Lost(t) == fileFd[t] # None /\ table[fileFd[t]] # t

\* When that happens, and what the threads can do to the number then.
Losses ==
  /\ Lost("main") => pc["console"] \in {"forget", "done"}
  /\ Lost("console") =>
       /\ pc["main"] \in {"loop", "leave", "forget", "exit"} \cup Closing
       /\ hit \/ pc["main"] \in {"forget", "exit"}
       /\ pc["main"] \in {"loop", "leave"} \cup Closing => fileFd["console"] # 3
       /\ pc["main"] \in Closing => table[3] = "free" \/ fileFd["main"] = 3

\* What each thread has saved on its way through stop().
Saves ==
  ~hit /\ Stopped =>
    \A t \in Threads :
      /\ pc[t] = "saveAll" => Chunks \ todo[t] \subseteq whole
      /\ pc[t] \in {"shutdown", "close", "forget", "exit", "done"} =>
           whole = Chunks

FdInv == Places /\ Listener /\ Clients /\ Files /\ ServedFilesKept
           /\ NumbersNotShared /\ Losses
IInv == TypeOK /\ FdInv /\ Saves

-----------------------------------------------------------------------------
(* The invariant.                                                          *)

LEMMA Constants ==
  3 \in Fds /\ None \notin Fds /\ \A n \in Fds : n \in Int /\ 3 <= n
  BY ServerAssumption DEF Fds, None

LEMMA Initially == Init => IInv
<1> SUFFICES ASSUME Init PROVE IInv
  OBVIOUS
<1> USE DEF Init
<1>1. TypeOK
  BY DEF TypeOK, Threads, MainSteps, ConsoleSteps, Owners
<1>2. FdInv
  BY Constants
     DEF FdInv, Places, Listener, Clients, Files, ServedFilesKept,
         NumbersNotShared, Losses, Lost, Accepting, StopSteps, Threads
<1>3. Saves
  BY DEF Saves, Stopped, Threads
<1> QED
  BY <1>1, <1>2, <1>3 DEF IInv

\* A thread enters stop(), or finds that the other one has finished it.
LEMMA EnterStopKeeps ==
  ASSUME IInv, NEW t \in Threads, EnterStop(t)
  PROVE  IInv'
<1> USE DEF IInv, FdInv, EnterStop, Goto
<1>1. TypeOK'
  BY DEF stopVars, TypeOK, Threads, MainSteps, ConsoleSteps, StopSteps
<1>2. Places'
  BY DEF TypeOK, Places, Accepting, StopSteps, Threads
<1>3. Listener'
  <2>1. CASE t = "main"
    BY Constants, <2>1
       DEF TypeOK, Places, Listener, Accepting, StopSteps, Threads
  <2>2. CASE t = "console"
    BY Constants, <2>2
       DEF TypeOK, Places, Listener, Accepting, StopSteps, Threads
  <2> QED
    BY <2>1, <2>2 DEF Threads
<1>4. Clients'
  BY DEF TypeOK, Clients, Threads
<1>5. Files'
  BY DEF TypeOK, Files, Threads
<1>6. ServedFilesKept'
  BY DEF TypeOK, ServedFilesKept, Threads
<1>7. NumbersNotShared'
  BY DEF NumbersNotShared
<1>8. Losses'
  BY DEF stopVars, TypeOK, Losses, Lost, Closing, Threads
<1>9. Saves'
  BY DEF stopVars, TypeOK, Listener, Saves, Stopped, StopSteps, Threads
<1> QED
  BY <1>1, <1>2, <1>3, <1>4, <1>5, <1>6, <1>7, <1>8, <1>9

\* A thread opens a file in stop().  The main thread is not given the number
\* that the console has lost, for 3 is free and lower.
LEMMA SaveChunkKeeps ==
  ASSUME IInv, NEW t \in Threads, NEW c \in Chunks, SaveChunk(t, c)
  PROVE  IInv'
<1> USE DEF IInv, FdInv, SaveChunk, OpenFile, Opens, Free
<1>1. TypeOK'
  BY DEF stopVars, TypeOK, Owners
<1>2. Places'
  BY DEF Places
<1>3. Listener'
  BY DEF Places, Listener, Threads
<1>4. Clients'
  BY DEF Clients, Threads
<1>5. Files'
  BY Constants DEF TypeOK, Files
<1>6. ServedFilesKept'
  BY DEF ServedFilesKept
<1>7. NumbersNotShared'
  BY Constants DEF NumbersNotShared, Losses, Lost, Threads
<1>8. Losses'
  BY Constants DEF stopVars, TypeOK, Losses, Lost, Threads
<1>9. Saves'
  BY DEF stopVars, Saves, Stopped
<1> QED
  BY <1>1, <1>2, <1>3, <1>4, <1>5, <1>6, <1>7, <1>8, <1>9

\* A write through a number that is lost: then all chunks are saved, or there
\* was a hit.
LEMMA WriteFileKeeps ==
  ASSUME IInv, NEW t \in Threads, WriteFile(t)
  PROVE  IInv'
<1> USE DEF IInv, FdInv, WriteFile
<1>1. TypeOK'
  BY DEF TypeOK
<1>2. FdInv'
  BY DEF Places, Listener, Clients, Files, ServedFilesKept, NumbersNotShared,
         Losses, Lost
<1>3. Saves'
  BY DEF TypeOK, Losses, Saves, Lost, Stopped, Threads
<1> QED
  BY <1>1, <1>2, <1>3

\* A stream closes its number, which is its own or stands for nothing.
LEMMA CloseFileKeeps ==
  ASSUME IInv, NEW t \in Threads, CloseFile(t)
  PROVE  IInv'
<1> USE DEF IInv, FdInv, CloseFile, Closes
<1>1. TypeOK'
  BY DEF stopVars, TypeOK, Owners
<1>2. Places'
  BY DEF Places
<1>3. Listener'
  BY DEF Listener, NumbersNotShared, Threads
<1>4. Clients'
  BY DEF Clients, NumbersNotShared, Threads
<1>5. Files'
  BY DEF TypeOK, Files, Threads
<1>6. ServedFilesKept'
  BY DEF TypeOK, ServedFilesKept, NumbersNotShared
<1>7. NumbersNotShared'
  BY DEF NumbersNotShared
<1>8. Losses'
  BY DEF stopVars, TypeOK, NumbersNotShared, Losses, Lost
<1>9. Saves'
  BY DEF stopVars, Saves, Stopped
<1> QED
  BY <1>1, <1>2, <1>3, <1>4, <1>5, <1>6, <1>7, <1>8, <1>9

\* Its files are done.
LEMMA AllSavedKeeps ==
  ASSUME IInv, NEW t \in Threads, AllSaved(t)
  PROVE  IInv'
<1> USE DEF IInv, FdInv, AllSaved, Goto
<1>1. TypeOK'
  BY DEF fileVars, stopVars, TypeOK, MainSteps, ConsoleSteps, StopSteps
<1>2. FdInv'
  BY DEF fileVars, stopVars, Places, Listener, Clients, Files,
         ServedFilesKept, NumbersNotShared, Losses, Lost, Accepting, Closing,
         StopSteps
<1>3. Saves'
  BY DEF stopVars, TypeOK, Saves, Stopped, Threads
<1> QED
  BY <1>1, <1>2, <1>3

\* The other thread's accept is woken, if there is one.
LEMMA ShutdownKeeps ==
  ASSUME IInv, NEW t \in Threads, Shutdown(t)
  PROVE  IInv'
<1> USE DEF IInv, FdInv, Shutdown, Goto, Listens
<1>1. TypeOK'
  BY DEF fileVars, stopVars, TypeOK, MainSteps, ConsoleSteps, StopSteps
<1>2. Places'
  BY DEF Places, Accepting, StopSteps
<1>3. Listener'
  <2>1. CASE t = "main"
    BY Constants, <2>1
       DEF TypeOK, Places, Listener, Accepting, StopSteps, Threads, fileVars,
           stopVars, Listens
  <2>2. CASE t = "console"
    BY Constants, <2>2
       DEF TypeOK, Places, Listener, Accepting, StopSteps, Threads, fileVars,
           stopVars, Listens
  <2> QED
    BY <2>1, <2>2 DEF Threads
<1>4. Clients'
  BY DEF Clients
<1>5. Files'
  BY DEF fileVars, Files
<1>6. ServedFilesKept'
  BY DEF fileVars, ServedFilesKept
<1>7. NumbersNotShared'
  BY DEF fileVars, NumbersNotShared
<1>8. Losses'
  BY DEF fileVars, stopVars, Losses, Lost, Closing
<1>9. Saves'
  BY DEF stopVars, Saves, Stopped
<1> QED
  BY <1>1, <1>2, <1>3, <1>4, <1>5, <1>6, <1>7, <1>8, <1>9

\* Number 3 is closed, whoever has it.  The other thread may lose its file,
\* and this one opens no more.
LEMMA CloseSocketKeeps ==
  ASSUME IInv, NEW t \in Threads, CloseSocket(t)
  PROVE  IInv'
<1> USE DEF IInv, FdInv, CloseSocket, Goto, Closes
<1>1. TypeOK'
  BY DEF fileVars, stopVars, TypeOK, MainSteps, ConsoleSteps, StopSteps,
         Owners
<1>2. Places'
  BY DEF Places, Accepting, StopSteps
<1>3. Listener'
  <2>1. CASE t = "main"
    BY Constants, <2>1
       DEF TypeOK, Places, Listener, Accepting, StopSteps, Threads, fileVars,
           stopVars, Closes
  <2>2. CASE t = "console"
    BY Constants, <2>2
       DEF TypeOK, Places, Listener, Accepting, StopSteps, Threads, fileVars,
           stopVars, Closes
  <2> QED
    BY <2>1, <2>2 DEF Threads
<1>4. Clients'
  BY Constants DEF Listener, Clients
<1>5. Files'
  BY DEF fileVars, Files, Threads
<1>6. ServedFilesKept'
  BY DEF fileVars, Listener, ServedFilesKept, Accepting, Threads
<1>7. NumbersNotShared'
  BY DEF fileVars, NumbersNotShared
<1>8. Losses'
  BY DEF fileVars, TypeOK, Files, Losses, Lost, Closing, Threads
<1>9. Saves'
  BY DEF stopVars, Saves, Stopped
<1> QED
  BY <1>1, <1>2, <1>3, <1>4, <1>5, <1>6, <1>7, <1>8, <1>9

\* It returns.
LEMMA ForgetKeeps ==
  ASSUME IInv, NEW t \in Threads, Forget(t)
  PROVE  IInv'
<1> USE DEF IInv, FdInv, Forget, Goto
<1>1. TypeOK'
  BY DEF fileVars, stopVars, TypeOK, MainSteps, ConsoleSteps
<1>2. FdInv'
  BY DEF fileVars, TypeOK, Places, Listener, Clients, Files, ServedFilesKept,
         NumbersNotShared, Losses, Lost, Accepting, Closing, StopSteps,
         Threads
<1>3. Saves'
  BY DEF stopVars, Saves, Stopped
<1> QED
  BY <1>1, <1>2, <1>3

\* All numbers are free, and 3 is the lowest.
LEMMA StartKeeps ==
  ASSUME IInv, Start
  PROVE  IInv'
<1> USE DEF IInv, FdInv, Start, Goto, Opens, Free
<1>1. TypeOK'
  BY DEF fileVars, stopVars, TypeOK, Threads, MainSteps, ConsoleSteps,
         StopSteps, Owners
<1>2. Places'
  BY DEF TypeOK, Places, Accepting, Threads
<1>3. Listener'
  BY Constants DEF TypeOK, Places, Listener, Accepting, Threads
<1>4. Clients'
  BY DEF TypeOK, Clients
<1>5. Files'
  BY DEF fileVars, TypeOK, Files, Threads
<1>6. ServedFilesKept'
  BY DEF TypeOK, ServedFilesKept
<1>7. NumbersNotShared'
  BY DEF fileVars, Places, Files, NumbersNotShared, Threads
<1>8. Losses'
  BY DEF fileVars, TypeOK, Losses, Lost, Closing, Threads
<1>9. Saves'
  BY DEF TypeOK, Places, Saves, Threads
<1> QED
  BY <1>1, <1>2, <1>3, <1>4, <1>5, <1>6, <1>7, <1>8, <1>9

\* The console starts.
LEMMA ListenKeeps ==
  ASSUME IInv, Listen
  PROVE  IInv'
<1> USE DEF IInv, FdInv, Listen
<1>1. TypeOK'
  BY DEF fileVars, stopVars, TypeOK, Threads, MainSteps, ConsoleSteps
<1>2. FdInv'
  BY DEF fileVars, Places, Listener, Clients, Files, ServedFilesKept,
         NumbersNotShared, Losses, Lost, StopSteps, Threads
<1>3. Saves'
  BY DEF Saves
<1> QED
  BY <1>1, <1>2, <1>3

\* The main thread goes to stop() alone.
LEMMA ListenFailsKeeps ==
  ASSUME IInv, ListenFails
  PROVE  IInv'
<1> USE DEF IInv, FdInv, ListenFails, Goto
<1>1. TypeOK'
  BY DEF fileVars, stopVars, TypeOK, Threads, ConsoleSteps, StopSteps
<1>2. FdInv'
  BY DEF fileVars, Places, Listener, Clients, Files, ServedFilesKept,
         NumbersNotShared, Losses, Lost, Accepting
<1>3. Saves'
  BY DEF Places, Saves, Threads
<1> QED
  BY <1>1, <1>2, <1>3

\* After "stop" the loop can only be left.
LEMMA LoopKeeps ==
  ASSUME IInv, Loop
  PROVE  IInv'
<1> USE DEF IInv, FdInv, Loop, Goto
<1>1. TypeOK'
  BY DEF fileVars, stopVars, TypeOK, Threads, MainSteps, ConsoleSteps
<1>2. FdInv'
  BY DEF fileVars, stopVars, Places, Listener, Clients, Files,
         ServedFilesKept, NumbersNotShared, Losses, Lost, Accepting, Closing,
         StopSteps
<1>3. Saves'
  BY DEF fileVars, stopVars, Saves, Stopped
<1> QED
  BY <1>1, <1>2, <1>3

LEMMA CallAcceptKeeps ==
  ASSUME IInv, CallAccept
  PROVE  IInv'
<1> USE DEF IInv, FdInv, CallAccept, Goto, Listens
<1>1. TypeOK'
  BY DEF fileVars, stopVars, TypeOK, Threads, MainSteps, ConsoleSteps
<1>2. FdInv'
  BY DEF fileVars, Places, Listener, Clients, Files, ServedFilesKept,
         NumbersNotShared, Losses, Lost, Accepting, StopSteps
<1>3. Saves'
  BY DEF fileVars, stopVars, Saves, Stopped
<1> QED
  BY <1>1, <1>2, <1>3

LEMMA AcceptWokenKeeps ==
  ASSUME IInv, AcceptWoken
  PROVE  IInv'
<1> USE DEF IInv, FdInv, AcceptWoken, Goto
<1>1. TypeOK'
  BY DEF fileVars, stopVars, TypeOK, Threads, MainSteps, ConsoleSteps
<1>2. FdInv'
  BY DEF fileVars, Places, Listener, Clients, Files, ServedFilesKept,
         NumbersNotShared, Losses, Lost, Accepting, StopSteps
<1>3. Saves'
  BY DEF fileVars, stopVars, Saves, Stopped
<1> QED
  BY <1>1, <1>2, <1>3

LEMMA AcceptFailsKeeps ==
  ASSUME IInv, AcceptFails
  PROVE  IInv'
<1> USE DEF IInv, FdInv, AcceptFails, Goto
<1>1. TypeOK'
  BY DEF fileVars, stopVars, TypeOK, Threads, MainSteps, ConsoleSteps
<1>2. FdInv'
  BY DEF fileVars, Places, Listener, Clients, Files, ServedFilesKept,
         NumbersNotShared, Losses, Lost, Accepting, StopSteps
<1>3. Saves'
  BY DEF fileVars, stopVars, Saves, Stopped
<1> QED
  BY <1>1, <1>2, <1>3

\* While accept waits 3 is taken and no number is lost, so that the client
\* gets one that nobody else has.
LEMMA AcceptKeeps ==
  ASSUME IInv, Accept
  PROVE  IInv'
<1> USE DEF IInv, FdInv, Accept, Goto, Opens, Free
<1>1. TypeOK'
  BY DEF fileVars, stopVars, TypeOK, Threads, MainSteps, ConsoleSteps, Owners
<1>2. Places'
  BY DEF Places, Accepting, StopSteps
<1>3. Listener'
  BY Constants DEF Listener, Accepting
<1>4. Clients'
  BY DEF TypeOK, Clients, Threads
<1>5. Files'
  BY DEF fileVars, Files, Threads
<1>6. ServedFilesKept'
  BY DEF fileVars, Files, ServedFilesKept
<1>7. NumbersNotShared'
  BY Constants DEF fileVars, Listener, NumbersNotShared, Losses, Lost,
         Accepting, Threads
<1>8. Losses'
  BY DEF fileVars, Losses, Lost, Closing
<1>9. Saves'
  BY DEF fileVars, stopVars, Saves, Stopped
<1> QED
  BY <1>1, <1>2, <1>3, <1>4, <1>5, <1>6, <1>7, <1>8, <1>9

\* Nor is one lost while a client is served.
LEMMA ServeChunkKeeps ==
  ASSUME IInv, NEW c \in Chunks, ServeChunk(c)
  PROVE  IInv'
<1> USE DEF IInv, FdInv, ServeChunk, OpenFile, Opens, Free
<1>1. TypeOK'
  BY DEF stopVars, TypeOK, Threads, Owners
<1>2. Places'
  BY DEF Places
<1>3. Listener'
  BY DEF Listener
<1>4. Clients'
  BY DEF Clients
<1>5. Files'
  BY Constants DEF TypeOK, Files
<1>6. ServedFilesKept'
  BY DEF TypeOK, ServedFilesKept
<1>7. NumbersNotShared'
  BY Constants DEF NumbersNotShared, Losses, Lost, Threads
<1>8. Losses'
  BY DEF TypeOK, Losses, Lost, Closing
<1>9. Saves'
  BY DEF stopVars, Saves, Stopped
<1> QED
  BY <1>1, <1>2, <1>3, <1>4, <1>5, <1>6, <1>7, <1>8, <1>9

LEMMA DisconnectKeeps ==
  ASSUME IInv, Disconnect
  PROVE  IInv'
<1> USE DEF IInv, FdInv, Disconnect, Goto
<1>1. TypeOK'
  BY DEF fileVars, stopVars, TypeOK, Threads, MainSteps, ConsoleSteps
<1>2. FdInv'
  BY DEF fileVars, Places, Listener, Clients, Files, ServedFilesKept,
         NumbersNotShared, Losses, Lost, Accepting, StopSteps
<1>3. Saves'
  BY DEF fileVars, stopVars, Saves, Stopped
<1> QED
  BY <1>1, <1>2, <1>3

\* The first close of a client's number is his own ...
LEMMA ReleaseKeeps ==
  ASSUME IInv, Release
  PROVE  IInv'
<1> USE DEF IInv, FdInv, Release, Goto, Closes
<1>1. TypeOK'
  BY DEF fileVars, stopVars, TypeOK, Threads, MainSteps, ConsoleSteps, Owners
<1>2. Places'
  BY DEF Places, Accepting, StopSteps
<1>3. Listener'
  BY DEF Listener, Accepting, StopSteps
<1>4. Clients'
  BY DEF TypeOK, Clients, Threads
<1>5. Files'
  BY DEF fileVars, Files, Threads
<1>6. ServedFilesKept'
  BY DEF ServedFilesKept
<1>7. NumbersNotShared'
  BY DEF fileVars, NumbersNotShared
<1>8. Losses'
  BY DEF fileVars, Clients, Losses, Lost, Closing
<1>9. Saves'
  BY DEF fileVars, stopVars, Saves, Stopped
<1> QED
  BY <1>1, <1>2, <1>3, <1>4, <1>5, <1>6, <1>7, <1>8, <1>9

\* ... and the second may be that of a file the console has opened in stop().
LEMMA DestroyClientKeeps ==
  ASSUME IInv, DestroyClient
  PROVE  IInv'
<1> USE DEF IInv, FdInv, DestroyClient, Goto, Closes
<1>1. TypeOK'
  BY DEF fileVars, TypeOK, Threads, MainSteps, ConsoleSteps, Owners
<1>2. Places'
  BY DEF Places, Accepting, StopSteps
<1>3. Listener'
  BY Constants DEF Listener, Accepting, StopSteps
<1>4. Clients'
  BY DEF TypeOK, Clients, Threads
<1>5. Files'
  BY DEF fileVars, Files, Threads
<1>6. ServedFilesKept'
  BY DEF ServedFilesKept
<1>7. NumbersNotShared'
  BY DEF fileVars, NumbersNotShared
<1>8. Losses'
  <2>1. CASE table[clientFd] = "console"
    BY Constants, <2>1
       DEF TypeOK, Places, Listener, Clients, Files, Losses, Lost, Accepting,
           Closing, Threads, fileVars
  <2>2. CASE table[clientFd] # "console"
    BY Constants, <2>2
       DEF TypeOK, Places, Listener, Clients, Files, Losses, Lost, Accepting,
           Closing, Threads, fileVars
  <2> QED
    BY <2>1, <2>2
<1>9. Saves'
  BY DEF fileVars, TypeOK, Saves, Stopped
<1> QED
  BY <1>1, <1>2, <1>3, <1>4, <1>5, <1>6, <1>7, <1>8, <1>9

\* The listening socket is closed; a number that the console has lost is
\* another one.
LEMMA LeaveLoopKeeps ==
  ASSUME IInv, LeaveLoop
  PROVE  IInv'
<1> USE DEF IInv, FdInv, LeaveLoop, Goto, Closes
<1>1. TypeOK'
  BY DEF fileVars, stopVars, TypeOK, Threads, ConsoleSteps, StopSteps, Owners
<1>2. Places'
  BY DEF Places, Accepting
<1>3. Listener'
  BY Constants DEF TypeOK, Listener, Accepting, StopSteps, Threads
<1>4. Clients'
  BY DEF Clients
<1>5. Files'
  BY DEF fileVars, Files, Threads
<1>6. ServedFilesKept'
  BY DEF ServedFilesKept
<1>7. NumbersNotShared'
  BY DEF fileVars, NumbersNotShared
<1>8. Losses'
  BY DEF fileVars, stopVars, TypeOK, Listener, Files, Losses, Lost, Accepting,
         Closing
<1>9. Saves'
  BY DEF fileVars, stopVars, Saves, Stopped
<1> QED
  BY <1>1, <1>2, <1>3, <1>4, <1>5, <1>6, <1>7, <1>8, <1>9

\* The next process starts from nothing.
LEMMA ExitKeeps ==
  ASSUME IInv, Exit
  PROVE  IInv'
<1> USE DEF IInv, FdInv, Exit
<1>1. TypeOK'
  BY DEF TypeOK, Threads, MainSteps, ConsoleSteps, Owners
<1>2. FdInv'
  BY Constants DEF Places, Listener, Clients, Files, ServedFilesKept,
         NumbersNotShared, Losses, Lost, Accepting, StopSteps, Threads
<1>3. Saves'
  BY DEF Saves
<1> QED
  BY <1>1, <1>2, <1>3

\* "stop" is typed while the main thread is in start().
LEMMA StopTypedKeeps ==
  ASSUME IInv, StopTyped
  PROVE  IInv'
<1> USE DEF IInv, FdInv, StopTyped, Goto
<1>1. TypeOK'
  BY DEF TypeOK, Threads, MainSteps, ConsoleSteps, StopSteps, fileVars, stopVars
<1>2. FdInv'
  BY Constants DEF fileVars, TypeOK, Places, Listener, Clients, Files,
         ServedFilesKept, NumbersNotShared, Losses, Lost, Accepting,
         MainSteps, Threads
<1>3. Saves'
  BY DEF TypeOK, Places, Saves, StopSteps, ConsoleSteps, Threads
<1> QED
  BY <1>1, <1>2, <1>3

LEMMA Inductive == IInv /\ [Next]_vars => IInv'
<1> SUFFICES ASSUME IInv, [Next]_vars PROVE IInv'
  OBVIOUS
<1>1. ASSUME NEW t \in Threads, StopStep(t) PROVE IInv'
  BY <1>1, EnterStopKeeps, SaveChunkKeeps, WriteFileKeeps, CloseFileKeeps,
     AllSavedKeeps, ShutdownKeeps, CloseSocketKeeps, ForgetKeeps DEF StopStep
<1>2. CASE MainStep
  BY <1>1, <1>2, LoopKeeps, CallAcceptKeeps, AcceptWokenKeeps, ReleaseKeeps,
     DestroyClientKeeps, LeaveLoopKeeps, ExitKeeps DEF MainStep, Threads
<1>3. CASE StopStep("console")
  BY <1>1, <1>3 DEF Threads
<1>4. CASE StopTyped \/ Start \/ Listen \/ ListenFails
  BY <1>4, StopTypedKeeps, StartKeeps, ListenKeeps, ListenFailsKeeps
<1>5. CASE AcceptFails \/ Accept \/ Disconnect
  BY <1>5, AcceptFailsKeeps, AcceptKeeps, DisconnectKeeps
<1>6. CASE \E c \in Chunks : ServeChunk(c)
  BY <1>6, ServeChunkKeeps
<1>7. CASE UNCHANGED vars
  BY <1>7 DEF vars, stopVars, fileVars, IInv, FdInv, TypeOK, Places, Listener,
              Clients, Files, ServedFilesKept, NumbersNotShared, Losses, Lost,
              Saves, Stopped
<1> QED
  BY <1>2, <1>3, <1>4, <1>5, <1>6, <1>7 DEF Next

LEMMA Invariance == Spec => []IInv
  BY Initially, Inductive, PTL DEF Spec

-----------------------------------------------------------------------------
(* Theorems.                                                               *)

\* Every variable keeps its type (the shape of the state, server.cpp).
THEOREM TypeCorrect == Spec => []TypeOK
<1>1. IInv => TypeOK
  BY DEF IInv
<1> QED
  BY <1>1, Invariance, PTL

\* Between two clients nothing is open but the listening socket
\* (server.cpp:55-68, tcpclient.cpp:9-16).
THEOREM Leaks == Spec => []NothingLeaks
<1>1. IInv => NothingLeaks
  <2> SUFFICES ASSUME IInv, pc["main"] \in {"loop", "call", "accept"}, ~Stopped,
                      NEW n \in Fds
               PROVE  table[n] # "free" <=> n = socketFd
    BY DEF NothingLeaks
  <2>1. pc["console"] = "getline"
    BY DEF IInv, FdInv, Places, Accepting, Stopped
  <2>2. socketFd = 3 /\ table[3] = "listener"
    BY <2>1 DEF IInv, FdInv, Listener, Accepting
  <2>3. table[n] # "client"
    BY DEF IInv, FdInv, Clients
  <2>4. fileFd["main"] = None /\ fileFd["console"] = None
    BY <2>1 DEF IInv, FdInv, Files
  <2>5. table[n] \notin Threads
    BY <2>4, Constants DEF IInv, FdInv, Files, Threads
  <2>6. table[n] \in {"listener", "free"}
    BY <2>3, <2>5 DEF IInv, TypeOK, Owners, Threads
  <2> QED
    BY <2>2, <2>6, Constants DEF IInv, FdInv, Listener
<1> QED
  BY <1>1, Invariance, PTL

\* What the main thread saves for a client goes to its file, whatever the
\* console closes in the meantime (server.cpp:74-80).
THEOREM ServedFiles == Spec => []ServedFilesKept
<1>1. IInv => ServedFilesKept
  BY DEF IInv, FdInv
<1> QED
  BY <1>1, Invariance, PTL

\* A number in a stream stands for that stream's file or for nothing, whoever
\* has closed what (server.cpp:67-69, 74-80, tcpclient.cpp:9-16).
THEOREM OwnNumbers == Spec => []NumbersNotShared
<1>1. IInv => NumbersNotShared
  BY DEF IInv, FdInv
<1> QED
  BY <1>1, Invariance, PTL

\* When main returns after a "stop", every chunk of memory has been saved
\* whole, unless a file of the console was hit (server.cpp:72-81).
THEOREM StopSaves == Spec => []SavedUnlessHit
<1>1. IInv => SavedUnlessHit
  BY DEF IInv, Saves, SavedUnlessHit, Threads
<1> QED
  BY <1>1, Invariance, PTL
=============================================================================
