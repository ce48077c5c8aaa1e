------------------------------- MODULE Server -------------------------------
(***************************************************************************)
(* Server::start, stop and consoleLoop (network/server.cpp) with the file  *)
(* descriptors that its two threads share.  A descriptor is a number: the  *)
(* system gives out the lowest one that is free, close(n) frees n whoever  *)
(* has it, and what is done with n goes to whatever has the number then.   *)
(* The code closes a client's number twice and the listening socket's up   *)
(* to three times, from two threads, while both open and close region      *)
(* files.                                                                  *)
(*                                                                         *)
(* What the chunks hold is left to World.tla, and what becomes of a file   *)
(* that both threads write to RegionFile.tla; here a save is whole when    *)
(* it was written through a descriptor that was still its own.             *)
(***************************************************************************)
EXTENDS Integers

CONSTANTS
  Chunks,   \* the chunks in memory, each in a region file
  MaxFd     \* the numbers are 3..MaxFd; 0, 1 and 2 are always taken

ASSUME ServerAssumption == MaxFd \in Nat /\ MaxFd >= 6

Threads == {"main", "console"}

Fds == 3..MaxFd
None == -1

\* What a number stands for: a socket, the region file that a thread has
\* open, or nothing.
Owners == {"listener", "client", "free"} \cup Threads

VARIABLES
  pc,        \* where each thread is
  table,     \* what each number stands for
  shut,      \* the listening socket has been shut down
  running,   \* running_
  socketFd,  \* Server::socketFd_
  clientFd,  \* the client's number, in start() and in its TcpClient
  fileFd,    \* the number in each thread's fstream, or None
  todo,      \* the chunks a thread's saveAllChunks has yet to save
  current,   \* the chunk that each thread saves
  whole,     \* chunks that stop() has saved whole
  hit        \* the second close of a client has hit the console's file

stopVars == <<whole, hit>>
fileVars == <<fileFd, todo, current>>
vars == <<pc, table, shut, running, socketFd, clientFd, fileFd, todo, current,
          whole, hit>>

\* The places of stop(), and those of each of its callers.
StopSteps == {"stop", "saveAll", "shutdown", "close", "forget"}
MainSteps == {"down", "start", "loop", "call", "accept", "serve", "release",
              "destroy", "leave", "exit"}
ConsoleSteps == {"none", "getline", "done"}

TypeOK ==
  /\ pc \in [Threads -> MainSteps \cup StopSteps \cup ConsoleSteps]
  /\ pc["main"] \notin ConsoleSteps /\ pc["console"] \notin MainSteps
  /\ table \in [Fds -> Owners]
  /\ shut \in BOOLEAN /\ running \in BOOLEAN
  /\ socketFd \in Fds \cup {None} /\ clientFd \in Fds \cup {None}
  /\ fileFd \in [Threads -> Fds \cup {None}]
  /\ todo \in [Threads -> SUBSET Chunks]
  /\ current \in [Threads -> Chunks]
  /\ whole \subseteq Chunks /\ hit \in BOOLEAN

Init ==
  /\ pc = [t \in Threads |-> IF t = "main" THEN "down" ELSE "none"]
  /\ table = [n \in Fds |-> "free"] /\ shut = FALSE
  /\ running = FALSE
  /\ socketFd = None /\ clientFd = None
  /\ fileFd = [t \in Threads |-> None]
  /\ todo = [t \in Threads |-> {}]
  /\ current \in [Threads -> Chunks]
  /\ whole = {} /\ hit = FALSE

Goto(t, place) == pc' = [pc EXCEPT ![t] = place]

-----------------------------------------------------------------------------
(* The table of descriptors.                                               *)

Free == {n \in Fds : table[n] = "free"}
Listens(n) == n \in Fds /\ table[n] = "listener"

\* Number n, the lowest that is free, now stands for owner.
Opens(n, owner) ==
  /\ n \in Free /\ \A m \in Free : n <= m
  /\ table' = [table EXCEPT ![n] = owner]

\* close(n); of a number that stands for nothing it fails, and nobody looks.
Closes(n) ==
  table' = IF n \in Fds THEN [table EXCEPT ![n] = "free"] ELSE table

-----------------------------------------------------------------------------
(* A region file, from the constructor of the stream to its destructor.    *)

OpenFile(t, c) ==
  /\ fileFd[t] = None
  /\ \E n \in Fds : Opens(n, t) /\ fileFd' = [fileFd EXCEPT ![t] = n]
  /\ current' = [current EXCEPT ![t] = c]

\* Wrong: the stream is left open.
CloseFileNever(t) ==
  /\ fileFd[t] # None /\ current[t] \notin todo[t]
  /\ fileFd' = [fileFd EXCEPT ![t] = None]
  /\ UNCHANGED <<pc, table, shut, running, socketFd, clientFd, todo, current,
                 stopVars>>

\* The stream's destructor closes the number that it was given.
CloseFile(t) ==
  /\ fileFd[t] # None /\ current[t] \notin todo[t]
  /\ Closes(fileFd[t])
  /\ fileFd' = [fileFd EXCEPT ![t] = None]
  /\ UNCHANGED <<pc, shut, running, socketFd, clientFd, todo, current,
                 stopVars>>

\* A save of stop() writes its image through the number, and does not look at
\* what comes of it.
WriteFile(t) ==
  /\ pc[t] = "saveAll" /\ fileFd[t] # None /\ current[t] \in todo[t]
  /\ whole' = IF table[fileFd[t]] = t THEN whole \cup {current[t]} ELSE whole
  /\ todo' = [todo EXCEPT ![t] = @ \ {current[t]}]
  /\ UNCHANGED <<pc, table, shut, running, socketFd, clientFd, fileFd,
                 current, hit>>

-----------------------------------------------------------------------------
(* Server::stop, in either thread.                                         *)

\* Wrong: socketFd_ is taken away before the chunks are saved.
EnterStopTaking(t) ==
  /\ pc[t] = "stop"
  /\ IF socketFd = None
       THEN /\ Goto(t, IF t = "main" THEN "exit" ELSE "done")
            /\ UNCHANGED todo
       ELSE /\ Goto(t, "saveAll")
            /\ todo' = [todo EXCEPT ![t] = Chunks]
  /\ socketFd' = None
  /\ UNCHANGED <<table, shut, running, clientFd, fileFd, current, stopVars>>

\* Nothing is done when socketFd_ is gone.
EnterStop(t) ==
  /\ pc[t] = "stop"
  /\ IF socketFd = None
       THEN /\ Goto(t, IF t = "main" THEN "exit" ELSE "done")
            /\ UNCHANGED todo
       ELSE /\ Goto(t, "saveAll")
            /\ todo' = [todo EXCEPT ![t] = Chunks]
  /\ UNCHANGED <<table, shut, running, socketFd, clientFd, fileFd, current,
                 stopVars>>

\* saveAllChunks: the next chunk's file is opened ...
SaveChunk(t, c) ==
  /\ pc[t] = "saveAll" /\ c \in todo[t]
  /\ OpenFile(t, c)
  /\ UNCHANGED <<pc, shut, running, socketFd, clientFd, todo, stopVars>>

\* ... until there is none.
AllSaved(t) ==
  /\ pc[t] = "saveAll" /\ todo[t] = {} /\ fileFd[t] = None
  /\ Goto(t, "shutdown")
  /\ UNCHANGED <<table, shut, running, socketFd, clientFd, fileVars, stopVars>>

\* Wrong: stop() closes the socket without shutting it down.
NoShutdown(t) ==
  /\ pc[t] = "shutdown"
  /\ Goto(t, "close")
  /\ UNCHANGED <<table, shut, running, socketFd, clientFd, fileVars, stopVars>>

\* Wrong: stop() closes the number here and again in the next step.
CloseTwice(t) ==
  /\ pc[t] = "shutdown"
  /\ shut' = (shut \/ Listens(socketFd))
  /\ Closes(socketFd)
  /\ Goto(t, "close")
  /\ UNCHANGED <<running, socketFd, clientFd, fileVars, stopVars>>

\* Shutting down a number that is no socket does nothing.
Shutdown(t) ==
  /\ pc[t] = "shutdown"
  /\ shut' = (shut \/ Listens(socketFd))
  /\ Goto(t, "close")
  /\ UNCHANGED <<table, running, socketFd, clientFd, fileVars, stopVars>>

CloseSocket(t) ==
  /\ pc[t] = "close"
  /\ Closes(socketFd)
  /\ Goto(t, "forget")
  /\ UNCHANGED <<shut, running, socketFd, clientFd, fileVars, stopVars>>

\* Wrong: stop() is only ever called by the console.
ForgetAsConsole(t) ==
  /\ pc[t] = "forget"
  /\ socketFd' = None
  /\ Goto(t, "done")
  /\ UNCHANGED <<table, shut, running, clientFd, fileVars, stopVars>>

\* It returns: to main(), or to consoleLoop, which ends.
Forget(t) ==
  /\ pc[t] = "forget"
  /\ socketFd' = None
  /\ Goto(t, IF t = "main" THEN "exit" ELSE "done")
  /\ UNCHANGED <<table, shut, running, clientFd, fileVars, stopVars>>

-----------------------------------------------------------------------------
(* Server::start, in the main thread.                                      *)

\* main() calls start(), and socket() gives it a number, or fails.
Start ==
  /\ pc["main"] = "down"
  /\ \/ /\ \E n \in Fds : Opens(n, "listener") /\ socketFd' = n
        /\ Goto("main", "start")
     \/ /\ Goto("main", "stop")
        /\ UNCHANGED <<table, socketFd>>
  /\ UNCHANGED <<shut, running, clientFd, fileVars, stopVars>>

\* bind and listen succeed, and the console thread starts.
Listen ==
  /\ pc["main"] = "start"
  /\ pc' = [t \in Threads |-> IF t = "main" THEN "loop" ELSE "getline"]
  /\ running' = TRUE
  /\ UNCHANGED <<table, shut, socketFd, clientFd, fileVars, stopVars>>

\* The port is busy: start() returns, and ~Server calls stop().
ListenFails ==
  /\ pc["main"] = "start"
  /\ Goto("main", "stop")
  /\ UNCHANGED <<table, shut, running, socketFd, clientFd, fileVars, stopVars>>

\* The accept loop looks at running_ ...
Loop ==
  /\ pc["main"] = "loop"
  /\ Goto("main", IF running THEN "call" ELSE "leave")
  /\ UNCHANGED <<table, shut, running, socketFd, clientFd, fileVars, stopVars>>

\* ... and calls accept, which waits on what the number stands for, or fails.
CallAccept ==
  /\ pc["main"] = "call"
  /\ Goto("main", IF Listens(socketFd) THEN "accept" ELSE "loop")
  /\ UNCHANGED <<table, shut, running, socketFd, clientFd, fileVars, stopVars>>

\* The shutdown wakes it; closing the number alone would not.
AcceptWoken ==
  /\ pc["main"] = "accept" /\ shut
  /\ Goto("main", "loop")
  /\ UNCHANGED <<table, shut, running, socketFd, clientFd, fileVars, stopVars>>

\* A connection is aborted before it is accepted: the loop goes on.
AcceptFails ==
  /\ pc["main"] = "accept" /\ ~shut
  /\ Goto("main", "loop")
  /\ UNCHANGED <<table, shut, running, socketFd, clientFd, fileVars, stopVars>>

Accept ==
  /\ pc["main"] = "accept" /\ ~shut
  /\ \E n \in Fds : Opens(n, "client") /\ clientFd' = n
  /\ Goto("main", "serve")
  /\ UNCHANGED <<shut, running, socketFd, fileVars, stopVars>>

\* handle() loads or saves a chunk.
ServeChunk(c) ==
  /\ pc["main"] = "serve"
  /\ OpenFile("main", c)
  /\ UNCHANGED <<pc, shut, running, socketFd, clientFd, todo, stopVars>>

\* The client goes, and handle() returns.
Disconnect ==
  /\ pc["main"] = "serve" /\ fileFd["main"] = None
  /\ Goto("main", "release")
  /\ UNCHANGED <<table, shut, running, socketFd, clientFd, fileVars, stopVars>>

\* start() closes the client's number ...
Release ==
  /\ pc["main"] = "release"
  /\ Closes(clientFd)
  /\ Goto("main", "destroy")
  /\ UNCHANGED <<shut, running, socketFd, clientFd, fileVars, stopVars>>

\* ... and so does ~TcpClient, at the end of the loop's body.
DestroyClient ==
  /\ pc["main"] = "destroy"
  /\ Closes(clientFd)
  /\ hit' = (hit \/ table[clientFd] = "console")
  /\ clientFd' = None
  /\ Goto("main", "loop")
  /\ UNCHANGED <<shut, running, socketFd, fileVars, whole>>

\* Wrong: the listening socket is left to stop().
LeaveLoopOpen ==
  /\ pc["main"] = "leave"
  /\ Goto("main", "stop")
  /\ UNCHANGED <<table, shut, running, socketFd, clientFd, fileVars, stopVars>>

\* start() closes the listening socket, and ~Server calls stop().
LeaveLoop ==
  /\ pc["main"] = "leave"
  /\ Closes(socketFd)
  /\ Goto("main", "stop")
  /\ UNCHANGED <<shut, running, socketFd, clientFd, fileVars, stopVars>>

\* The process ends, the detached console thread with it, and may be started
\* again.
Exit ==
  /\ pc["main"] = "exit"
  /\ pc' = [t \in Threads |-> IF t = "main" THEN "down" ELSE "none"]
  /\ table' = [n \in Fds |-> "free"] /\ shut' = FALSE
  /\ running' = FALSE
  /\ socketFd' = None /\ clientFd' = None
  /\ fileFd' = [t \in Threads |-> None]
  /\ todo' = [t \in Threads |-> {}]
  /\ whole' = {} /\ hit' = FALSE
  /\ UNCHANGED current

-----------------------------------------------------------------------------
(* The console thread.                                                     *)

\* Another command, or the end of the input, changes nothing: consoleLoop
\* goes round.
StopTyped ==
  /\ pc["console"] = "getline"
  /\ running' = FALSE
  /\ Goto("console", "stop")
  /\ UNCHANGED <<table, shut, socketFd, clientFd, fileVars, stopVars>>

StopStep(t) ==
  \/ EnterStop(t) \/ WriteFile(t) \/ CloseFile(t) \/ AllSaved(t)
  \/ Shutdown(t) \/ CloseSocket(t) \/ Forget(t)
  \/ \E c \in Chunks : SaveChunk(t, c)

\* What the main thread does without waiting for anybody.
MainStep ==
  \/ StopStep("main")
  \/ Loop \/ CallAccept \/ AcceptWoken \/ Release \/ DestroyClient
  \/ LeaveLoop \/ Exit

Next ==
  \/ MainStep \/ StopStep("console") \/ StopTyped
  \/ Start \/ Listen \/ ListenFails
  \/ AcceptFails \/ Accept \/ Disconnect
  \/ \E c \in Chunks : ServeChunk(c)

Spec == Init /\ [][Next]_vars

\* Both threads are scheduled; clients and the console's user do as they like.
FairSpec == Spec /\ WF_vars(MainStep) /\ WF_vars(StopStep("console"))

-----------------------------------------------------------------------------
(* Properties.                                                             *)

Stopped == pc["console"] \notin {"none", "getline"}

\* Between two clients nothing is open but the listening socket: neither the
\* number of a client nor that of a region file is ever lost, however many
\* come and go (server.cpp:55-68, tcpclient.cpp:9-16).
NothingLeaks ==
  pc["main"] \in {"loop", "call", "accept"} /\ ~Stopped =>
    \A n \in Fds : table[n] # "free" <=> n = socketFd

\* A chunk that the main thread saves for a client goes to its file even while
\* the console stops the server: the listening socket's number is not given
\* out before the console closes it, and the console closes nothing later
\* (server.cpp:74-80).
ServedFilesKept ==
  pc["main"] = "serve" /\ fileFd["main"] # None =>
    table[fileFd["main"]] = "main"

\* A number that a thread has open as a file stands for that file, or, once
\* another close has hit it, for nothing; what is written through it never
\* reaches another file or a client.  For that the listening socket's number
\* has to be free when the main thread opens files in stop(), as it is given
\* out before one that was hit (server.cpp:67-69).
NumbersNotShared ==
  \A t \in Threads :
    fileFd[t] # None => table[fileFd[t]] \in {t, "free"}

\* When main returns after a "stop", each chunk of memory has been saved whole
\* by one of the threads, even if the other still has its files open - unless
\* the second close of a client's number (tcpclient.cpp:13) hit a file that
\* the console had just opened under it.
SavedUnlessHit ==
  pc["main"] = "exit" /\ Stopped /\ ~hit => whole = Chunks

\* Once "stop" is typed the process ends, or stays with the one client that is
\* connected, or that gets in while the world is saved, for as long as that
\* client stays (server.cpp:55-68, 90).
StopEnds ==
  [](Stopped => <>(pc["main"] = "down") \/ <>[](pc["main"] = "serve"))
=============================================================================
