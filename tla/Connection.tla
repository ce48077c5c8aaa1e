----------------------------- MODULE Connection -----------------------------
(***************************************************************************)
(* One connection: TcpClient::handle (network/tcpclient.cpp) and a 1.7.10  *)
(* client that talks to it.  The two are joined by a stream in each        *)
(* direction.  Here a stream is a sequence of packets; how the bytes of    *)
(* one become packets is PacketFraming.tla, of which one trait stays: a    *)
(* read may bring the ends of several packets, or of none, and handle()    *)
(* takes one packet per read.                                              *)
(*                                                                         *)
(* A packet from the client is an id and what the handler looks at of its  *)
(* data.  The id alone does not say what a packet means: that depends on   *)
(* the connection state, which each side keeps for itself.                 *)
(***************************************************************************)
EXTENDS Integers, Sequences, FiniteSets

CONSTANTS
  Chunks,     \* the chunks the player walks on: pairs of coordinates
  Spawn,      \* the chunk of the spawn position, <<0, 0>>
  Radius,     \* 3: how far the chunks sent reach in each direction
  Burst,      \* the most packets whose ends one read brings
  MaxActs     \* bound on what the player does in a connection

ASSUME ConnectionAssumption ==
  /\ Spawn \in Chunks /\ Chunks \subseteq Int \X Int
  /\ Radius \in Nat /\ Burst \in Nat \ {0} /\ MaxActs \in Nat

VARIABLES
  state,     \* ConnectionState of handle()
  player,    \* player_ has been made
  last,      \* lastChunkX_, lastChunkZ_
  pc,        \* where handle() is: read, parse or done
  buffer,    \* buffer_: the packets it holds whole
  wire,      \* packets sent by the client and not yet read
  begun,     \* the first of these has been read in part
  out,       \* packets sent by the server and not yet received
  mode,      \* the client: connecting, status, login, play, closed
  at,        \* the chunk the player stands in
  shown,     \* the chunks the client has received
  acts       \* what the player has done so far

serverVars == <<state, player, last>>
clientVars == <<mode, at, shown, acts>>
vars == <<state, player, last, pc, buffer, wire, begun, out,
          mode, at, shown, acts>>

\* ConnectionState.
States == {"Handshaking", "Status", "Login", "Play"}

\* What the client sends; "means" is the state it means the packet for.
Packet(id, data, means) == [id |-> id, data |-> data, means |-> means]

Handshake(next) == Packet(0, next, "Handshaking")
Request == Packet(0, "request", "Status")
Ping == Packet(1, "time", "Status")
LoginStart == Packet(0, "name", "Login")
KeepAlive == Packet(0, "token", "Play")

Position(id, c) == Packet(id, c, "Play")

\* What a player does that moves nobody, and the server's answer.
Deeds ==
  { Packet(1, "text", "Play"),        \* chat
    Packet(3, "ground", "Play"),      \* standing on the ground
    Packet(7, "started", "Play"),     \* digging, status 0
    Packet(7, "finished", "Play"),    \* ... and status 2
    Packet(15, "face", "Play"),       \* placing a block at a face
    Packet(15, "air", "Play"),        \* ... or using an item, face -1
    Packet(11, "swing", "Play") }     \* a packet that the server ignores

Moves == {Position(id, c) : id \in {4, 6}, c \in Chunks}

FromClient ==
  {Handshake("status"), Handshake("login"), Request, Ping, LoginStart,
   KeepAlive} \cup Deeds \cup Moves

\* What the server sends.  One message stands for all chunks around c.
Message(name) == [name |-> name, around |-> Spawn]
ChunksAround(c) == [name |-> "Chunks", around |-> c]

FromServer ==
  [name : {"Response", "Pong", "LoginSuccess", "JoinGame", "TabListEntry",
           "SpawnPosition", "PositionLook", "Inventory", "Chunks",
           "KeepAlive", "Chat", "BlockChange"},
   around : Chunks]

\* The window that sendChunksAround sends.
Around(c) ==
  (c[1] - Radius..c[1] + Radius) \X (c[2] - Radius..c[2] + Radius)

TypeOK ==
  /\ state \in States /\ player \in BOOLEAN /\ last \in Chunks
  /\ pc \in {"read", "parse", "done"}
  /\ buffer \in Seq(FromClient) /\ wire \in Seq(FromClient)
  /\ begun \in BOOLEAN
  /\ out \in Seq(FromServer)
  /\ mode \in {"connecting", "status", "login", "play", "closed"}
  /\ at \in Chunks /\ acts \in 0..MaxActs
  /\ shown \subseteq UNION {Around(c) : c \in Chunks}

Init ==
  /\ state = "Handshaking" /\ player = FALSE /\ last = Spawn
  /\ pc = "read" /\ buffer = <<>>
  /\ wire = <<>> /\ begun = FALSE /\ out = <<>>
  /\ mode = "connecting" /\ at = Spawn /\ shown = {} /\ acts = 0

-----------------------------------------------------------------------------
(* The client.  It does not wait for an answer to its handshake.           *)

ClientSends(packets) == wire' = wire \o packets

AskStatus ==
  /\ mode = "connecting"
  /\ mode' = "status"
  /\ ClientSends(<<Handshake("status"), Request>>)
  /\ UNCHANGED <<serverVars, pc, buffer, begun, out, at, shown, acts>>

AskLogin ==
  /\ mode = "connecting"
  /\ mode' = "login"
  /\ ClientSends(<<Handshake("login"), LoginStart>>)
  /\ UNCHANGED <<serverVars, pc, buffer, begun, out, at, shown, acts>>

\* The client takes the next message, and answers it if it wants an answer.
Receive ==
  /\ mode \in {"status", "login", "play"} /\ out # <<>>
  /\ LET m == Head(out) IN
       /\ shown' = IF m.name = "Chunks" THEN shown \cup Around(m.around)
                                        ELSE shown
       /\ mode' = CASE m.name = "LoginSuccess" -> "play"
                    [] m.name = "Pong" -> "closed"
                    [] OTHER -> mode
       /\ ClientSends(CASE m.name = "KeepAlive" -> <<KeepAlive>>
                        [] m.name = "Response" -> <<Ping>>
                        [] OTHER -> <<>>)
  /\ out' = Tail(out)
  /\ UNCHANGED <<serverVars, pc, buffer, begun, at, acts>>

Walk(id, c) ==
  /\ mode = "play" /\ acts < MaxActs
  /\ at' = c /\ acts' = acts + 1
  /\ ClientSends(<<Position(id, c)>>)
  /\ UNCHANGED <<serverVars, pc, buffer, begun, out, mode, shown>>

Act(p) ==
  /\ mode = "play" /\ acts < MaxActs
  /\ acts' = acts + 1
  /\ ClientSends(<<p>>)
  /\ UNCHANGED <<serverVars, pc, buffer, begun, out, mode, at, shown>>

\* The client closes the connection, when it likes.
Quit ==
  /\ mode \in {"status", "login", "play"}
  /\ mode' = "closed"
  /\ UNCHANGED <<serverVars, pc, buffer, wire, begun, out, at, shown, acts>>

-----------------------------------------------------------------------------
(* The server reads.                                                       *)

\* A read brings the ends of k packets, and perhaps a part of the next one.
ReadBytes ==
  /\ pc = "read" /\ wire # <<>>
  /\ \E k \in 0..Burst, more \in BOOLEAN :
       /\ k <= Len(wire)
       /\ more => k < Len(wire)
       /\ k = 0 => more /\ ~begun
       /\ buffer' = buffer \o SubSeq(wire, 1, k)
       /\ wire' = SubSeq(wire, k + 1, Len(wire))
       /\ begun' = more
  /\ pc' = "parse"
  /\ UNCHANGED <<serverVars, out, clientVars>>

\* Wrong: a read of nothing counts as a read.
ReadEndIgnored ==
  /\ pc = "read" /\ mode = "closed"
  /\ pc' = "parse"
  /\ UNCHANGED <<serverVars, buffer, wire, begun, out, clientVars>>

\* The end of the stream, or an error that overtakes what is on the wire.
ReadEnd ==
  /\ pc = "read" /\ mode = "closed"
  /\ pc' = "done"
  /\ UNCHANGED <<serverVars, buffer, wire, begun, out, clientVars>>

NoPacket ==
  /\ pc = "parse" /\ buffer = <<>>
  /\ pc' = "read"
  /\ UNCHANGED <<serverVars, buffer, wire, begun, out, clientVars>>

\* One packet is taken from the buffer and dispatched; then the loop around
\* tryReadPacket ends, whatever is left (tcpclient.cpp:457).
Take(p) ==
  /\ pc = "parse" /\ buffer # <<>> /\ p = Head(buffer)
  /\ buffer' = Tail(buffer)
  /\ pc' = "read"
  /\ UNCHANGED <<wire, begun, clientVars>>

\* What is sent to a closed connection is lost, and nobody is told.
Sends(messages) == out' = IF mode = "closed" THEN out ELSE out \o messages

-----------------------------------------------------------------------------
(* The handlers.                                                           *)

\* Wrong: the byte is taken for the state, whatever it is.
HandleHandshakeUnchecked ==
  \E p \in FromClient :
    /\ Take(p) /\ state = "Handshaking"
    /\ state' = p.data
    /\ UNCHANGED <<player, last, out>>

\* Wrong: another byte of the handshake, the same for both, is looked at.
HandleHandshakeFront ==
  \E p \in FromClient :
    /\ Take(p) /\ state = "Handshaking"
    /\ state' = "Login"
    /\ UNCHANGED <<player, last, out>>

\* The last byte of a handshake is the state that the client wants next.
HandleHandshake ==
  \E p \in FromClient :
    /\ Take(p) /\ state = "Handshaking"
    /\ state' = CASE p.data = "status" -> "Status"
                  [] p.data = "login" -> "Login"
                  [] OTHER -> state
    /\ UNCHANGED <<player, last, out>>

\* Wrong: a ping gets no answer.
HandleRequestOnly ==
  \E p \in FromClient :
    /\ Take(p) /\ state = "Status"
    /\ Sends(IF p.id = 0 THEN <<Message("Response")>> ELSE <<>>)
    /\ UNCHANGED serverVars

HandleStatus ==
  \E p \in FromClient :
    /\ Take(p) /\ state = "Status"
    /\ Sends(CASE p.id = 0 -> <<Message("Response")>>
               [] p.id = 1 -> <<Message("Pong")>>
               [] OTHER -> <<>>)
    /\ UNCHANGED serverVars

\* The packets that put a player into the world.
JoinSequence ==
  << Message("LoginSuccess"), Message("JoinGame"), Message("TabListEntry"),
     Message("SpawnPosition"), Message("PositionLook"), Message("Inventory"),
     ChunksAround(Spawn), Message("KeepAlive") >>

HandleLogin ==
  \E p \in FromClient :
    /\ Take(p) /\ state = "Login"
    /\ IF p.id = 0
         THEN /\ player' = TRUE /\ state' = "Play"
              /\ Sends(JoinSequence)
         ELSE UNCHANGED <<player, state, out>>
    /\ UNCHANGED last

\* Wrong: a keep-alive ends with the server.
SwallowKeepAlive ==
  \E p \in FromClient :
    /\ Take(p) /\ state = "Play" /\ p.id = 0
    /\ UNCHANGED <<serverVars, out>>

\* A keep-alive is sent straight back.
HandleKeepAlive ==
  \E p \in FromClient :
    /\ Take(p) /\ state = "Play" /\ p.id = 0
    /\ Sends(<<Message("KeepAlive")>>)
    /\ UNCHANGED serverVars

\* Wrong: a window goes out only where both coordinates differ.
HandleDiagonalMove ==
  \E p \in FromClient :
    /\ Take(p) /\ state = "Play" /\ p.id \in {4, 6}
    /\ IF p.data[1] # last[1] /\ p.data[2] # last[2]
         THEN /\ last' = p.data
              /\ Sends(<<ChunksAround(p.data)>>)
         ELSE UNCHANGED <<last, out>>
    /\ UNCHANGED <<state, player>>

\* Wrong: a keep-alive follows the window, as it does at the login.
HandleMoveAsJoin ==
  \E p \in FromClient :
    /\ Take(p) /\ state = "Play" /\ p.id \in {4, 6}
    /\ IF p.data[1] # last[1] \/ p.data[2] # last[2]
         THEN /\ last' = p.data
              /\ Sends(<<ChunksAround(p.data), Message("KeepAlive")>>)
         ELSE UNCHANGED <<last, out>>
    /\ UNCHANGED <<state, player>>

HandleMove ==
  \E p \in FromClient :
    /\ Take(p) /\ state = "Play" /\ p.id \in {4, 6}
    /\ IF p.data[1] # last[1] \/ p.data[2] # last[2]
         THEN /\ last' = p.data
              /\ Sends(<<ChunksAround(p.data)>>)
         ELSE UNCHANGED <<last, out>>
    /\ UNCHANGED <<state, player>>

\* Chat, digging, placing, and the packets that change nothing.  What the
\* edits do to the world is World.tla's part.
HandleDeed ==
  \E p \in FromClient :
    /\ Take(p) /\ state = "Play" /\ p.id \notin {0, 4, 6}
    /\ Sends(CASE p.id = 1 -> <<Message("Chat")>>
               [] p.id = 7 /\ p.data = "finished" -> <<Message("BlockChange")>>
               [] p.id = 15 /\ p.data = "face" -> <<Message("BlockChange")>>
               [] OTHER -> <<>>)
    /\ UNCHANGED serverVars

\* The server has accepted the next client, with a TcpClient of its own.
NextClient ==
  /\ pc = "done"
  /\ state' = "Handshaking" /\ player' = FALSE /\ last' = Spawn
  /\ pc' = "read" /\ buffer' = <<>>
  /\ wire' = <<>> /\ begun' = FALSE /\ out' = <<>>
  /\ mode' = "connecting" /\ at' = Spawn /\ shown' = {} /\ acts' = 0

Handle ==
  \/ HandleHandshake \/ HandleStatus \/ HandleLogin
  \/ HandleKeepAlive \/ HandleMove \/ HandleDeed

ServerStep == ReadBytes \/ ReadEnd \/ NoPacket \/ Handle

PlayerStep ==
  \/ AskStatus \/ AskLogin \/ Quit
  \/ \E id \in {4, 6}, c \in Chunks : Walk(id, c)
  \/ \E p \in Deeds : Act(p)

Next == ServerStep \/ Receive \/ PlayerStep \/ NextClient

\* The server's thread runs and the client's network thread does; what the
\* player does is up to the player.
Spec == Init /\ [][Next]_vars /\ WF_vars(ServerStep) /\ WF_vars(Receive)

-----------------------------------------------------------------------------
(* Properties.                                                             *)

\* handle() is in the state that a packet was meant for whenever it takes one:
\* no keep-alive is read as a login, no login as a request, although all have
\* the id 0, and no chat arrives before there is a player to name
\* (tcpclient.cpp:130-191, 276).
HandledAsMeant ==
  pc = "parse" /\ buffer # <<>> =>
    /\ Head(buffer).means = state
    /\ state = "Play" <=> player

\* The places of keep-alives, and of steps, in a stream.
Tokens(seq) == {i \in DOMAIN seq : seq[i].name = "KeepAlive"}
Echoes(seq) == {i \in DOMAIN seq : seq[i].id = 0 /\ seq[i].means = "Play"}
Steps(seq) == {i \in DOMAIN seq : seq[i].id \in {4, 6}}

\* The keep-alives in the connection.
Circulating ==
  Cardinality(Tokens(out)) + Cardinality(Echoes(wire))
    + Cardinality(Echoes(buffer))

\* Once a player has joined there is exactly one keep-alive in the connection:
\* on its way to the client, on its way back, or waiting in the buffer.  The
\* loop of echoes neither dies out nor multiplies (tcpclient.cpp:249-266).
OneKeepAlive ==
  /\ Circulating <= 1
  /\ mode # "closed" => (Circulating = 1 <=> state = "Play")

\* A player who has joined, and no step of whose is still on its way, has all
\* chunks around the chunk where it stands, or is being sent them, wherever it
\* came from (tcpclient.cpp:241-247, 311-320, 338-347).
WindowFollows ==
  LET sent == {out[i].around : i \in {j \in DOMAIN out : out[j].name = "Chunks"}}
  IN  mode = "play" /\ Steps(wire) = {} /\ Steps(buffer) = {} =>
        Around(at) \subseteq shown \cup UNION {Around(c) : c \in sent}

\* handle() reads while it still holds a packet, for which it will not look
\* before something else arrives (tcpclient.cpp:457).
Backlog == pc = "read" /\ buffer # <<>>

\* A client that asks is answered: it gets into the game, or its ping comes
\* back, unless it gives up before or its packet is stuck behind another
\* (tcpclient.cpp:132-255).
Answered ==
  /\ mode = "login" ~> mode \in {"play", "closed"} \/ Backlog
  /\ mode = "status" ~> mode = "closed" \/ Backlog

\* A player hears from the server again and again, which a client takes for
\* the sign that the connection is alive, unless its echo is stuck
\* (tcpclient.cpp:259-266).
KeptAlive ==
  LET Alive == out # <<>> /\ Head(out).name = "KeepAlive"
  IN  mode = "play" ~> mode = "closed" \/ Backlog \/ Alive

\* The server is free for its next client once this one has gone: handle()
\* returns, whatever it was about to read or had yet to handle
\* (tcpclient.cpp:121-125, server.cpp:55-68).
Released == mode = "closed" ~> pc = "done"

\* README.md:18: "Full Minecraft 1.7.10 handshake and login sequence".
LoginCompletes == mode = "login" ~> mode \in {"play", "closed"}
=============================================================================
