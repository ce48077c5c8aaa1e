-------------------------- MODULE ConnectionProofs --------------------------
(***************************************************************************)
(* Proofs about Connection, for every set of chunks, every radius and any  *)
(* number of packets in a read.  What a read brings only moves along the   *)
(* stream from the client to the handler, so that the proofs look at the   *)
(* buffer and the wire as one.                                             *)
(***************************************************************************)
EXTENDS Connection, SequenceTheorems, FiniteSetTheorems, TLAPS

-----------------------------------------------------------------------------
(* Sequences.                                                              *)

\* A read does not change what is on the stream.
LEMMA ReadMoves ==
  ASSUME NEW S, NEW b \in Seq(S), NEW w \in Seq(S), NEW k \in 0..Len(w)
  PROVE  /\ SubSeq(w, 1, k) \in Seq(S) /\ SubSeq(w, k + 1, Len(w)) \in Seq(S)
         /\ (b \o SubSeq(w, 1, k)) \o SubSeq(w, k + 1, Len(w)) = b \o w
<1>1. Len(w) \in Nat /\ \A i \in 1..Len(w) : w[i] \in S
  BY LenProperties
<1>2. SubSeq(w, 1, k) \in Seq(S)
  <2>1. 1 \in Int /\ k \in Int /\ \A i \in 1..k : w[i] \in S
    BY <1>1
  <2> QED
    BY <2>1, SubSeqProperties
<1>3. SubSeq(w, k + 1, Len(w)) \in Seq(S)
  <2>1. /\ k + 1 \in Int /\ Len(w) \in Int
        /\ \A i \in k + 1..Len(w) : w[i] \in S
    BY <1>1
  <2> QED
    BY <2>1, SubSeqProperties
<1>4. SubSeq(w, 1, k) \o SubSeq(w, k + 1, Len(w)) = w
  <2>1. /\ 1 \in 1..Len(w) + 1 /\ k \in 1 - 1..Len(w)
        /\ Len(w) \in k..Len(w)
    BY <1>1
  <2>2. SubSeq(w, 1, k) \o SubSeq(w, k + 1, Len(w)) = SubSeq(w, 1, Len(w))
    BY <2>1, ConcatAdjacentSubSeq, Zenon
  <2> QED
    BY <2>2, SubSeqFull, Zenon
<1>5. (b \o SubSeq(w, 1, k)) \o SubSeq(w, k + 1, Len(w))
        = b \o (SubSeq(w, 1, k) \o SubSeq(w, k + 1, Len(w)))
  <2>1. \A u, v \in Seq(S) : (b \o u) \o v = b \o (u \o v)
    BY ConcatAssociative, SMTT(30)
  <2> QED
    BY <1>2, <1>3, <2>1, Zenon
<1> QED
  BY <1>2, <1>3, <1>4, <1>5, Zenon

\* The packet that is taken is the first one of the stream.
LEMMA TakesHead ==
  ASSUME NEW S, NEW b \in Seq(S), NEW w \in Seq(S), b # <<>>
  PROVE  /\ Tail(b) \in Seq(S) /\ Head(b) \in S
         /\ b \o w \in Seq(S) /\ b \o w # <<>>
         /\ Head(b \o w) = Head(b)
         /\ Tail(b \o w) = Tail(b) \o w
  OBVIOUS

\* Streams of one or two packets.
LEMMA Literal ==
  ASSUME NEW a, NEW b
  PROVE  /\ Head(<<a, b>>) = a /\ Tail(<<a, b>>) = <<b>>
         /\ Head(<<a>>) = a /\ Tail(<<a>>) = <<>>
         /\ Len(<<a, b>>) = 2 /\ <<a, b>>[1] = a /\ <<a, b>>[2] = b
         /\ Len(<<a>>) = 1 /\ <<a>>[1] = a
         /\ <<a, b>> # <<>> /\ <<a>> # <<>> /\ <<a>> # <<a, b>>
  OBVIOUS

\* The places in a sequence where P is; the lemmas count them.
Where(seq, P) == {i \in DOMAIN seq : seq[i] \in P}

LEMMA WhereFinite ==
  ASSUME NEW S, NEW s \in Seq(S), NEW P
  PROVE  /\ IsFiniteSet(Where(s, P)) /\ Cardinality(Where(s, P)) \in Nat
         /\ Where(s, P) \subseteq 1..Len(s) /\ Len(s) \in Nat
<1>1. Len(s) \in Nat /\ DOMAIN s = 1..Len(s)
  BY LenProperties
<1>2. Where(s, P) \subseteq 1..Len(s)
  BY <1>1 DEF Where
<1>3. IsFiniteSet(1..Len(s))
  BY <1>1, FS_Interval
<1>4. IsFiniteSet(Where(s, P))
  BY <1>2, <1>3, FS_Subset
<1> QED
  BY <1>1, <1>2, <1>4, FS_CardinalityType

LEMMA WhereConcat ==
  ASSUME NEW S, NEW s \in Seq(S), NEW t \in Seq(S), NEW P
  PROVE  Cardinality(Where(s \o t, P))
           = Cardinality(Where(s, P)) + Cardinality(Where(t, P))
<1> DEFINE A == Where(s, P)
           B == Where(t, P)
           C == {i \in Len(s) + 1..Len(s) + Len(t) : i - Len(s) \in B}
           f == [i \in B |-> i + Len(s)]
<1>1. IsFiniteSet(A) /\ IsFiniteSet(B) /\ A \subseteq 1..Len(s) /\ B \subseteq 1..Len(t)
      /\ Len(s) \in Nat /\ Len(t) \in Nat
  BY WhereFinite
<1>2. f \in Bijection(B, C)
  <2>1. f \in [B -> C]
    BY <1>1
  <2>2. \A i, j \in B : f[i] = f[j] => i = j
    BY <1>1
  <2>3. \A c \in C : \E i \in B : f[i] = c
    <3> SUFFICES ASSUME NEW c \in C PROVE \E i \in B : f[i] = c
      OBVIOUS
    <3>1. c - Len(s) \in B /\ f[c - Len(s)] = c
      BY <1>1
    <3> QED
      BY <3>1
  <2> QED
    BY <2>1, <2>2, <2>3 DEF Bijection, Injection, Surjection, IsInjective
<1>3. IsFiniteSet(C) /\ Cardinality(C) = Cardinality(B)
  BY <1>1, <1>2, FS_Bijection DEF ExistsBijection
<1>4. Where(s \o t, P) = A \cup C /\ A \cap C = {}
  BY <1>1, ConcatProperties, LenProperties DEF Where
<1>5. /\ Cardinality(A \cup C)
              = Cardinality(A) + Cardinality(C) - Cardinality(A \cap C)
      /\ Cardinality(A \cap C) = 0
      /\ Cardinality(A) \in Nat /\ Cardinality(C) \in Nat
  <2>1. Cardinality(A \cap C) = 0
    BY <1>4, FS_EmptySet
  <2> QED
    BY <1>1, <1>3, <2>1, FS_Union, FS_CardinalityType
<1> QED
  BY <1>3, <1>4, <1>5

LEMMA WhereOne ==
  ASSUME NEW x, NEW P
  PROVE  /\ Cardinality(Where(<<x>>, P)) = IF x \in P THEN 1 ELSE 0
         /\ Cardinality(Where(<<>>, P)) = 0
<1>1. DOMAIN <<x>> = {1} /\ <<x>>[1] = x
  OBVIOUS
<1>2. Where(<<x>>, P) = IF x \in P THEN {1} ELSE {}
  BY <1>1 DEF Where
<1>3. Where(<<>>, P) = {}
  BY DEF Where
<1> QED
  BY <1>2, <1>3, FS_EmptySet, FS_Singleton

LEMMA WhereTail ==
  ASSUME NEW S, NEW s \in Seq(S), s # <<>>, NEW P
  PROVE  Cardinality(Where(s, P))
           = Cardinality(Where(Tail(s), P)) + IF Head(s) \in P THEN 1 ELSE 0
<1>1. /\ <<Head(s)>> \in Seq(S) /\ Tail(s) \in Seq(S)
      /\ s = <<Head(s)>> \o Tail(s)
  OBVIOUS
<1>2. Cardinality(Where(Tail(s), P)) \in Nat
  BY <1>1, WhereFinite
<1>3. Cardinality(Where(<<Head(s)>> \o Tail(s), P))
        = Cardinality(Where(<<Head(s)>>, P)) + Cardinality(Where(Tail(s), P))
  BY <1>1, WhereConcat, Zenon
<1>4. Cardinality(Where(<<Head(s)>>, P)) = IF Head(s) \in P THEN 1 ELSE 0
  BY WhereOne
<1>5. Cardinality(Where(s, P))
        = Cardinality(Where(<<Head(s)>>, P)) + Cardinality(Where(Tail(s), P))
  BY <1>1, <1>3, Zenon
<1> QED
  BY <1>2, <1>4, <1>5

-----------------------------------------------------------------------------
(* The inductive invariant.                                                *)

\* What the client has sent and the server has not handled.
Stream == buffer \o wire

\* Each side's state, as far as it limits what is on the stream.
StreamInv ==
  /\ player <=> state = "Play"
  /\ state = "Handshaking" =>
       Stream \in {<<>>, <<Handshake("status"), Request>>,
                   <<Handshake("login"), LoginStart>>}
  /\ state = "Status" => Stream \in {<<>>, <<Request>>, <<Ping>>}
  /\ state = "Login" => Stream = <<LoginStart>>
  /\ state = "Play" => \A i \in 1..Len(Stream) : Stream[i].means = "Play"

\* How far client and server can be apart.
ModeInv ==
  /\ mode = "connecting" => state = "Handshaking" /\ Stream = <<>> /\ out = <<>>
  /\ mode = "status" =>
       \/ state = "Handshaking" /\ out = <<>>
            /\ Stream = <<Handshake("status"), Request>>
       \/ state = "Status" /\ Stream \in {<<Request>>, <<Ping>>} /\ out = <<>>
       \/ state = "Status" /\ Stream = <<>>
            /\ out \in {<<Message("Response")>>, <<Message("Pong")>>}
  /\ mode = "login" =>
       \/ state = "Handshaking" /\ out = <<>>
            /\ Stream = <<Handshake("login"), LoginStart>>
       \/ state = "Login" /\ out = <<>>
       \/ state = "Play" /\ Stream = <<>> /\ out = JoinSequence
  /\ mode = "play" =>
       state = "Play" /\ \A i \in 1..Len(out) : out[i].name # "Response"

\* All keep-alives of the connection; before a login there are none.
Total == Cardinality(Tokens(out)) + Cardinality(Echoes(Stream))

EchoInv ==
  /\ Total <= 1
  /\ mode # "closed" => Total = IF state = "Play" THEN 1 ELSE 0

\* The chunks that the client has or is being sent.
Covered == shown \cup UNION {Around(out[i].around) :
                               i \in {j \in 1..Len(out) : out[j].name = "Chunks"}}

\* The last step that is on its way leads to where the player stands.
LastStep ==
  \/ Steps(Stream) = {} /\ last = at
  \/ \E i \in Steps(Stream) :
       /\ Stream[i].data = at
       /\ \A j \in Steps(Stream) : j <= i

\* The player has, or is being sent, the window around the last chunk that the
\* server knows of, and the steps on their way lead to where it stands.
WindowInv ==
  /\ mode \in {"connecting", "status", "login"} => at = Spawn /\ last = Spawn
  /\ mode = "play" => Around(last) \subseteq Covered /\ LastStep

CInv == TypeOK /\ StreamInv /\ ModeInv /\ EchoInv /\ WindowInv

-----------------------------------------------------------------------------
(* Packets, messages, and the keep-alives among them.                     *)

LEMMA ClientPackets ==
  /\ Handshake("status") \in FromClient /\ Handshake("login") \in FromClient
  /\ Request \in FromClient /\ Ping \in FromClient
  /\ LoginStart \in FromClient /\ KeepAlive \in FromClient
  /\ \A id \in {4, 6}, c \in Chunks : Position(id, c) \in FromClient
  /\ \A p \in Deeds : p \in FromClient /\ p.id \notin {0, 4, 6} /\ p.means = "Play"
  /\ \A p \in FromClient : p.id \in {4, 6} => p.data \in Chunks
<1>1. \A id \in {4, 6}, c \in Chunks : Position(id, c) \in FromClient
  BY DEF FromClient, Moves
<1>2. \A p \in Deeds : p \in FromClient /\ p.id \notin {0, 4, 6} /\ p.means = "Play"
  BY DEF FromClient, Deeds, Packet
<1>3. ASSUME NEW p \in FromClient, p.id \in {4, 6}
      PROVE  p.data \in Chunks
  <2>1. CASE p \in Moves
    BY <2>1 DEF Moves, Position, Packet
  <2>2. p \notin Deeds
    BY <1>2, <1>3
  <2>3. p \notin {Handshake("status"), Handshake("login"), Request, Ping, LoginStart, KeepAlive}
    BY <1>3 DEF Handshake, Request, Ping, LoginStart, KeepAlive, Packet
  <2> QED
    BY <2>1, <2>2, <2>3 DEF FromClient
<1> QED
  BY <1>1, <1>2, <1>3 DEF FromClient

LEMMA ServerMessages ==
  /\ \A n \in {"Response", "Pong", "LoginSuccess", "JoinGame", "TabListEntry",
           "SpawnPosition", "PositionLook", "Inventory", "Chunks",
           "KeepAlive", "Chat", "BlockChange"} : Message(n) \in FromServer
  /\ \A c \in Chunks : ChunksAround(c) \in FromServer
  BY ConnectionAssumption DEF FromServer, Message, ChunksAround

LEMMA JoinMessages ==
  /\ JoinSequence \in Seq(FromServer)
  /\ JoinSequence # <<>>
  /\ Head(JoinSequence).name = "LoginSuccess"
  /\ Tail(JoinSequence) \in Seq(FromServer) /\ Len(Tail(JoinSequence)) = 7
  /\ Tail(JoinSequence)[6] = ChunksAround(Spawn)
  /\ \A i \in 1..7 : Tail(JoinSequence)[i].name # "Response"
  /\ Tokens(JoinSequence) = {8}
<1>1. JoinSequence \in Seq(FromServer)
  BY ServerMessages, ConnectionAssumption DEF JoinSequence
<1>2. Tokens(JoinSequence) = {8}
  BY DEF JoinSequence, Tokens, Message, ChunksAround
<1>3. Tail(JoinSequence) = 
     << Message("JoinGame"), Message("TabListEntry"),
     Message("SpawnPosition"), Message("PositionLook"), Message("Inventory"),
     ChunksAround(Spawn), Message("KeepAlive") >>
  BY DEF JoinSequence
<1> QED
  BY <1>1, <1>2, <1>3 DEF JoinSequence, Message, ChunksAround

TokenSet == {m \in FromServer : m.name = "KeepAlive"}
EchoSet == {p \in FromClient : p.id = 0 /\ p.means = "Play"}

LEMMA TokenCounts ==
  ASSUME NEW s \in Seq(FromServer)
  PROVE  /\ Cardinality(Tokens(s)) \in Nat
         /\ \A t \in Seq(FromServer) :
              Cardinality(Tokens(s \o t))
                = Cardinality(Tokens(s)) + Cardinality(Tokens(t))
         /\ s # <<>> =>
              Cardinality(Tokens(s)) = Cardinality(Tokens(Tail(s)))
                + IF Head(s).name = "KeepAlive" THEN 1 ELSE 0
<1>1. \A t \in Seq(FromServer) : Tokens(t) = Where(t, TokenSet)
  BY DEF Tokens, Where, TokenSet
<1>2. \A t \in Seq(FromServer) : s \o t \in Seq(FromServer)
  OBVIOUS
<1>3. s # <<>> => Tail(s) \in Seq(FromServer) /\ Head(s) \in FromServer
  OBVIOUS
<1>4. Cardinality(Tokens(s)) \in Nat
  BY <1>1, WhereFinite
<1>5. ASSUME NEW t \in Seq(FromServer)
      PROVE  Cardinality(Tokens(s \o t))
               = Cardinality(Tokens(s)) + Cardinality(Tokens(t))
  <2>1. Cardinality(Where(s \o t, TokenSet))
          = Cardinality(Where(s, TokenSet)) + Cardinality(Where(t, TokenSet))
    BY WhereConcat
  <2>2. Tokens(s \o t) = Where(s \o t, TokenSet)
    BY <1>1, <1>2
  <2> QED
    BY <1>1, <2>1, <2>2
<1>6. s # <<>> => Cardinality(Tokens(s)) = Cardinality(Tokens(Tail(s)))
                + IF Head(s) \in TokenSet THEN 1 ELSE 0
  BY <1>1, <1>3, WhereTail
<1> QED
  BY <1>3, <1>4, <1>5, <1>6 DEF TokenSet

LEMMA EchoCounts ==
  ASSUME NEW s \in Seq(FromClient)
  PROVE  /\ Cardinality(Echoes(s)) \in Nat
         /\ \A t \in Seq(FromClient) :
              Cardinality(Echoes(s \o t))
                = Cardinality(Echoes(s)) + Cardinality(Echoes(t))
         /\ s # <<>> =>
              Cardinality(Echoes(s)) = Cardinality(Echoes(Tail(s)))
                + IF Head(s).id = 0 /\ Head(s).means = "Play" THEN 1 ELSE 0
<1>1. \A t \in Seq(FromClient) : Echoes(t) = Where(t, EchoSet)
  BY DEF Echoes, Where, EchoSet
<1>2. \A t \in Seq(FromClient) : s \o t \in Seq(FromClient)
  OBVIOUS
<1>3. s # <<>> => Tail(s) \in Seq(FromClient) /\ Head(s) \in FromClient
  OBVIOUS
<1>4. Cardinality(Echoes(s)) \in Nat
  BY <1>1, WhereFinite
<1>5. ASSUME NEW t \in Seq(FromClient)
      PROVE  Cardinality(Echoes(s \o t))
               = Cardinality(Echoes(s)) + Cardinality(Echoes(t))
  <2>1. Cardinality(Where(s \o t, EchoSet))
          = Cardinality(Where(s, EchoSet)) + Cardinality(Where(t, EchoSet))
    BY WhereConcat
  <2>2. Echoes(s \o t) = Where(s \o t, EchoSet)
    BY <1>1, <1>2
  <2> QED
    BY <1>1, <2>1, <2>2
<1>6. s # <<>> => Cardinality(Echoes(s)) = Cardinality(Echoes(Tail(s)))
                + IF Head(s) \in EchoSet THEN 1 ELSE 0
  BY <1>1, <1>3, WhereTail
<1> QED
  BY <1>3, <1>4, <1>5, <1>6 DEF EchoSet

LEMMA SingleCounts ==
  /\ Cardinality(Tokens(<<>>)) = 0
  /\ Cardinality(Echoes(<<>>)) = 0
  /\ \A m : Cardinality(Tokens(<<m>>)) = IF m.name = "KeepAlive" THEN 1 ELSE 0
  /\ \A p : Cardinality(Echoes(<<p>>)) = IF p.id = 0 /\ p.means = "Play" THEN 1 ELSE 0
  /\ \A p, q : p.means # "Play" /\ q.means # "Play" => Cardinality(Echoes(<<p, q>>)) = 0
  /\ Cardinality(Tokens(JoinSequence)) = 1
<1>1. Tokens(<<>>) = {} /\ Echoes(<<>>) = {}
  BY DEF Tokens, Echoes
<1>2. \A m : Tokens(<<m>>) = IF m.name = "KeepAlive" THEN {1} ELSE {}
  BY DEF Tokens
<1>3. \A p : Echoes(<<p>>) = IF p.id = 0 /\ p.means = "Play" THEN {1} ELSE {}
  BY DEF Echoes
<1>4. \A p, q : p.means # "Play" /\ q.means # "Play" => Echoes(<<p, q>>) = {}
  BY DEF Echoes
<1>5. Cardinality({}) = 0 /\ Cardinality({1}) = 1 /\ Cardinality({8}) = 1
  BY FS_EmptySet, FS_Singleton
<1>6. Tokens(JoinSequence) = {8}
  BY JoinMessages
<1> QED
  BY <1>1, <1>2, <1>3, <1>4, <1>5, <1>6

-----------------------------------------------------------------------------
(* What the actions do to the stream and to what is sent.                 *)

LEMMA StreamType ==
  ASSUME TypeOK
  PROVE  Stream \in Seq(FromClient) /\ DOMAIN Stream = 1..Len(Stream) /\ Len(Stream) \in Nat
  BY DEF TypeOK, Stream

LEMMA TakeStream ==
  ASSUME TypeOK, NEW p, Take(p)
  PROVE  /\ p \in FromClient /\ Stream \in Seq(FromClient) /\ Stream # <<>>
         /\ p = Head(Stream) /\ Stream' = Tail(Stream)
         /\ buffer' \in Seq(FromClient) /\ Stream' \in Seq(FromClient)
<1>1. buffer \in Seq(FromClient) /\ wire \in Seq(FromClient) /\ buffer # <<>>
  BY DEF TypeOK, Take
<1>2. /\ Tail(buffer) \in Seq(FromClient) /\ Head(buffer) \in FromClient
      /\ buffer \o wire \in Seq(FromClient) /\ buffer \o wire # <<>>
      /\ Head(buffer \o wire) = Head(buffer)
      /\ Tail(buffer \o wire) = Tail(buffer) \o wire
  BY <1>1, TakesHead, Zenon
<1>3. Stream' = Tail(buffer) \o wire
  BY DEF Stream, Take
<1>4. Tail(buffer) \o wire \in Seq(FromClient)
  BY <1>1, <1>2
<1> QED
  BY <1>2, <1>3, <1>4 DEF Stream, Take

LEMMA TakeCounts ==
  ASSUME TypeOK, NEW p, Take(p)
  PROVE  /\ Cardinality(Echoes(Stream')) \in Nat
         /\ Cardinality(Echoes(Stream)) = Cardinality(Echoes(Stream'))
                + IF p.id = 0 /\ p.means = "Play" THEN 1 ELSE 0
<1>1. /\ Stream \in Seq(FromClient) /\ Stream # <<>> /\ p = Head(Stream)
      /\ Stream' = Tail(Stream) /\ Stream' \in Seq(FromClient)
  BY TakeStream, Zenon
<1>2. Cardinality(Echoes(Stream')) \in Nat
  BY <1>1, EchoCounts
<1>3. Cardinality(Echoes(Stream)) = Cardinality(Echoes(Tail(Stream)))
        + IF Head(Stream).id = 0 /\ Head(Stream).means = "Play" THEN 1 ELSE 0
  BY <1>1, EchoCounts
<1> QED
  BY <1>1, <1>2, <1>3

\* Taking a step may make it the last one that the server knows of.
LEMMA TakeWindow ==
  ASSUME TypeOK, NEW p, Take(p), LastStep,
         last' = IF p.id \in {4, 6} THEN p.data ELSE last
  PROVE  LastStep'
<1>1. /\ Stream \in Seq(FromClient) /\ Stream # <<>> /\ p = Head(Stream)
      /\ Stream' = Tail(Stream) /\ at' = at
  <2>1. at' = at
    BY DEF Take, clientVars
  <2> QED
    BY <2>1, TakeStream, Zenon
<1>2. /\ Len(Stream) \in Nat /\ Len(Stream') = Len(Stream) - 1
      /\ DOMAIN Stream = 1..Len(Stream) /\ DOMAIN Stream' = 1..Len(Stream) - 1
      /\ \A i \in 1..Len(Stream) - 1 : Stream'[i] = Stream[i + 1]
      /\ p = Stream[1] /\ 1 \in DOMAIN Stream
  BY <1>1
<1>3. Steps(Stream) \subseteq 1..Len(Stream) /\ Steps(Stream)' \subseteq 1..Len(Stream) - 1
  BY <1>2 DEF Steps
<1>4. \A i \in 1..Len(Stream) - 1 : i \in Steps(Stream)' <=> i + 1 \in Steps(Stream)
  BY <1>2 DEF Steps
<1>5. 1 \in Steps(Stream) <=> p.id \in {4, 6}
  BY <1>2 DEF Steps
<1>6. CASE Steps(Stream) = {} /\ last = at
  BY <1>1, <1>3, <1>4, <1>5, <1>6 DEF LastStep
<1>7. CASE \E i \in Steps(Stream) :
             /\ Stream[i].data = at
             /\ \A j \in Steps(Stream) : j <= i
  <2> PICK i \in Steps(Stream) :
             /\ Stream[i].data = at
             /\ \A j \in Steps(Stream) : j <= i
    BY <1>7
  <2>1. CASE i = 1
    <3>1. Steps(Stream)' = {}
      BY <1>2, <1>3, <1>4, <2>1
    <3>2. last' = at'
      BY <1>1, <1>2, <1>5, <2>1
    <3> QED
      BY <3>1, <3>2 DEF LastStep
  <2>2. CASE i # 1
    <3>1. i - 1 \in 1..Len(Stream) - 1 /\ (i - 1) + 1 = i
      BY <1>2, <1>3, <2>2
    <3>2. i - 1 \in Steps(Stream)' /\ Stream'[i - 1].data = at'
      BY <1>1, <1>2, <1>4, <3>1
    <3>3. \A j \in Steps(Stream)' : j <= i - 1
      BY <1>2, <1>3, <1>4
    <3> QED
      BY <3>2, <3>3 DEF LastStep
  <2> QED
    BY <2>1, <2>2
<1> QED
  BY <1>6, <1>7 DEF LastStep

\* What the client sends goes to the end of the stream.
LEMMA SendStream ==
  ASSUME TypeOK, NEW ps \in Seq(FromClient), ClientSends(ps), buffer' = buffer
  PROVE  /\ wire' \in Seq(FromClient) /\ Stream' = Stream \o ps
         /\ Stream' \in Seq(FromClient)
         /\ Cardinality(Echoes(Stream)) \in Nat
         /\ Cardinality(Echoes(Stream'))
              = Cardinality(Echoes(Stream)) + Cardinality(Echoes(ps))
<1>1. wire' = wire \o ps /\ wire' \in Seq(FromClient)
  BY DEF TypeOK, ClientSends
<1>2. Stream' = buffer \o (wire \o ps)
  BY <1>1 DEF Stream
<1>3. Stream' = Stream \o ps
  <2>1. \A u, v, w \in Seq(FromClient) : (u \o v) \o w = u \o (v \o w)
    BY ConcatAssociative
  <2> QED
    BY <1>2, <2>1 DEF Stream, TypeOK
<1>4. Stream \in Seq(FromClient) /\ Stream' \in Seq(FromClient)
  BY <1>3, StreamType
<1> QED
  BY <1>1, <1>3, <1>4, EchoCounts

\* What the server sends is on its way, unless the client has gone.
LEMMA ServerSends ==
  ASSUME TypeOK, NEW ms \in Seq(FromServer), Sends(ms), mode' = mode, shown' = shown
  PROVE  /\ out' \in Seq(FromServer)
         /\ Cardinality(Tokens(out)) \in Nat
         /\ Cardinality(Tokens(out')) =
               IF mode = "closed" THEN Cardinality(Tokens(out))
               ELSE Cardinality(Tokens(out)) + Cardinality(Tokens(ms))
         /\ Covered \subseteq Covered'
         /\ mode # "closed" =>
              \A i \in 1..Len(ms) : ms[i].name = "Chunks" =>
                Around(ms[i].around) \subseteq Covered'
         /\ (/\ \A i \in 1..Len(out) : out[i].name # "Response"
             /\ \A i \in 1..Len(ms) : ms[i].name # "Response")
            => \A i \in 1..Len(out') : out'[i].name # "Response"
<1> USE DEF Sends
<1>1. out \in Seq(FromServer) /\ out' \in Seq(FromServer) /\ out \o ms \in Seq(FromServer)
  BY DEF TypeOK
<1>2. CASE mode = "closed"
  <2>1. out' = out /\ Covered' = Covered
    BY <1>2 DEF Covered
  <2> QED
    BY <1>1, <1>2, <2>1, TokenCounts
<1>3. CASE mode # "closed"
  <2>1. out' = out \o ms
    BY <1>3
  <2>2. /\ Len(out) \in Nat /\ Len(ms) \in Nat /\ Len(out') = Len(out) + Len(ms)
        /\ \A i \in 1..Len(out) : out'[i] = out[i]
        /\ \A i \in 1..Len(ms) : out'[Len(out) + i] = ms[i]
        /\ \A i \in 1..Len(out') : i \in 1..Len(out) \/ i - Len(out) \in 1..Len(ms)
    BY <1>1, <2>1
  <2>3. Covered \subseteq Covered'
    BY <2>2 DEF Covered
  <2>4. ASSUME NEW i \in 1..Len(ms), ms[i].name = "Chunks"
        PROVE  Around(ms[i].around) \subseteq Covered'
    <3>1. Len(out) + i \in 1..Len(out') /\ out'[Len(out) + i] = ms[i]
      BY <2>2
    <3> QED
      BY <2>4, <3>1 DEF Covered
  <2>5. Cardinality(Tokens(out')) = Cardinality(Tokens(out)) + Cardinality(Tokens(ms))
        /\ Cardinality(Tokens(out)) \in Nat
    BY <1>1, <2>1, TokenCounts
  <2>6. (/\ \A i \in 1..Len(out) : out[i].name # "Response"
         /\ \A i \in 1..Len(ms) : ms[i].name # "Response")
            => \A i \in 1..Len(out') : out'[i].name # "Response"
    <3> SUFFICES ASSUME \A i \in 1..Len(out) : out[i].name # "Response",
                        \A i \in 1..Len(ms) : ms[i].name # "Response",
                        NEW i \in 1..Len(out')
                 PROVE  out'[i].name # "Response"
      OBVIOUS
    <3>1. CASE i \in 1..Len(out)
      BY <2>2, <3>1
    <3>2. CASE i - Len(out) \in 1..Len(ms)
      <4>1. out'[Len(out) + (i - Len(out))] = ms[i - Len(out)]
        BY <2>2, <3>2
      <4>2. Len(out) + (i - Len(out)) = i
        BY <2>2
      <4> QED
        BY <3>2, <4>1, <4>2
    <3> QED
      BY <2>2, <3>1, <3>2
  <2> QED
    BY <1>1, <1>3, <2>3, <2>4, <2>5, <2>6
<1> QED
  BY <1>2, <1>3

-----------------------------------------------------------------------------
(* The first state, and the steps that change nothing on the stream.      *)

LEMMA Empty ==
  /\ <<>> \in Seq(FromClient) /\ <<>> \in Seq(FromServer)
  /\ {} \subseteq UNION {Around(c) : c \in Chunks}
  /\ Spawn \in Chunks /\ 0 \in 0..MaxActs
  BY ConnectionAssumption

LEMMA Initially == Init => CInv
<1> SUFFICES ASSUME Init PROVE CInv
  OBVIOUS
<1>1. TypeOK
  BY Empty DEF Init, TypeOK, States
<1>2. Stream = <<>> /\ out = <<>>
  BY DEF Init, Stream
<1>3. Total = 0
  BY <1>2, SingleCounts DEF Total
<1> QED
  BY <1>1, <1>2, <1>3 DEF Init, CInv, StreamInv, ModeInv, EchoInv, WindowInv

LEMMA NextClientStarts ==
  ASSUME NextClient PROVE CInv'
<1>1. TypeOK'
  BY Empty DEF NextClient, TypeOK, States
<1>2. Stream' = <<>> /\ out' = <<>>
  BY DEF NextClient, Stream
<1>3. Total' = 0
  BY <1>2, SingleCounts DEF Total
<1> QED
  BY <1>1, <1>2, <1>3
  DEF NextClient, CInv, StreamInv, ModeInv, EchoInv, WindowInv

LEMMA Quiet ==
  ASSUME CInv, TypeOK', Stream' = Stream, UNCHANGED <<serverVars, out, clientVars>>
  PROVE  CInv'
  BY DEF CInv, StreamInv, ModeInv, EchoInv, Total, WindowInv, LastStep,
         Covered, serverVars, clientVars

LEMMA ReadBytesKeeps ==
  ASSUME CInv, ReadBytes PROVE CInv'
<1> PICK k \in 0..Burst, more \in BOOLEAN :
       /\ k <= Len(wire)
       /\ buffer' = buffer \o SubSeq(wire, 1, k)
       /\ wire' = SubSeq(wire, k + 1, Len(wire))
       /\ begun' = more
  BY DEF ReadBytes
<1>1. buffer \in Seq(FromClient) /\ wire \in Seq(FromClient) /\ k \in 0..Len(wire)
  BY ConnectionAssumption DEF CInv, TypeOK
<1>2. /\ SubSeq(wire, 1, k) \in Seq(FromClient)
      /\ wire' \in Seq(FromClient)
      /\ Stream' = Stream
  BY <1>1, ReadMoves, ZenonT(40) DEF Stream
<1>3. buffer' \in Seq(FromClient)
  BY <1>1, <1>2
<1>4. TypeOK'
  BY <1>2, <1>3 DEF CInv, TypeOK, ReadBytes, serverVars, clientVars
<1> QED
  BY <1>2, <1>4, Quiet DEF ReadBytes

LEMMA ReadEndKeeps ==
  ASSUME CInv, ReadEnd \/ NoPacket PROVE CInv'
<1>1. TypeOK'
  BY DEF CInv, TypeOK, ReadEnd, NoPacket, serverVars, clientVars
<1>2. Stream' = Stream
  BY DEF Stream, ReadEnd, NoPacket
<1> QED
  BY <1>1, <1>2, Quiet DEF ReadEnd, NoPacket

LEMMA StutterKeeps ==
  ASSUME CInv, UNCHANGED vars PROVE CInv'
<1>1. TypeOK'
  BY DEF CInv, TypeOK, vars
<1>2. Stream' = Stream
  BY DEF Stream, vars
<1> QED
  BY <1>1, <1>2, Quiet DEF vars, serverVars, clientVars

LEMMA QuitKeeps ==
  ASSUME CInv, Quit PROVE CInv'
<1>1. TypeOK'
  BY DEF CInv, TypeOK, Quit, serverVars
<1>2. Stream' = Stream
  BY DEF Stream, Quit
<1> QED
  BY <1>1, <1>2
  DEF CInv, Quit, StreamInv, ModeInv, EchoInv, Total, WindowInv, serverVars

\* The client's first two packets are all that there is on the stream.
LEMMA AskKeeps ==
  ASSUME CInv, AskStatus \/ AskLogin PROVE CInv'
<1> DEFINE ps == IF mode' = "status" THEN <<Handshake("status"), Request>>
                           ELSE <<Handshake("login"), LoginStart>>
<1>1. /\ mode = "connecting" /\ mode' \in {"status", "login"}
      /\ ClientSends(ps) /\ buffer' = buffer /\ ps \in Seq(FromClient)
      /\ UNCHANGED <<state, player, last, pc, begun, out, at, shown, acts>>
  BY ClientPackets DEF AskStatus, AskLogin, serverVars
<1>2. /\ Stream = <<>> /\ out = <<>> /\ state = "Handshaking"
  BY <1>1 DEF CInv, ModeInv
<1>3. wire' \in Seq(FromClient) /\ Stream' = <<>> \o ps
  BY <1>1, <1>2, SendStream DEF CInv
<1>4. Stream' = ps
  BY <1>1, <1>3
<1>5. TypeOK'
  BY <1>1, <1>3 DEF CInv, TypeOK
<1>6. Total' = 0
  <2>1. Cardinality(Echoes(ps)) = 0
    BY SingleCounts DEF Handshake, Request, LoginStart, Packet
  <2> QED
    BY <1>1, <1>2, <1>4, <2>1, SingleCounts DEF Total
<1> QED
  BY <1>1, <1>2, <1>4, <1>5, <1>6
  DEF CInv, StreamInv, ModeInv, EchoInv, WindowInv

-----------------------------------------------------------------------------
(* The client.                                                             *)

LEMMA SendOne ==
  ASSUME TypeOK, NEW p \in FromClient, ClientSends(<<p>>), buffer' = buffer
  PROVE  /\ wire' \in Seq(FromClient) /\ Stream' \in Seq(FromClient)
         /\ Len(Stream) \in Nat /\ Len(Stream') = Len(Stream) + 1
         /\ \A i \in 1..Len(Stream) : Stream'[i] = Stream[i]
         /\ Stream'[Len(Stream) + 1] = p
         /\ Steps(Stream) \subseteq 1..Len(Stream)
         /\ Steps(Stream)' = Steps(Stream)
              \cup IF p.id \in {4, 6} THEN {Len(Stream) + 1} ELSE {}
         /\ Cardinality(Echoes(Stream)) \in Nat
         /\ Cardinality(Echoes(Stream')) = Cardinality(Echoes(Stream))
              + IF p.id = 0 /\ p.means = "Play" THEN 1 ELSE 0
<1>1. <<p>> \in Seq(FromClient) /\ Stream \in Seq(FromClient)
  BY StreamType
<1>2. /\ wire' \in Seq(FromClient) /\ Stream' = Stream \o <<p>>
      /\ Stream' \in Seq(FromClient)
      /\ Cardinality(Echoes(Stream)) \in Nat
      /\ Cardinality(Echoes(Stream'))
           = Cardinality(Echoes(Stream)) + Cardinality(Echoes(<<p>>))
  BY <1>1, SendStream, Zenon
<1>3. /\ Len(Stream) \in Nat /\ Len(Stream') = Len(Stream) + 1
      /\ DOMAIN Stream = 1..Len(Stream) /\ DOMAIN Stream' = 1..Len(Stream) + 1
      /\ \A i \in 1..Len(Stream) : Stream'[i] = Stream[i]
      /\ Stream'[Len(Stream) + 1] = p
  BY <1>1, <1>2
<1>4. /\ Steps(Stream) \subseteq 1..Len(Stream)
      /\ Steps(Stream)' = Steps(Stream)
           \cup IF p.id \in {4, 6} THEN {Len(Stream) + 1} ELSE {}
  BY <1>3 DEF Steps
<1>5. Cardinality(Echoes(<<p>>)) = IF p.id = 0 /\ p.means = "Play" THEN 1 ELSE 0
  BY SingleCounts
<1> QED
  BY <1>2, <1>3, <1>4, <1>5

\* A packet of the player's: a step, which is the last one, or a deed.
LEMMA PlayerKeeps ==
  ASSUME CInv, mode = "play", NEW p \in FromClient, p.means = "Play", p.id # 0,
         ClientSends(<<p>>), acts' \in 0..MaxActs, at' \in Chunks,
         IF p.id \in {4, 6} THEN p.data = at' ELSE at' = at,
         UNCHANGED <<serverVars, pc, buffer, begun, out, mode, shown>>
  PROVE  CInv'
<1>1. TypeOK /\ buffer' = buffer
  BY DEF CInv
<1>2. /\ wire' \in Seq(FromClient) /\ Stream' \in Seq(FromClient)
      /\ Len(Stream) \in Nat /\ Len(Stream') = Len(Stream) + 1
      /\ \A i \in 1..Len(Stream) : Stream'[i] = Stream[i]
      /\ Stream'[Len(Stream) + 1] = p
      /\ Steps(Stream) \subseteq 1..Len(Stream)
      /\ Steps(Stream)' = Steps(Stream)
           \cup IF p.id \in {4, 6} THEN {Len(Stream) + 1} ELSE {}
      /\ Cardinality(Echoes(Stream')) = Cardinality(Echoes(Stream))
  BY <1>1, SendOne
<1>3. TypeOK'
  BY <1>1, <1>2 DEF TypeOK, serverVars
<1>4. state = "Play" /\ state' = "Play" /\ player' = player /\ mode' = "play"
  BY DEF CInv, ModeInv, serverVars
<1>5. StreamInv'
  BY <1>2, <1>4 DEF CInv, StreamInv
<1>6. ModeInv'
  BY <1>4 DEF CInv, ModeInv
<1>7. EchoInv'
  BY <1>2, <1>4 DEF CInv, EchoInv, Total
<1>8. LastStep'
  <2>1. CASE p.id \in {4, 6}
    BY <1>2, <2>1 DEF LastStep
  <2>2. CASE p.id \notin {4, 6}
    BY <1>2, <2>2 DEF CInv, WindowInv, LastStep, serverVars
  <2> QED
    BY <2>1, <2>2
<1>9. WindowInv'
  BY <1>4, <1>8 DEF CInv, WindowInv, Covered, serverVars
<1> QED
  BY <1>3, <1>5, <1>6, <1>7, <1>9 DEF CInv

LEMMA WalkKeeps ==
  ASSUME CInv, NEW id \in {4, 6}, NEW c \in Chunks, Walk(id, c)
  PROVE  CInv'
<1>1. /\ Position(id, c) \in FromClient /\ Position(id, c).means = "Play"
      /\ Position(id, c).id = id /\ Position(id, c).data = c
  BY ClientPackets DEF Position, Packet
<1>2. acts' \in 0..MaxActs
  BY ConnectionAssumption DEF CInv, TypeOK, Walk
<1> QED
  BY <1>1, <1>2, PlayerKeeps DEF Walk

LEMMA ActKeeps ==
  ASSUME CInv, NEW p \in Deeds, Act(p)
  PROVE  CInv'
<1>1. /\ p \in FromClient /\ p.means = "Play" /\ p.id \notin {0, 4, 6}
  BY ClientPackets
<1>2. acts' \in 0..MaxActs /\ at' \in Chunks
  BY ConnectionAssumption DEF CInv, TypeOK, Act
<1> QED
  BY <1>1, <1>2, PlayerKeeps DEF Act

\* The three modes in which the client receives.
LEMMA ReceiveStatus ==
  ASSUME CInv, Receive, mode = "status"
  PROVE  CInv'
<1>1. /\ state = "Status" /\ Stream = <<>>
      /\ out \in {<<Message("Response")>>, <<Message("Pong")>>}
  BY DEF CInv, ModeInv, Receive
<1>2. /\ out' = <<>> /\ shown' = shown
      /\ UNCHANGED <<serverVars, pc, buffer, begun, at, acts>>
      /\ Cardinality(Tokens(out)) = 0
  BY <1>1, SingleCounts, Literal, SMTT(30) DEF Receive, Message
<1>3. Cardinality(Echoes(Stream)) = 0
  BY <1>1, SingleCounts
<1>4. CASE out = <<Message("Response")>>
  <2>1. mode' = "status" /\ ClientSends(<<Ping>>)
    BY <1>4 DEF Receive, Message
  <2>2. TypeOK /\ Ping \in FromClient /\ <<Ping>> \in Seq(FromClient) /\ buffer' = buffer
    BY <1>2, ClientPackets DEF CInv
  <2>3. wire' \in Seq(FromClient) /\ Stream' = Stream \o <<Ping>>
    BY <2>1, <2>2, SendStream
  <2>4. Stream' = <<Ping>>
    BY <1>1, <2>3
  <2>5. TypeOK'
    BY <1>2, <2>1, <2>2, <2>3, Empty DEF TypeOK, serverVars
  <2>6. Total' = 0
    BY <1>2, <2>4, SingleCounts DEF Total, Ping, Packet
  <2> QED
    BY <1>1, <1>2, <2>1, <2>4, <2>5, <2>6
    DEF CInv, StreamInv, ModeInv, EchoInv, WindowInv, serverVars
<1>5. CASE out = <<Message("Pong")>>
  <2>1. mode' = "closed" /\ ClientSends(<<>>)
    BY <1>5 DEF Receive, Message
  <2>2. wire' = wire /\ Stream' = Stream
    BY <1>2, <2>1 DEF ClientSends, CInv, TypeOK, Stream
  <2>3. TypeOK'
    BY <1>2, <2>1, <2>2, Empty DEF CInv, TypeOK, serverVars
  <2>4. Total' = 0
    BY <1>2, <1>3, <2>2, SingleCounts DEF Total
  <2> QED
    BY <1>1, <1>2, <2>1, <2>2, <2>3, <2>4
    DEF CInv, StreamInv, ModeInv, EchoInv, WindowInv, serverVars
<1> QED
  BY <1>1, <1>4, <1>5

LEMMA ReceiveLogin ==
  ASSUME CInv, Receive, mode = "login"
  PROVE  CInv'
<1>1. state = "Play" /\ Stream = <<>> /\ out = JoinSequence
  BY DEF CInv, ModeInv, Receive
<1>2. /\ Head(out).name = "LoginSuccess"
      /\ out' = Tail(JoinSequence) /\ shown' = shown /\ mode' = "play"
      /\ ClientSends(<<>>)
      /\ UNCHANGED <<serverVars, pc, buffer, begun, at, acts>>
  BY <1>1, JoinMessages DEF Receive
<1>3. wire' = wire /\ Stream' = Stream
  BY <1>2 DEF ClientSends, CInv, TypeOK, Stream
<1>4. TypeOK'
  BY <1>2, <1>3, JoinMessages DEF CInv, TypeOK, serverVars
<1>5. StreamInv' /\ ModeInv'
  BY <1>1, <1>2, <1>3, JoinMessages DEF CInv, StreamInv, ModeInv, serverVars
<1>6. Total' = 1
  <2>1. /\ Cardinality(Tokens(JoinSequence)) = Cardinality(Tokens(Tail(JoinSequence)))
              + IF Head(JoinSequence).name = "KeepAlive" THEN 1 ELSE 0
        /\ Cardinality(Tokens(Tail(JoinSequence))) \in Nat
    BY JoinMessages, TokenCounts
  <2>2. Cardinality(Tokens(Tail(JoinSequence))) = 1
    BY <2>1, JoinMessages, SingleCounts
  <2> QED
    BY <1>1, <1>2, <1>3, <2>2, SingleCounts DEF Total
<1>7. EchoInv'
  BY <1>1, <1>2, <1>6 DEF EchoInv, serverVars
<1>8. LastStep'
  BY <1>1, <1>2, <1>3 DEF CInv, WindowInv, LastStep, Steps, serverVars
<1>9. Around(last') \subseteq Covered'
  <2>1. 6 \in 1..Len(out') /\ out'[6] = ChunksAround(Spawn)
    <3>1. /\ Len(Tail(JoinSequence)) = 7
          /\ Tail(JoinSequence)[6] = ChunksAround(Spawn)
      BY JoinMessages
    <3>2. Len(out') = 7 /\ out'[6] = ChunksAround(Spawn)
      BY <1>2, <3>1, Zenon
    <3> QED
      BY <3>2
  <2>2. last' = Spawn
    BY <1>2 DEF CInv, WindowInv, serverVars
  <2> QED
    BY <2>1, <2>2 DEF Covered, ChunksAround
<1> QED
  BY <1>2, <1>4, <1>5, <1>7, <1>8, <1>9 DEF CInv, WindowInv

\* What a message brings is no longer on its way, but there.
LEMMA ReceiveCovers ==
  ASSUME TypeOK, Receive
  PROVE  /\ out \in Seq(FromServer) /\ out' \in Seq(FromServer) /\ Head(out) \in FromServer
         /\ \A i \in 1..Len(out') : \E j \in 1..Len(out) : out'[i] = out[j]
         /\ Cardinality(Tokens(out')) \in Nat
         /\ Cardinality(Tokens(out)) = Cardinality(Tokens(out'))
              + IF Head(out).name = "KeepAlive" THEN 1 ELSE 0
         /\ shown' \subseteq UNION {Around(c) : c \in Chunks}
         /\ Covered \subseteq Covered'
<1>1. /\ out \in Seq(FromServer) /\ out # <<>> /\ out' = Tail(out)
      /\ out' \in Seq(FromServer) /\ Head(out) \in FromServer
  BY DEF TypeOK, Receive
<1>2. /\ Len(out) \in Nat /\ Len(out') = Len(out) - 1 /\ Head(out) = out[1]
      /\ \A i \in 1..Len(out') : out'[i] = out[i + 1]
  BY <1>1
<1>3. Cardinality(Tokens(out')) \in Nat
  BY <1>1, TokenCounts
<1>4. Cardinality(Tokens(out)) = Cardinality(Tokens(Tail(out)))
              + IF Head(out).name = "KeepAlive" THEN 1 ELSE 0
  BY <1>1, TokenCounts
<1>5. shown' = IF Head(out).name = "Chunks" THEN shown \cup Around(Head(out).around)
                                           ELSE shown
  BY DEF Receive
<1>6. shown' \subseteq UNION {Around(c) : c \in Chunks}
  <2>1. Head(out).around \in Chunks
    BY <1>1 DEF FromServer
  <2> QED
    BY <1>5, <2>1 DEF TypeOK
<1>7. ASSUME NEW i \in 1..Len(out), out[i].name = "Chunks"
      PROVE  Around(out[i].around) \subseteq Covered'
  <2>1. CASE i = 1
    BY <1>2, <1>5, <1>7, <2>1 DEF Covered
  <2>2. CASE i # 1
    <3>1. i - 1 \in 1..Len(out') /\ out'[i - 1] = out[i]
      BY <1>2, <2>2
    <3> QED
      BY <1>7, <3>1 DEF Covered
  <2> QED
    BY <2>1, <2>2
<1>8. Covered \subseteq Covered'
  BY <1>5, <1>7 DEF Covered
<1>9. \A i \in 1..Len(out') : \E j \in 1..Len(out) : out'[i] = out[j]
  BY <1>2
<1> QED
  BY <1>1, <1>3, <1>4, <1>6, <1>8, <1>9

LEMMA ReceivePlay ==
  ASSUME CInv, Receive, mode = "play"
  PROVE  CInv'
<1>1. TypeOK /\ out \in Seq(FromServer) /\ out # <<>> /\ state = "Play"
  BY DEF CInv, TypeOK, ModeInv, Receive
<1>2. /\ UNCHANGED <<serverVars, pc, buffer, begun, at, acts>>
      /\ Head(out).name # "Response"
      /\ mode' \in {"play", "closed"}
      /\ ClientSends(IF Head(out).name = "KeepAlive" THEN <<KeepAlive>> ELSE <<>>)
  <2>1. Head(out) = out[1] /\ 1 \in 1..Len(out)
    BY <1>1
  <2>2. Head(out).name # "Response"
    BY <2>1 DEF CInv, ModeInv
  <2> QED
    BY <2>2 DEF Receive
<1>3. /\ out' \in Seq(FromServer) /\ Head(out) \in FromServer
      /\ \A i \in 1..Len(out') : \E j \in 1..Len(out) : out'[i] = out[j]
      /\ Cardinality(Tokens(out')) \in Nat
      /\ Cardinality(Tokens(out)) = Cardinality(Tokens(out'))
            + IF Head(out).name = "KeepAlive" THEN 1 ELSE 0
      /\ shown' \subseteq UNION {Around(c) : c \in Chunks}
      /\ Covered \subseteq Covered'
  BY <1>1, ReceiveCovers, Zenon
<1>4. state' = "Play" /\ player' = player /\ last' = last /\ at' = at
  BY <1>1, <1>2 DEF serverVars
<1>5. ModeInv'
  BY <1>2, <1>3, <1>4 DEF CInv, ModeInv
<1>6. CASE Head(out).name = "KeepAlive"
  <2>1. ClientSends(<<KeepAlive>>) /\ KeepAlive \in FromClient /\ buffer' = buffer
        /\ KeepAlive.id = 0 /\ KeepAlive.means = "Play"
    BY <1>2, <1>6, ClientPackets DEF KeepAlive, Packet
  <2>2. /\ wire' \in Seq(FromClient) /\ Stream' \in Seq(FromClient)
        /\ Len(Stream) \in Nat /\ Len(Stream') = Len(Stream) + 1
        /\ \A i \in 1..Len(Stream) : Stream'[i] = Stream[i]
        /\ Stream'[Len(Stream) + 1] = KeepAlive
        /\ Steps(Stream) \subseteq 1..Len(Stream)
        /\ Steps(Stream)' = Steps(Stream)
        /\ Cardinality(Echoes(Stream)) \in Nat
        /\ Cardinality(Echoes(Stream')) = Cardinality(Echoes(Stream)) + 1
    <3>1. /\ wire' \in Seq(FromClient) /\ Stream' \in Seq(FromClient)
          /\ Len(Stream) \in Nat /\ Len(Stream') = Len(Stream) + 1
          /\ \A i \in 1..Len(Stream) : Stream'[i] = Stream[i]
          /\ Stream'[Len(Stream) + 1] = KeepAlive
          /\ Steps(Stream) \subseteq 1..Len(Stream)
          /\ Steps(Stream)' = Steps(Stream)
               \cup IF KeepAlive.id \in {4, 6} THEN {Len(Stream) + 1} ELSE {}
          /\ Cardinality(Echoes(Stream)) \in Nat
          /\ Cardinality(Echoes(Stream')) = Cardinality(Echoes(Stream))
               + IF KeepAlive.id = 0 /\ KeepAlive.means = "Play" THEN 1 ELSE 0
      BY <1>1, <2>1, SendOne, Zenon
    <3> QED
      BY <2>1, <3>1
  <2>3. TypeOK'
    BY <1>1, <1>2, <1>3, <2>2 DEF TypeOK, serverVars
  <2>4. StreamInv'
    BY <1>1, <1>4, <2>1, <2>2, SMTT(30) DEF CInv, StreamInv
  <2>5. EchoInv'
    BY <1>1, <1>3, <1>4, <1>6, <2>2 DEF CInv, EchoInv, Total
  <2>6. WindowInv'
    BY <1>1, <1>2, <1>3, <1>4, <2>2 DEF CInv, WindowInv, LastStep
  <2> QED
    BY <1>5, <2>3, <2>4, <2>5, <2>6 DEF CInv
<1>7. CASE Head(out).name # "KeepAlive"
  <2>1. wire' = wire /\ Stream' = Stream /\ buffer' = buffer
    BY <1>1, <1>2, <1>7 DEF ClientSends, TypeOK, Stream
  <2>2. TypeOK'
    BY <1>1, <1>2, <1>3, <2>1 DEF TypeOK, serverVars
  <2>3. StreamInv'
    BY <1>1, <1>4, <2>1 DEF CInv, StreamInv
  <2>4. EchoInv'
    BY <1>1, <1>3, <1>4, <1>7, <2>1 DEF CInv, EchoInv, Total
  <2>5. WindowInv'
    BY <1>1, <1>2, <1>3, <1>4, <2>1 DEF CInv, WindowInv, LastStep
  <2> QED
    BY <1>5, <2>2, <2>3, <2>4, <2>5 DEF CInv
<1> QED
  BY <1>6, <1>7

-----------------------------------------------------------------------------
(* The handlers.                                                           *)

LEMMA HandshakeKeeps ==
  ASSUME CInv, HandleHandshake
  PROVE  CInv'
<1> PICK p \in FromClient :
      /\ Take(p) /\ state = "Handshaking"
      /\ state' = CASE p.data = "status" -> "Status"
                    [] p.data = "login" -> "Login"
                    [] OTHER -> state
      /\ UNCHANGED <<player, last, out>>
  BY DEF HandleHandshake
<1>1. TypeOK /\ UNCHANGED <<wire, begun, mode, at, shown, acts>> /\ pc' = "read"
  BY DEF CInv, Take, clientVars
<1>2. /\ Stream # <<>> /\ p = Head(Stream) /\ Stream' = Tail(Stream)
      /\ buffer' \in Seq(FromClient)
  BY <1>1, TakeStream, Zenon
<1>3. \/ /\ Stream = <<Handshake("status"), Request>>
         /\ Stream' = <<Request>> /\ state' = "Status"
      \/ /\ Stream = <<Handshake("login"), LoginStart>>
         /\ Stream' = <<LoginStart>> /\ state' = "Login"
  <2>1. Stream \in {<<Handshake("status"), Request>>, <<Handshake("login"), LoginStart>>}
    BY <1>2 DEF CInv, StreamInv
  <2>2. CASE Stream = <<Handshake("status"), Request>>
    BY <1>2, <2>2, Literal DEF Handshake, Packet
  <2>3. CASE Stream = <<Handshake("login"), LoginStart>>
    BY <1>2, <2>3, Literal DEF Handshake, Packet
  <2> QED
    BY <2>1, <2>2, <2>3
<1>4. TypeOK'
  BY <1>1, <1>2, <1>3 DEF TypeOK, States
<1>5. StreamInv'
  BY <1>1, <1>3 DEF CInv, StreamInv
<1>6. Handshake("status") # Handshake("login")
  BY DEF Handshake, Packet
<1>7. ModeInv'
  <2>1. mode # "connecting" /\ mode # "play"
    BY <1>2 DEF CInv, ModeInv
  <2>2. mode = "status" => Stream = <<Handshake("status"), Request>> /\ out = <<>>
    BY DEF CInv, ModeInv
  <2>3. mode = "login" => Stream = <<Handshake("login"), LoginStart>> /\ out = <<>>
    BY DEF CInv, ModeInv
  <2> QED
    BY <1>1, <1>3, <1>6, <2>1, <2>2, <2>3, Literal DEF ModeInv
<1>8. Total' = Total
  <2>1. Cardinality(Echoes(Stream)) = 0 /\ Cardinality(Echoes(Stream')) = 0
    BY <1>3, SingleCounts DEF Handshake, Request, LoginStart, Packet
  <2> QED
    BY <2>1 DEF Total
<1>9. EchoInv' /\ WindowInv'
  BY <1>1, <1>2, <1>3, <1>8 DEF CInv, EchoInv, WindowInv, ModeInv
<1> QED
  BY <1>4, <1>5, <1>7, <1>9 DEF CInv

LEMMA StatusKeeps ==
  ASSUME CInv, HandleStatus
  PROVE  CInv'
<1> PICK p \in FromClient :
      /\ Take(p) /\ state = "Status"
      /\ Sends(CASE p.id = 0 -> <<Message("Response")>>
                 [] p.id = 1 -> <<Message("Pong")>>
                 [] OTHER -> <<>>)
      /\ UNCHANGED serverVars
  BY DEF HandleStatus
<1>1. TypeOK /\ UNCHANGED <<wire, begun, mode, at, shown, acts>> /\ pc' = "read"
      /\ UNCHANGED <<state, player, last>>
  BY DEF CInv, Take, clientVars, serverVars
<1>2. /\ Stream # <<>> /\ p = Head(Stream) /\ Stream' = Tail(Stream)
      /\ buffer' \in Seq(FromClient)
  BY <1>1, TakeStream, Zenon
<1>3. Stream' = <<>> /\ p.id \in {0, 1} /\ Cardinality(Echoes(Stream)) = 0
  <2>1. Stream \in {<<Request>>, <<Ping>>}
    BY <1>2 DEF CInv, StreamInv
  <2>2. CASE Stream = <<Request>>
    BY <1>2, <2>2, Literal, SingleCounts DEF Request, Packet
  <2>3. CASE Stream = <<Ping>>
    BY <1>2, <2>3, Literal, SingleCounts DEF Ping, Packet
  <2> QED
    BY <2>1, <2>2, <2>3
<1> DEFINE ms == IF p.id = 0 THEN <<Message("Response")>> ELSE <<Message("Pong")>>
<1>4. Sends(ms) /\ ms \in Seq(FromServer) /\ Cardinality(Tokens(ms)) = 0
  BY <1>3, ServerMessages, SingleCounts DEF Message
<1> HIDE DEF ms
<1>5. /\ out' \in Seq(FromServer)
      /\ Cardinality(Tokens(out)) \in Nat
      /\ Cardinality(Tokens(out')) = Cardinality(Tokens(out))
  BY <1>1, <1>4, ServerSends
<1>6. TypeOK'
  BY <1>1, <1>2, <1>5 DEF TypeOK
<1>7. StreamInv'
  BY <1>1, <1>3 DEF CInv, StreamInv
<1>8. mode \in {"status", "closed"}
  BY <1>1 DEF CInv, TypeOK, ModeInv
<1>9. ModeInv'
  <2>1. mode = "status" => out = <<>>
    BY <1>2 DEF CInv, ModeInv
  <2>2. mode = "status" => out' = ms
    BY <1>4, <2>1 DEF Sends
  <2> QED
    BY <1>1, <1>3, <1>8, <2>2 DEF ModeInv, ms
<1>10. Cardinality(Echoes(Stream')) = 0
  BY <1>3, SingleCounts
<1>11. EchoInv' /\ WindowInv'
  BY <1>1, <1>3, <1>5, <1>8, <1>10 DEF CInv, EchoInv, Total, WindowInv
<1> QED
  BY <1>6, <1>7, <1>9, <1>11 DEF CInv

LEMMA LoginKeeps ==
  ASSUME CInv, HandleLogin
  PROVE  CInv'
<1> PICK p \in FromClient :
      /\ Take(p) /\ state = "Login"
      /\ IF p.id = 0
           THEN /\ player' = TRUE /\ state' = "Play"
                /\ Sends(JoinSequence)
           ELSE UNCHANGED <<player, state, out>>
      /\ UNCHANGED last
  BY DEF HandleLogin
<1>1. TypeOK /\ UNCHANGED <<wire, begun, mode, at, shown, acts, last>> /\ pc' = "read"
  BY DEF CInv, Take, clientVars
<1>2. /\ Stream # <<>> /\ p = Head(Stream) /\ Stream' = Tail(Stream)
      /\ buffer' \in Seq(FromClient)
  BY <1>1, TakeStream, Zenon
<1>3. Stream' = <<>> /\ p.id = 0 /\ Cardinality(Echoes(Stream)) = 0
  <2>1. Stream = <<LoginStart>>
    BY DEF CInv, StreamInv
  <2> QED
    BY <1>2, <2>1, Literal, SingleCounts DEF LoginStart, Packet
<1>4. Sends(JoinSequence) /\ state' = "Play" /\ player' = TRUE
  BY <1>3
<1>5. JoinSequence \in Seq(FromServer) /\ Cardinality(Tokens(JoinSequence)) = 1
  BY JoinMessages, SingleCounts
<1>6. /\ out' \in Seq(FromServer)
      /\ Cardinality(Tokens(out)) \in Nat
      /\ Cardinality(Tokens(out')) =
               IF mode = "closed" THEN Cardinality(Tokens(out))
               ELSE Cardinality(Tokens(out)) + Cardinality(Tokens(JoinSequence))
  BY <1>1, <1>4, <1>5, ServerSends, Zenon
<1>7. TypeOK'
  BY <1>1, <1>2, <1>4, <1>6 DEF TypeOK, States
<1>8. StreamInv'
  BY <1>3, <1>4 DEF StreamInv
<1>9. mode \in {"login", "closed"}
  BY <1>1 DEF CInv, TypeOK, ModeInv
<1>10. ModeInv'
  <2>1. mode = "login" => out = <<>>
    BY <1>2 DEF CInv, ModeInv
  <2>2. mode = "login" => out' = JoinSequence
    BY <1>4, <1>5, <2>1 DEF Sends
  <2> QED
    BY <1>1, <1>3, <1>4, <1>9, <2>2 DEF ModeInv
<1>11. Cardinality(Echoes(Stream')) = 0
  BY <1>3, SingleCounts
<1>12. EchoInv' /\ WindowInv'
  BY <1>1, <1>3, <1>4, <1>5, <1>6, <1>9, <1>11 DEF CInv, EchoInv, Total, WindowInv
<1> QED
  BY <1>7, <1>8, <1>10, <1>12 DEF CInv

\* What the three handlers of the state Play have in common.
LEMMA PlayKeeps ==
  ASSUME CInv, state = "Play", NEW p \in FromClient, Take(p),
         NEW ms \in Seq(FromServer), Sends(ms),
         \A i \in 1..Len(ms) : ms[i].name # "Response",
         Cardinality(Tokens(ms)) = IF p.id = 0 THEN 1 ELSE 0,
         last' = IF p.id \in {4, 6} THEN p.data ELSE last, last' \in Chunks,
         last' # last =>
           \E i \in 1..Len(ms) : ms[i].name = "Chunks" /\ ms[i].around = last',
         UNCHANGED <<state, player>>
  PROVE  CInv'
<1>1. TypeOK /\ UNCHANGED <<wire, begun, mode, at, shown, acts>> /\ pc' = "read"
  BY DEF CInv, Take, clientVars
<1>2. /\ Stream \in Seq(FromClient) /\ Stream # <<>> /\ p = Head(Stream)
      /\ Stream' = Tail(Stream) /\ buffer' \in Seq(FromClient)
  BY <1>1, TakeStream, Zenon
<1>3. /\ Cardinality(Echoes(Stream')) \in Nat
      /\ Cardinality(Echoes(Stream)) = Cardinality(Echoes(Stream'))
            + IF p.id = 0 /\ p.means = "Play" THEN 1 ELSE 0
  BY <1>1, TakeCounts, Zenon
<1>4. /\ out' \in Seq(FromServer)
      /\ Cardinality(Tokens(out)) \in Nat
      /\ Cardinality(Tokens(out')) =
            IF mode = "closed" THEN Cardinality(Tokens(out))
            ELSE Cardinality(Tokens(out)) + Cardinality(Tokens(ms))
      /\ Covered \subseteq Covered'
      /\ mode # "closed" =>
           \A i \in 1..Len(ms) : ms[i].name = "Chunks" =>
             Around(ms[i].around) \subseteq Covered'
      /\ (/\ \A i \in 1..Len(out) : out[i].name # "Response"
          /\ \A i \in 1..Len(ms) : ms[i].name # "Response")
         => \A i \in 1..Len(out') : out'[i].name # "Response"
  BY <1>1, ServerSends, Zenon
<1>5. /\ Len(Stream) \in Nat /\ Len(Stream') = Len(Stream) - 1 /\ p = Stream[1]
      /\ 1 \in 1..Len(Stream)
      /\ \A i \in 1..Len(Stream') : Stream'[i] = Stream[i + 1]
      /\ \A i \in 1..Len(Stream) : Stream[i].means = "Play"
  BY <1>2 DEF CInv, StreamInv
<1>6. mode \in {"play", "closed"}
  BY <1>1, <1>2 DEF CInv, TypeOK, ModeInv
<1>7. TypeOK'
  BY <1>1, <1>2, <1>4 DEF TypeOK
<1>8. StreamInv'
  BY <1>5 DEF CInv, StreamInv
<1>9. ModeInv'
  BY <1>1, <1>4, <1>6 DEF CInv, ModeInv
<1>10. EchoInv'
  BY <1>1, <1>3, <1>4, <1>5, <1>6 DEF CInv, EchoInv, Total
<1>11. WindowInv'
  <2>1. CASE mode = "closed"
    BY <1>1, <2>1 DEF WindowInv
  <2>2. CASE mode = "play"
    <3>1. LastStep
      BY <2>2 DEF CInv, WindowInv
    <3>2. LastStep'
      BY <1>1, <3>1, TakeWindow
    <3>3. Around(last') \subseteq Covered'
      <4>1. CASE last' = last
        BY <1>4, <2>2, <4>1 DEF CInv, WindowInv
      <4>2. CASE last' # last
        BY <1>4, <2>2, <4>2
      <4> QED
        BY <4>1, <4>2
    <3> QED
      BY <1>1, <2>2, <3>2, <3>3 DEF WindowInv
  <2> QED
    BY <1>6, <2>1, <2>2
<1> QED
  BY <1>7, <1>8, <1>9, <1>10, <1>11 DEF CInv

LEMMA OneMessage ==
  ASSUME NEW m \in FromServer, m.name # "Response"
  PROVE  /\ <<m>> \in Seq(FromServer)
         /\ \A i \in 1..Len(<<m>>) : <<m>>[i].name # "Response"
         /\ 1 \in 1..Len(<<m>>) /\ <<m>>[1] = m
         /\ Cardinality(Tokens(<<m>>)) = IF m.name = "KeepAlive" THEN 1 ELSE 0
  BY SingleCounts

LEMMA NoMessage ==
  /\ <<>> \in Seq(FromServer)
  /\ \A i \in 1..Len(<<>>) : <<>>[i].name # "Response"
  /\ Cardinality(Tokens(<<>>)) = 0
  BY SingleCounts

LEMMA KeepAliveKeeps ==
  ASSUME CInv, HandleKeepAlive
  PROVE  CInv'
<1> PICK p \in FromClient :
      /\ Take(p) /\ state = "Play" /\ p.id = 0
      /\ Sends(<<Message("KeepAlive")>>)
      /\ UNCHANGED serverVars
  BY DEF HandleKeepAlive
<1> DEFINE ms == <<Message("KeepAlive")>>
<1>1. /\ ms \in Seq(FromServer) /\ Cardinality(Tokens(ms)) = 1
      /\ \A i \in 1..Len(ms) : ms[i].name # "Response"
  BY ServerMessages, OneMessage DEF Message
<1>2. Sends(ms) /\ UNCHANGED <<state, player, last>> /\ last \in Chunks
  BY DEF serverVars, CInv, TypeOK
<1> HIDE DEF ms
<1> QED
  BY <1>1, <1>2, PlayKeeps

LEMMA DeedKeeps ==
  ASSUME CInv, HandleDeed
  PROVE  CInv'
<1> PICK p \in FromClient :
      /\ Take(p) /\ state = "Play" /\ p.id \notin {0, 4, 6}
      /\ Sends(CASE p.id = 1 -> <<Message("Chat")>>
                 [] p.id = 7 /\ p.data = "finished" -> <<Message("BlockChange")>>
                 [] p.id = 15 /\ p.data = "face" -> <<Message("BlockChange")>>
                 [] OTHER -> <<>>)
      /\ UNCHANGED serverVars
  BY DEF HandleDeed
<1>1. PICK ms \in {<<Message("Chat")>>, <<Message("BlockChange")>>, <<>>} : Sends(ms)
  OBVIOUS
<1>2. /\ ms \in Seq(FromServer) /\ Cardinality(Tokens(ms)) = 0
      /\ \A i \in 1..Len(ms) : ms[i].name # "Response"
  <2>1. CASE ms = <<>>
    BY <2>1, NoMessage, Zenon
  <2>2. CASE ms = <<Message("Chat")>>
    BY <2>2, ServerMessages, OneMessage DEF Message
  <2>3. CASE ms = <<Message("BlockChange")>>
    BY <2>3, ServerMessages, OneMessage DEF Message
  <2> QED
    BY <2>1, <2>2, <2>3
<1>3. UNCHANGED <<state, player, last>> /\ last \in Chunks
  BY DEF serverVars, CInv, TypeOK
<1> QED
  BY <1>1, <1>2, <1>3, PlayKeeps

LEMMA MoveKeeps ==
  ASSUME CInv, HandleMove
  PROVE  CInv'
<1> PICK p \in FromClient :
      /\ Take(p) /\ state = "Play" /\ p.id \in {4, 6}
      /\ IF p.data[1] # last[1] \/ p.data[2] # last[2]
           THEN /\ last' = p.data
                /\ Sends(<<ChunksAround(p.data)>>)
           ELSE UNCHANGED <<last, out>>
      /\ UNCHANGED <<state, player>>
  BY DEF HandleMove
<1>1. p.data \in Chunks /\ last \in Chunks
  BY ClientPackets DEF CInv, TypeOK
<1>2. CASE p.data = last
  <2>1. last' = p.data /\ out' = out
    BY <1>2
  <2> DEFINE ms == <<>>
  <2>2. Sends(ms)
    BY <2>1 DEF Sends, CInv, TypeOK
  <2>3. /\ ms \in Seq(FromServer) /\ Cardinality(Tokens(ms)) = 0
        /\ \A i \in 1..Len(ms) : ms[i].name # "Response"
    BY NoMessage, Zenon
  <2> HIDE DEF ms
  <2> QED
    BY <1>1, <1>2, <2>1, <2>2, <2>3, PlayKeeps
<1>3. CASE p.data # last
  <2>1. p.data[1] # last[1] \/ p.data[2] # last[2]
    BY <1>1, <1>3, ConnectionAssumption
  <2> DEFINE ms == <<ChunksAround(p.data)>>
  <2>2. Sends(ms) /\ last' = p.data
    BY <2>1
  <2>3. /\ ms \in Seq(FromServer) /\ Cardinality(Tokens(ms)) = 0
        /\ \A i \in 1..Len(ms) : ms[i].name # "Response"
        /\ 1 \in 1..Len(ms) /\ ms[1].name = "Chunks" /\ ms[1].around = p.data
    <3>1. /\ ChunksAround(p.data) \in FromServer
          /\ ChunksAround(p.data).name = "Chunks"
          /\ ChunksAround(p.data).around = p.data
      BY <1>1, ServerMessages DEF ChunksAround
    <3> QED
      BY <3>1, OneMessage
  <2> HIDE DEF ms
  <2> QED
    BY <1>1, <2>2, <2>3, PlayKeeps
<1> QED
  BY <1>2, <1>3

-----------------------------------------------------------------------------
(* Theorems.                                                               *)

LEMMA Inductive == CInv /\ [Next]_vars => CInv'
<1> SUFFICES ASSUME CInv, [Next]_vars PROVE CInv'
  OBVIOUS
<1>1. CASE ReadBytes
  BY <1>1, ReadBytesKeeps
<1>2. CASE ReadEnd \/ NoPacket
  BY <1>2, ReadEndKeeps
<1>3. CASE HandleHandshake
  BY <1>3, HandshakeKeeps
<1>4. CASE HandleStatus
  BY <1>4, StatusKeeps
<1>5. CASE HandleLogin
  BY <1>5, LoginKeeps
<1>6. CASE HandleKeepAlive
  BY <1>6, KeepAliveKeeps
<1>7. CASE HandleMove
  BY <1>7, MoveKeeps
<1>8. CASE HandleDeed
  BY <1>8, DeedKeeps
<1>9. CASE Receive
  <2>1. mode \in {"status", "login", "play"}
    BY <1>9 DEF Receive
  <2> QED
    BY <1>9, <2>1, ReceiveStatus, ReceiveLogin, ReceivePlay
<1>10. CASE AskStatus \/ AskLogin
  BY <1>10, AskKeeps
<1>11. CASE Quit
  BY <1>11, QuitKeeps
<1>12. CASE \E id \in {4, 6}, c \in Chunks : Walk(id, c)
  BY <1>12, WalkKeeps
<1>13. CASE \E p \in Deeds : Act(p)
  BY <1>13, ActKeeps
<1>14. CASE NextClient
  BY <1>14, NextClientStarts
<1>15. CASE UNCHANGED vars
  BY <1>15, StutterKeeps
<1> QED
  BY <1>1, <1>2, <1>3, <1>4, <1>5, <1>6, <1>7, <1>8, <1>9, <1>10, <1>11, <1>12,
     <1>13, <1>14, <1>15
  DEF Next, ServerStep, Handle, PlayerStep

\* The stream, both sides' states, the keep-alives and the window fit together
\* in every reachable state (tcpclient.cpp:119-459).
THEOREM Invariance == Spec => []CInv
<1>1. Init => CInv
  BY Initially
<1>2. CInv /\ [Next]_vars => CInv'
  BY Inductive
<1> QED
  BY <1>1, <1>2, PTL DEF Spec

\* Every variable keeps its type (client.hpp, tcpclient.cpp:119-459).
THEOREM TypeCorrect == Spec => []TypeOK
<1>1. CInv => TypeOK
  BY DEF CInv
<1> QED
  BY <1>1, Invariance, PTL

\* handle() is in the state that a packet was meant for whenever it takes one
\* (tcpclient.cpp:130-191, 276).
THEOREM Meant == Spec => []HandledAsMeant
<1>1. CInv => HandledAsMeant
  <2> SUFFICES ASSUME CInv, buffer # <<>>
               PROVE  Head(buffer).means = state /\ (state = "Play" <=> player)
    BY DEF HandledAsMeant
  <2>1. buffer \in Seq(FromClient) /\ wire \in Seq(FromClient)
    BY DEF CInv, TypeOK
  <2>2. /\ Stream \in Seq(FromClient) /\ Stream # <<>>
        /\ Head(Stream) = Head(buffer)
    BY <2>1, TakesHead, Zenon DEF Stream
  <2>3. CASE state = "Handshaking"
    <3>1. Stream = <<Handshake("status"), Request>>
            \/ Stream = <<Handshake("login"), LoginStart>>
      BY <2>2, <2>3 DEF CInv, StreamInv
    <3>2. Head(Stream) \in {Handshake("status"), Handshake("login")}
      BY <3>1, Literal
    <3> QED
      BY <2>2, <2>3, <3>2 DEF Handshake, Packet, CInv, StreamInv
  <2>4. CASE state = "Status"
    <3>1. Head(Stream) \in {Request, Ping}
      BY <2>2, <2>4, Literal DEF CInv, StreamInv
    <3> QED
      BY <2>2, <2>4, <3>1 DEF Request, Ping, Packet, CInv, StreamInv
  <2>5. CASE state = "Login"
    <3>1. Head(Stream) = LoginStart
      BY <2>2, <2>5, Literal DEF CInv, StreamInv
    <3> QED
      BY <2>2, <2>5, <3>1 DEF LoginStart, Packet, CInv, StreamInv
  <2>6. CASE state = "Play"
    <3>1. Head(Stream) = Stream[1] /\ 1 \in 1..Len(Stream)
      BY <2>2
    <3> QED
      BY <2>2, <2>6, <3>1 DEF CInv, StreamInv
  <2> QED
    BY <2>3, <2>4, <2>5, <2>6 DEF CInv, TypeOK, States
<1> QED
  BY <1>1, Invariance, PTL

\* The loop of keep-alives that a login starts neither dies out nor multiplies
\* (tcpclient.cpp:249-266).
THEOREM KeepAlives == Spec => []OneKeepAlive
<1>1. CInv => OneKeepAlive
  <2> SUFFICES ASSUME CInv PROVE OneKeepAlive
    OBVIOUS
  <2>1. buffer \in Seq(FromClient) /\ wire \in Seq(FromClient) /\ out \in Seq(FromServer)
    BY DEF CInv, TypeOK
  <2>2. Cardinality(Echoes(buffer \o wire))
          = Cardinality(Echoes(buffer)) + Cardinality(Echoes(wire))
    BY <2>1, EchoCounts
  <2>3. /\ Cardinality(Echoes(buffer)) \in Nat /\ Cardinality(Echoes(wire)) \in Nat
        /\ Cardinality(Tokens(out)) \in Nat
    BY <2>1, EchoCounts, TokenCounts
  <2>4. Circulating = Total
    BY <2>2, <2>3 DEF Circulating, Total, Stream
  <2>5. Total \in Nat
    BY <2>2, <2>3 DEF Total, Stream
  <2> QED
    BY <2>4, <2>5 DEF CInv, EchoInv, OneKeepAlive
<1> QED
  BY <1>1, Invariance, PTL

\* A player none of whose steps is on its way has the chunks around it, or is
\* being sent them (tcpclient.cpp:241-247, 311-320, 338-347).
THEOREM Window == Spec => []WindowFollows
<1>1. CInv => WindowFollows
  <2> SUFFICES ASSUME CInv, mode = "play", Steps(wire) = {}, Steps(buffer) = {}
               PROVE  Around(at) \subseteq Covered
    BY DEF WindowFollows, Covered, CInv, TypeOK
  <2>1. buffer \in Seq(FromClient) /\ wire \in Seq(FromClient)
    BY DEF CInv, TypeOK
  <2>2. Steps(Stream) = {}
    <3> SUFFICES ASSUME NEW i \in Steps(Stream) PROVE FALSE
      OBVIOUS
    <3>1. /\ Len(buffer) \in Nat /\ Len(wire) \in Nat
          /\ Stream[i].id \in {4, 6}
          /\ i \in 1..Len(buffer) + Len(wire)
          /\ DOMAIN buffer = 1..Len(buffer) /\ DOMAIN wire = 1..Len(wire)
          /\ i \in 1..Len(buffer) => Stream[i] = buffer[i]
          /\ i \notin 1..Len(buffer) => Stream[i] = wire[i - Len(buffer)]
      BY <2>1 DEF Stream, Steps
    <3>2. CASE i \in 1..Len(buffer)
      BY <3>1, <3>2 DEF Steps
    <3>3. CASE i \notin 1..Len(buffer)
      <4>1. i - Len(buffer) \in 1..Len(wire)
        BY <3>1, <3>3
      <4> QED
        BY <3>1, <3>3, <4>1 DEF Steps
    <3> QED
      BY <3>2, <3>3
  <2> QED
    BY <2>2 DEF CInv, WindowInv, LastStep
<1> QED
  BY <1>1, Invariance, PTL
=============================================================================
