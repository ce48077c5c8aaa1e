--------------------------- MODULE PacketChannel ---------------------------
(***************************************************************************)
(* What the framing of TcpClient promises to handle(): the packets the     *)
(* client sent, each once, whole and in order, and no others, for as long  *)
(* as the channel is not broken.                                           *)
(***************************************************************************)
EXTENDS Sequences, Naturals

CONSTANT Packets

VARIABLES
  sent,      \* the packets the client has sent
  received,  \* the packets handle() has been given
  broken     \* no promise holds any longer

vars == <<sent, received, broken>>

Init == sent = <<>> /\ received = <<>> /\ broken = FALSE

Send(p) ==
  /\ ~broken
  /\ sent' = Append(sent, p)
  /\ UNCHANGED <<received, broken>>

Receive ==
  /\ ~broken /\ Len(received) < Len(sent)
  /\ received' = Append(received, sent[Len(received) + 1])
  /\ UNCHANGED <<sent, broken>>

Break == ~broken /\ broken'

Broken == broken /\ broken'

Next == Receive \/ Break \/ Broken \/ \E p \in Packets : Send(p)

Spec == Init /\ [][Next]_vars
=============================================================================
