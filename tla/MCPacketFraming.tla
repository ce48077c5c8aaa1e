-------------------------- MODULE MCPacketFraming --------------------------
(***************************************************************************)
(* PacketFraming for TLC, with digits below 4 in place of 128: a length of *)
(* 4 or more takes two bytes, as one of 128 or more does.                  *)
(***************************************************************************)
EXTENDS PacketFraming

MCPackets ==
  { [id |-> 2, data |-> <<>>],                      \* length 1
    [id |-> 1, data |-> <<5, 0, 7, 2>>],            \* length 5, two bytes
    \* Lengths whose first byte says 0 and goes on, as that of 128 does.  What
    \* follows in the second looks like a length that never ends.
    [id |-> 1, data |-> <<2, 3, 0>>],               \* length 4
    [id |-> 1, data |-> <<4, 4, 4, 4, 4, 4, 4>>] }  \* length 8
=============================================================================
