------------------------------ MODULE Numbers ------------------------------
(***************************************************************************)
(* What the two writers and the two readers of VarInt owe one another, for *)
(* every number and whatever bytes stand behind it.  The functions keep no *)
(* state: the steps go from each number on to the next.                    *)
(***************************************************************************)
EXTENDS VarInt

CONSTANT Rests   \* the bytes that may stand behind a number

ASSUME RestsAssumption == Rests \subseteq Seq(Byte)

VARIABLES number, rest

NumberInit == number \in Int32 /\ rest \in Rests

\* On to the next number, from the last one to the first.
NextNumber ==
  /\ number' = Signed(Unsigned(number + 1))
  /\ UNCHANGED rest

NumberSpec == NumberInit /\ [][NextNumber]_<<number, rest>>

-----------------------------------------------------------------------------
(* Properties.                                                             *)

Encoded == EncodeVarInt(number) \o rest

\* Both readers give back what both writers wrote, take exactly the bytes of
\* the number, and leave alone what follows it (varint.cpp:3-48,
\* helper.cpp:125-171).
RoundTrip ==
  LET answer == [value |-> number, bytesRead |-> Len(EncodeVarInt(number))] IN
  /\ ~Throws(Encoded)
  /\ DecodeVarInt(Encoded) = answer
  /\ ReadVarInt(Encoded) = answer

\* A packet written with one writer and read where the other was expected is
\* the same packet: the two writers agree on every number.
WritersAgree == WriteVarInt(number) = EncodeVarInt(number)

\* A number cut short is decoded all the same, to a smaller one; it is the
\* digits that have arrived.  Only when these are all zero is the length it
\* gives already there (tcpclient.cpp:38-44).
CutShort ==
  \A k \in 1..Len(EncodeVarInt(number)) - 1 :
    LET cut == DecodeVarInt(SubSeq(EncodeVarInt(number), 1, k)) IN
    /\ cut.bytesRead = k
    /\ cut.value = Unsigned(number) % Weight[k]
=============================================================================
