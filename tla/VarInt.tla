------------------------------- MODULE VarInt -------------------------------
(***************************************************************************)
(* VarInts: the two writers (encodeVarInt in protocol/varint.cpp and       *)
(* writeVarInt in protocol/helper.cpp) and the two readers (decodeVarInt   *)
(* and readVarInt) of the code.  A byte below Base ends the number; one    *)
(* from Base on has CONTINUE_BIT set.  In the code Base is 2^7, Word 2^32  *)
(* and MaxBytes 5; smaller ones keep the shape when the last of MaxBytes   *)
(* digits is only partly used.                                             *)
(***************************************************************************)
EXTENDS Integers, Sequences, SequencesExt

CONSTANTS
  Base,       \* 2^7: a digit has seven bits
  Word,       \* 2^32: the integers are 32 bits wide
  MaxBytes,   \* MAX_BYTES
  Overshift   \* what a build makes of a digit shifted by the width or more

\* 2^shift, where shift grows by 7 with every digit: what the digits above the
\* first so many count.
Weight[digits \in Nat] ==
  IF digits = 0 THEN 1 ELSE Base * Weight[digits - 1]

\* The last of MaxBytes digits holds a bit or more, as 5 * 7 - 32 bits of it are
\* not used.
ASSUME VarIntAssumption ==
  /\ Base \in Nat \ {0, 1} /\ Word \in Nat /\ MaxBytes \in Nat \ {0}
  /\ Base < Word /\ Word % 2 = 0
  /\ 2 * Weight[MaxBytes - 1] <= Word /\ Word <= Weight[MaxBytes]
  /\ Overshift \in 0..Word - 1

Byte == 0..2 * Base - 1

\* What there is of a vector from its i-th byte on.
From(bytes, i) == SubSeq(bytes, i, Len(bytes))

Continues(byte) == byte >= Base

\* int32_t and uint32_t.
Int32 == -(Word \div 2)..Word \div 2 - 1
Unsigned(n) == n % Word
Signed(w) == IF w < Word \div 2 THEN w ELSE w - Word

\* encodeVarInt: the low digit goes first, marked while others follow.
EncodeBits[bits \in Nat] ==
  LET rest == bits \div Base IN
  IF rest # 0 THEN <<(bits % Base) + Base>> \o EncodeBits[rest]
              ELSE <<bits % Base>>

\* Wrong: the digit is not masked.
EncodeUnmasked(n) ==
  IF Unsigned(n) < Base
    THEN <<n>>
    ELSE <<Unsigned(n) + Base>> \o EncodeBits[Unsigned(n) \div Base]

EncodeVarInt(n) == EncodeBits[Unsigned(n)]

\* writeVarInt: uValue | 0x80, cut to eight bits, while a digit is not enough.
WriteBits[u \in Nat] ==
  LET low == u % (2 * Base) IN
  IF u >= Base
    THEN <<IF low >= Base THEN low ELSE low + Base>> \o WriteBits[u \div Base]
    ELSE <<low>>

\* Wrong: the loop compares the signed number.
WriteSigned(n) == IF n < Base THEN <<n % (2 * Base)>> ELSE WriteBits[n]

WriteVarInt(n) == WriteBits[Unsigned(n)]

\* The bytes a reader takes: up to the first that ends the number, or max.
Taken(buffer, max) ==
  LET ends == {i \in 1..Len(buffer) : ~Continues(buffer[i])}
      all == ends \cup {Len(buffer), max}
  IN  Min(all)

\* Wrong: the shift is stepped before the first digit is put in its place.
ShiftedEarly(buffer, i) ==
  IF Weight[i] < Word
    THEN ((buffer[i] % Base) * Weight[i]) % Word
    ELSE Overshift

\* Digits do not overlap, so the or of the code is a sum.
Shifted(buffer, i) ==
  IF Weight[i - 1] < Word
    THEN ((buffer[i] % Base) * Weight[i - 1]) % Word
    ELSE Overshift

ValueOf(buffer, n) ==
  LET upTo[i \in 0..n] == IF i = 0 THEN 0 ELSE upTo[i - 1] + Shifted(buffer, i)
  IN  Signed(upTo[n] % Word)

\* decodeVarInt gives up after MAX_BYTES + 1 bytes that all go on; a buffer
\* that ends earlier is decoded as if the number ended there.
Throws(buffer) ==
  /\ Len(buffer) > MaxBytes
  /\ \A i \in 1..MaxBytes + 1 : Continues(buffer[i])

\* Wrong: the digit the buffer ends with is dropped if it goes on.
DecodeDropping(buffer) ==
  LET n == Taken(buffer, MaxBytes + 1)
      m == IF Continues(buffer[n]) THEN n - 1 ELSE n
  IN  [value |-> ValueOf(buffer, m), bytesRead |-> n]

DecodeVarInt(buffer) ==
  LET n == Taken(buffer, MaxBytes + 1)
  IN  [value |-> ValueOf(buffer, n), bytesRead |-> n]

\* readVarInt answers an error for a number that does not end in the buffer or
\* in as many digits as a word has.
NoVarInt == [error |-> TRUE]

ReadVarInt(buffer) ==
  LET n == Taken(buffer, MaxBytes) IN
  IF n = 0 \/ Continues(buffer[n])
    THEN NoVarInt
    ELSE [value |-> ValueOf(buffer, n), bytesRead |-> n]
=============================================================================
