------------------------- MODULE ConversionsProofs -------------------------
(***************************************************************************)
(* The conversions hold for every input: the VarInts of Numbers, for       *)
(* digits and words of any size, and the fields of Fields, for every       *)
(* packet that is made of them.                                            *)
(***************************************************************************)
EXTENDS Numbers, Fields, VarIntProofs

-----------------------------------------------------------------------------
(* VarInts.  All of it follows from what VarIntProofs says of the writers  *)
(* and the readers.                                                        *)

NumberOK == number \in Int32 /\ rest \in Seq(Byte)

\* Every number that NumberSpec comes to is one of 32 bits.
LEMMA NumberOKInvariant == NumberSpec => []NumberOK
<1>1. NumberInit => NumberOK
  BY RestsAssumption DEF NumberInit, NumberOK
<1>2. NumberOK /\ [NextNumber]_<<number, rest>> => NumberOK'
  <2> SUFFICES ASSUME NumberOK, [NextNumber]_<<number, rest>>
               PROVE  NumberOK'
    OBVIOUS
  <2>1. CASE NextNumber
    <3>1. Unsigned(number + 1) \in Nat
      <4>1. number + 1 \in Int
        BY DEF NumberOK, Int32
      <4> QED
        BY <4>1, Constants DEF Unsigned
    <3>2. Unsigned(number + 1) % Word = Unsigned(number + 1)
      <4>1. Unsigned(number + 1) < Word
        BY Constants DEF Unsigned, NumberOK, Int32
      <4> QED
        BY <3>1, <4>1, Smaller, Constants
    <3>3. Signed(Unsigned(number + 1)) \in Int32
      BY <3>1, <3>2, SignedType
    <3> QED
      BY <2>1, <3>3 DEF NextNumber, NumberOK
  <2>2. CASE UNCHANGED <<number, rest>>
    BY <2>2 DEF NumberOK
  <2> QED
    BY <2>1, <2>2
<1> QED
  BY <1>1, <1>2, PTL DEF NumberSpec

\* What either writer writes of a number, either reader reads back, and takes
\* exactly its bytes, whatever stands behind it (varint.cpp:3-48,
\* helper.cpp:125-171).
THEOREM NumberRoundTrip == NumberSpec => []RoundTrip
<1>1. NumberOK => RoundTrip
  BY Decoding DEF NumberOK, RoundTrip, Encoded
<1> QED
  BY <1>1, NumberOKInvariant, PTL

\* encodeVarInt and writeVarInt write the same bytes of every number.
THEOREM NumberWritersAgree == NumberSpec => []WritersAgree
<1>1. NumberOK => WritersAgree
  BY SignedUnsigned, WriteBitsAgrees
  DEF NumberOK, WritersAgree, WriteVarInt, EncodeVarInt
<1> QED
  BY <1>1, NumberOKInvariant, PTL

\* A number of which some bytes are missing is decoded to the digits that have
\* come, as decodeVarInt stops where its buffer ends (varint.cpp:29-47).
THEOREM NumberCutShort == NumberSpec => []CutShort
<1>1. NumberOK => CutShort
  <2> SUFFICES ASSUME NumberOK, NEW k \in 1..Len(EncodeVarInt(number)) - 1
               PROVE  LET cut == DecodeVarInt(SubSeq(EncodeVarInt(number), 1, k))
                      IN  /\ cut.bytesRead = k
                          /\ cut.value = Unsigned(number) % Weight[k]
    BY DEF CutShort
  <2> DEFINE e == EncodeVarInt(number)
             b == SubSeq(e, 1, k)
  <2>1. e \in Seq(Byte) /\ Len(e) \in Nat
    BY Encoding DEF NumberOK
  <2>2. k \in 1..Len(e) /\ k < Len(e) /\ k \in Nat
    BY <2>1
  <2> HIDE DEF e
  <2>3. b \in Seq(Byte) /\ Len(b) = k /\ \A i \in 1..k : b[i] = e[i]
    BY <2>1, <2>2, SubSeqProperties
  <2> HIDE DEF b
  <2>4. DecodeVarInt(b) = [value |-> Unsigned(number) % Weight[k],
                           bytesRead |-> k]
    BY <2>2, <2>3, DecodingCut DEF e, NumberOK
  <2> QED
    BY <2>4 DEF b, e
<1> QED
  BY <1>1, NumberOKInvariant, PTL

-----------------------------------------------------------------------------
(* Numbers of a fixed width.                                               *)

\* A byte has that many values, and the words fit into WordBytes of them.
LEMMA RadixType == Radix \in Nat /\ Radix > 0 /\ Radix % 2 = 0 /\ Byte = 0..Radix - 1
BY Constants DEF Radix, Byte

\* Span is the function its definition asks for.
LEMMA SpanDef ==
  Span = [n \in Nat |-> IF n = 0 THEN 1 ELSE Radix * Span[n - 1]]
<1> DEFINE V == Int
           base == [n \in Nat |-> 1]
           step == [a \in Nat \X V |-> Radix * a[2]]
           before == [n \in Nat |-> n - 1]
           T == {0}
<1>1. Recursive(Nat, T, V, base, step, before)
  BY RadixType DEF Recursive
<1> HIDE DEF V, base, step, before, T
<1>2. PICK f \in [Nat -> V] : Solves(f, Nat, T, base, step, before)
  BY <1>1, Recursion
<1>3. \A n \in Nat :
        f[n] = IF n \in T THEN base[n] ELSE step[<<n, f[before[n]]>>]
  BY <1>2 DEF Solves
<1>4. ASSUME NEW n \in Nat
      PROVE  f[n] = IF n = 0 THEN 1 ELSE Radix * f[n - 1]
  <2>1. CASE n = 0
    BY <1>3, <2>1 DEF base, T
  <2>2. CASE n # 0
    <3>1. n - 1 \in Nat /\ before[n] = n - 1 /\ n \notin T
      BY <2>2 DEF before, T
    <3>2. f[n] = step[<<n, f[n - 1]>>] /\ f[n - 1] \in V
      BY <1>3, <3>1
    <3> QED
      BY <2>2, <3>1, <3>2 DEF step
  <2> QED
    BY <2>1, <2>2
<1>5. f = [n \in Nat |-> IF n = 0 THEN 1 ELSE Radix * f[n - 1]]
  BY <1>4
<1>6. \E g : g = [n \in Nat |-> IF n = 0 THEN 1 ELSE Radix * g[n - 1]]
  BY <1>5
<1> QED
  BY <1>6 DEF Span

\* One more byte holds Radix times as many numbers.
LEMMA SpanStep ==
  /\ Span[0] = 1
  /\ \A n \in Nat : Span[n + 1] = Radix * Span[n]
<1>1. \A n \in Nat : n + 1 \in Nat /\ n + 1 # 0 /\ (n + 1) - 1 = n
  OBVIOUS
<1> QED
  BY SpanDef, <1>1

\* Some bytes hold some numbers.
LEMMA SpanPositive == \A n \in Nat : Span[n] \in Nat /\ Span[n] > 0
<1> DEFINE S == {n \in Nat : Span[n] \in Nat /\ Span[n] > 0}
<1>1. 0 \in S
  BY SpanStep
<1>2. ASSUME NEW n \in Nat, n \in S
      PROVE  n + 1 \in S
  <2>1. Span[n] \in Nat /\ Span[n] > 0
    BY <1>2
  <2>2. \A w \in Nat : w > 0 => Radix * w \in Nat /\ Radix * w > 0
    BY RadixType
  <2> QED
    BY <2>1, <2>2, SpanStep
<1> HIDE DEF S
<1>3. \A n \in Nat : n \in S
  BY <1>1, <1>2, Induction
<1> QED
  BY <1>3 DEF S

\* Half of the numbers of a byte or more are negative.
LEMMA SpanEven ==
  ASSUME NEW k \in Nat \ {0}
  PROVE  Span[k] \div 2 \in Nat /\ Span[k] = 2 * (Span[k] \div 2)
<1> DEFINE w == Span[k - 1]
           h == Radix \div 2
<1>1. k - 1 \in Nat /\ (k - 1) + 1 = k
  OBVIOUS
<1>2. w \in Nat /\ Span[k] = Radix * w
  BY <1>1, SpanPositive, SpanStep
<1>3. h \in Nat /\ Radix = 2 * h
  BY RadixType
<1> HIDE DEF w, h
<1>4. Radix * w = 2 * (h * w) /\ h * w \in Nat
  BY <1>2, <1>3
<1> DEFINE x == h * w
<1> HIDE DEF x
<1>5. Span[k] = 2 * x /\ x \in Nat
  BY <1>2, <1>4 DEF x
<1>6. (2 * x) \div 2 = x
  BY <1>5
<1> QED
  BY <1>5, <1>6

\* A byte or more of a number, taken back from its bits.
LEMMA CastBack ==
  ASSUME NEW k \in Nat \ {0}
  PROVE  /\ \A n \in SignedOf(k) : n \in Int /\ Cast(n % Span[k], k) = n
         /\ \A n \in UnsignedOf(k) :
              n \in Int /\ Cast(n, k) \in Int /\ Cast(n, k) % Span[k] = n
<1> DEFINE s == Span[k]
           h == s \div 2
<1>1. s \in Nat /\ s > 0 /\ h \in Nat /\ s = 2 * h
  BY SpanPositive, SpanEven
<1> HIDE DEF h
<1>2. ASSUME NEW n \in SignedOf(k)
      PROVE  n \in Int /\ Cast(n % Span[k], k) = n
  <2>1. n \in Int /\ -h <= n /\ n < h
    BY <1>1, <1>2 DEF SignedOf, h
  <2> HIDE DEF s
  <2> DEFINE u == n % s
  <2>2. u \in Nat /\ u < s /\ u = IF n >= 0 THEN n ELSE n + s
    <3>1. CASE n >= 0
      BY <1>1, <2>1, <3>1, Smaller
    <3>2. CASE n < 0
      <4>1. n + s \in Nat /\ n + s < s /\ n = (-1) * s + (n + s)
        BY <1>1, <2>1, <3>2
      <4>2. n + s = u
        BY <1>1, <2>1, <4>1, DivisionUnique
      <4> HIDE DEF u
      <4> QED
        BY <2>1, <3>2, <4>1, <4>2
    <3>3. n >= 0 \/ n < 0
      BY <2>1
    <3> HIDE DEF u
    <3> QED
      BY <2>1, <3>1, <3>2, <3>3
  <2> HIDE DEF u
  <2>3. u % s = u
    BY <1>1, <2>2, Smaller
  <2>4. Cast(u, k) = IF 2 * u < s THEN u ELSE u - s
    BY <2>3 DEF Cast, s
  <2>5. Cast(u, k) = n
    BY <1>1, <2>1, <2>2, <2>4
  <2> QED
    BY <2>1, <2>5 DEF u, s
<1>3. ASSUME NEW n \in UnsignedOf(k)
      PROVE  n \in Int /\ Cast(n, k) \in Int /\ Cast(n, k) % Span[k] = n
  <2>1. n \in Nat /\ n < s
    BY <1>1, <1>3 DEF UnsignedOf
  <2> HIDE DEF s
  <2>2. n % s = n
    BY <1>1, <2>1, Smaller
  <2>3. Cast(n, k) = IF 2 * n < s THEN n ELSE n - s
    BY <2>2 DEF Cast, s
  <2>4. (n - s) % s = n
    <3> DEFINE m == n - s
    <3>1. m \in Int /\ m = (-1) * s + n
      BY <1>1, <2>1
    <3> HIDE DEF m
    <3>2. n = m % s
      BY <1>1, <2>1, <3>1, DivisionUnique
    <3> QED
      BY <3>2 DEF m
  <2>5. Cast(n, k) \in Int /\ Cast(n, k) % s = n
    BY <1>1, <2>1, <2>2, <2>3, <2>4
  <2> QED
    BY <2>1, <2>5 DEF s
<1> QED
  BY <1>2, <1>3

\* So many bytes are written, and they are bytes.
LEMMA PutType ==
  ASSUME NEW n \in Int, NEW k \in Nat
  PROVE  Put(n, k) \in Seq(Byte) /\ Len(Put(n, k)) = k
<1>1. ASSUME NEW i \in 1..k
      PROVE  (n \div Span[k - i]) % Radix \in Byte
  <2>1. k - i \in Nat
    OBVIOUS
  <2> DEFINE w == Span[k - i]
  <2>2. w \in Nat /\ w > 0
    BY <2>1, SpanPositive
  <2> HIDE DEF w
  <2> DEFINE q == n \div w
  <2>3. q \in Int
    BY <2>2, IntDivision
  <2> HIDE DEF q
  <2>4. q % Radix \in Nat /\ q % Radix < Radix
    BY <2>3, RadixType, IntDivision
  <2>5. q % Radix \in Byte
    BY <2>4, RadixType
  <2> QED
    BY <2>5 DEF q, w
<1> QED
  BY <1>1 DEF Put

-----------------------------------------------------------------------------
(* Where bytes stand in a packet.                                          *)

\* From offset o on, data has the elements of s.
Holds(data, o, s) ==
  o \in Nat /\ o + Len(s) <= Len(data) /\ \A i \in 1..Len(s) : data[o + i] = s[i]

\* Data stays where it is when more follows ...
LEMMA HoldsLonger ==
  ASSUME NEW V, NEW data \in Seq(V), NEW t \in Seq(V), NEW s \in Seq(V), NEW o,
         Holds(data, o, s)
  PROVE  Holds(data \o t, o, s)
<1>1. /\ Len(data) \in Nat /\ Len(t) \in Nat /\ Len(s) \in Nat
      /\ Len(data \o t) = Len(data) + Len(t)
      /\ \A i \in 1..Len(data) + Len(t) :
           (data \o t)[i] = IF i <= Len(data) THEN data[i] ELSE t[i - Len(data)]
  BY ConcatProperties, LenProperties
<1>2. /\ o \in Nat /\ o + Len(s) <= Len(data)
      /\ \A i \in 1..Len(s) : data[o + i] = s[i]
  BY DEF Holds
<1>3. ASSUME NEW i \in 1..Len(s)
      PROVE  (data \o t)[o + i] = s[i]
  <2>1. o + i \in 1..Len(data) + Len(t) /\ o + i <= Len(data)
    BY <1>1, <1>2
  <2> QED
    BY <1>1, <1>2, <2>1
<1> QED
  BY <1>1, <1>2, <1>3 DEF Holds

\* ... and what follows stands behind it.
LEMMA HoldsBehind ==
  ASSUME NEW V, NEW data \in Seq(V), NEW s \in Seq(V)
  PROVE  Holds(data \o s, Len(data), s)
<1>1. /\ Len(data) \in Nat /\ Len(s) \in Nat
      /\ Len(data \o s) = Len(data) + Len(s)
      /\ \A i \in 1..Len(data) + Len(s) :
           (data \o s)[i] = IF i <= Len(data) THEN data[i] ELSE s[i - Len(data)]
  BY ConcatProperties, LenProperties
<1>2. ASSUME NEW i \in 1..Len(s)
      PROVE  (data \o s)[Len(data) + i] = s[i]
  <2>1. /\ Len(data) + i \in 1..Len(data) + Len(s) /\ ~(Len(data) + i <= Len(data))
        /\ (Len(data) + i) - Len(data) = i
    BY <1>1
  <2> QED
    BY <1>1, <2>1
<1> QED
  BY <1>1, <1>2 DEF Holds

\* Data holds itself.
LEMMA HoldsItself ==
  ASSUME NEW V, NEW data \in Seq(V)
  PROVE  Holds(data, 0, data)
<1>1. Len(data) \in Nat
  BY LenProperties
<1>2. \A i \in 1..Len(data) : 0 + i = i
  BY <1>1
<1> QED
  BY <1>1, <1>2 DEF Holds

\* What is held is held in parts.
LEMMA HoldsParts ==
  ASSUME NEW V, NEW data \in Seq(V), NEW s \in Seq(V), NEW t \in Seq(V), NEW o,
         Holds(data, o, s \o t)
  PROVE  /\ Holds(data, o, s)
         /\ Holds(data, o + Len(s), t)
         /\ s \o t \in Seq(V) /\ Len(s \o t) = Len(s) + Len(t)
         /\ Len(s) \in Nat /\ Len(t) \in Nat /\ Len(data) \in Nat
<1>1. /\ Len(s) \in Nat /\ Len(t) \in Nat /\ Len(data) \in Nat
      /\ s \o t \in Seq(V) /\ Len(s \o t) = Len(s) + Len(t)
      /\ \A i \in 1..Len(s) + Len(t) :
           (s \o t)[i] = IF i <= Len(s) THEN s[i] ELSE t[i - Len(s)]
  BY ConcatProperties, LenProperties
<1>2. /\ o \in Nat /\ o + (Len(s) + Len(t)) <= Len(data)
      /\ \A i \in 1..Len(s) + Len(t) : data[o + i] = (s \o t)[i]
  BY <1>1 DEF Holds
<1>3. ASSUME NEW i \in 1..Len(s)
      PROVE  data[o + i] = s[i]
  <2>1. i \in 1..Len(s) + Len(t) /\ i <= Len(s)
    BY <1>1
  <2> QED
    BY <1>1, <1>2, <2>1
<1>4. ASSUME NEW i \in 1..Len(t)
      PROVE  data[(o + Len(s)) + i] = t[i]
  <2>1. /\ Len(s) + i \in 1..Len(s) + Len(t) /\ ~(Len(s) + i <= Len(s))
        /\ (Len(s) + i) - Len(s) = i /\ o + (Len(s) + i) = (o + Len(s)) + i
    BY <1>1, <1>2
  <2>2. data[o + (Len(s) + i)] = t[i]
    BY <1>1, <1>2, <2>1
  <2> QED
    BY <2>1, <2>2
<1>5. o + Len(s) \in Nat /\ o + Len(s) <= Len(data)
      /\ (o + Len(s)) + Len(t) <= Len(data)
  BY <1>1, <1>2
<1> QED
  BY <1>1, <1>2, <1>3, <1>4, <1>5 DEF Holds

\* What is held by something that is held.
LEMMA HoldsInside ==
  ASSUME NEW V, NEW data \in Seq(V), NEW u \in Seq(V), NEW s \in Seq(V),
         NEW o, NEW p, Holds(data, o, u), Holds(u, p, s)
  PROVE  Holds(data, o + p, s)
<1>1. Len(data) \in Nat /\ Len(u) \in Nat /\ Len(s) \in Nat
  BY LenProperties
<1>2. /\ o \in Nat /\ o + Len(u) <= Len(data)
      /\ \A i \in 1..Len(u) : data[o + i] = u[i]
      /\ p \in Nat /\ p + Len(s) <= Len(u)
      /\ \A i \in 1..Len(s) : u[p + i] = s[i]
  BY DEF Holds
<1>3. ASSUME NEW i \in 1..Len(s)
      PROVE  data[(o + p) + i] = s[i]
  <2>1. p + i \in 1..Len(u) /\ o + (p + i) = (o + p) + i
    BY <1>1, <1>2
  <2> QED
    BY <1>2, <2>1
<1>4. o + p \in Nat /\ (o + p) + Len(s) <= Len(data)
  BY <1>1, <1>2
<1> QED
  BY <1>3, <1>4 DEF Holds

\* From there on, data is what it holds and the rest.
LEMMA HeldFrom ==
  ASSUME NEW V, NEW data \in Seq(V), NEW s \in Seq(V), NEW o, Holds(data, o, s)
  PROVE  /\ From(data, o + 1) = s \o From(data, (o + Len(s)) + 1)
         /\ From(data, (o + Len(s)) + 1) \in Seq(V)
         /\ SubSeq(data, o + 1, o + Len(s)) = s
<1> DEFINE n == Len(s)
           m == o + n
           x == From(data, o + 1)
           y == From(data, m + 1)
           z == s \o y
<1>1. n \in Nat /\ Len(data) \in Nat
  BY LenProperties
<1>2. o \in Nat /\ m <= Len(data) /\ \A i \in 1..n : data[o + i] = s[i]
  BY DEF Holds
<1>3. /\ o + 1 \in 1..Len(data) + 1 /\ m + 1 \in 1..Len(data) + 1 /\ m \in Nat
      /\ Len(data) - (o + 1) + 1 = Len(data) - o
      /\ Len(data) - (m + 1) + 1 = Len(data) - m
      /\ Len(data) - o \in Nat /\ Len(data) - m \in Nat
      /\ Len(data) - o = n + (Len(data) - m)
  BY <1>1, <1>2
<1>4. /\ x \in Seq(V) /\ Len(x) = Len(data) - o
      /\ \A i \in 1..Len(data) - o : x[i] = data[(o + 1) + i - 1]
  BY <1>3, FromProperties
<1>5. /\ y \in Seq(V) /\ Len(y) = Len(data) - m
      /\ \A i \in 1..Len(data) - m : y[i] = data[(m + 1) + i - 1]
  BY <1>3, FromProperties
<1> HIDE DEF x, y
<1>6. /\ z \in Seq(V) /\ Len(z) = n + (Len(data) - m)
      /\ \A i \in 1..n + (Len(data) - m) : z[i] = IF i <= n THEN s[i] ELSE y[i - n]
  <2>1. /\ z \in Seq(V) /\ Len(z) = Len(s) + Len(y)
        /\ \A i \in 1..Len(s) + Len(y) : z[i] = IF i <= Len(s) THEN s[i]
                                                ELSE y[i - Len(s)]
    <3>1. y \in Seq(V)
      BY <1>5
    <3> QED
      BY <3>1, ConcatProperties
  <2>2. Len(y) = Len(data) - m
    BY <1>5
  <2> HIDE DEF z, m
  <2> QED
    BY <2>1, <2>2
<1> HIDE DEF z
<1>7. ASSUME NEW i \in 1..Len(x)
      PROVE  x[i] = z[i]
  <2>1. /\ i \in 1..Len(data) - o /\ i \in 1..n + (Len(data) - m)
        /\ (o + 1) + i - 1 = o + i
    BY <1>2, <1>3, <1>4
  <2>2. x[i] = data[o + i]
    BY <1>4, <2>1
  <2>3. CASE i <= n
    <3>1. i \in 1..n
      BY <1>1, <2>1, <2>3
    <3> QED
      BY <1>2, <1>6, <2>1, <2>2, <2>3, <3>1
  <2>4. CASE ~(i <= n)
    <3>1. i - n \in 1..Len(data) - m /\ (m + 1) + (i - n) - 1 = o + i
      BY <1>1, <1>2, <1>3, <2>1, <2>4
    <3> HIDE DEF m, n
    <3>2. y[i - n] = data[o + i]
      BY <1>5, <3>1
    <3> QED
      BY <1>6, <2>1, <2>2, <2>4, <3>2
  <2> QED
    BY <2>3, <2>4
<1>8. x = z
  <2>1. Len(x) = Len(z)
    BY <1>3, <1>4, <1>6
  <2> QED
    BY <1>4, <1>6, <1>7, <2>1, SeqEqual
<1>9. SubSeq(data, o + 1, m) = s
  <2> DEFINE w == SubSeq(data, o + 1, m)
  <2>1. \A i \in o + 1..m : data[i] \in V
    <3>0. o \in Nat /\ m \in Nat /\ m <= Len(data) /\ Len(data) \in Nat
      BY <1>1, <1>2, <1>3
    <3> HIDE DEF m
    <3>1. \A i \in o + 1..m : i \in 1..Len(data)
      BY <3>0
    <3> QED
      BY <3>1, ElementOfSeq
  <2>2. /\ w \in Seq(V)
        /\ Len(w) = IF o + 1 <= m THEN m - (o + 1) + 1 ELSE 0
        /\ \A i \in 1..m - (o + 1) + 1 : w[i] = data[(o + 1) + i - 1]
    <3>1. o + 1 \in Int /\ m \in Int
      BY <1>1, <1>2
    <3> HIDE DEF m
    <3> QED
      BY <2>1, <3>1, SubSeqProperties
  <2> HIDE DEF w
  <2>3. m - (o + 1) + 1 = n /\ (~(o + 1 <= m) => n = 0)
    BY <1>1, <1>2
  <2>4. Len(w) = n
    BY <1>1, <2>2, <2>3
  <2>5. \A i \in 1..n : w[i] = s[i]
    <3>1. \A i \in 1..n : (o + 1) + i - 1 = o + i
      BY <1>1, <1>2
    <3> QED
      BY <1>2, <2>2, <2>3, <3>1
  <2>6. w = s
    BY <2>2, <2>4, <2>5, SeqEqual
  <2> QED
    BY <2>6 DEF w
<1> QED
  BY <1>5, <1>8, <1>9 DEF x, y, z, m, n

\* Each of the sequences that FlattenSeq joins stands behind those before it.
LEMMA FlattenHolds ==
  ASSUME NEW V, NEW ss \in Seq(Seq(V))
  PROVE  \E at \in [0..Len(ss) -> Nat] :
           /\ at[0] = 0 /\ at[Len(ss)] = Len(FlattenSeq(ss))
           /\ \A i \in 1..Len(ss) :
                /\ at[i] = at[i - 1] + Len(ss[i])
                /\ Holds(FlattenSeq(ss), at[i - 1], ss[i])
<1> DEFINE n == Len(ss)
<1>1. n \in Nat /\ \A i \in 1..n : ss[i] \in Seq(V) /\ Len(ss[i]) \in Nat
  BY ElementOfSeq, LenProperties
<1>2. CASE n = 0
  <2>1. ss = <<>> /\ Len(FlattenSeq(<<>>)) = 0
    BY <1>2, EmptySeq, FlattenEmpty
  <2> DEFINE at == [i \in 0..n |-> 0]
  <2>2. at \in [0..n -> Nat] /\ at[0] = 0 /\ at[n] = 0 /\ 1..n = {}
    BY <1>2
  <2> HIDE DEF at
  <2> QED
    BY <1>2, <2>1, <2>2
<1>3. CASE n > 0
  <2>1. PICK f \in [1..n -> Seq(V)] :
           /\ f[1] = ss[1]
           /\ \A i \in 2..n : f[i] = f[i - 1] \o ss[i]
           /\ FlattenSeq(ss) = f[n]
    BY <1>3, FlattenDef
  <2> DEFINE at == [i \in 0..n |-> IF i = 0 THEN 0 ELSE Len(f[i])]
  <2>2. /\ at \in [0..n -> Nat] /\ at[0] = 0
        /\ \A i \in 1..n : at[i] = Len(f[i]) /\ f[i] \in Seq(V)
    <3>1. ASSUME NEW i \in 0..n
          PROVE  (IF i = 0 THEN 0 ELSE Len(f[i])) \in Nat
      <4>1. i = 0 \/ i \in 1..n
        BY <1>1
      <4> QED
        BY <4>1, LenProperties
    <3>2. 0 \in 0..n /\ \A i \in 1..n : i \in 0..n /\ i # 0
      BY <1>1
    <3> QED
      BY <3>1, <3>2
  <2> HIDE DEF at
  <2> DEFINE Good(i) == \A j \in 1..i : /\ at[j] = at[j - 1] + Len(ss[j])
                                        /\ Holds(f[i], at[j - 1], ss[j])
             S == {i \in Nat : i \in 1..n => Good(i)}
  <2>3. 0 \in S
    OBVIOUS
  <2>4. ASSUME NEW i \in Nat, i \in S
        PROVE  i + 1 \in S
    <3> SUFFICES ASSUME i + 1 \in 1..n PROVE Good(i + 1)
      OBVIOUS
    <3>1. CASE i = 0
      <4>1. 1 \in 1..n /\ f[1] = ss[1] /\ ss[1] \in Seq(V) /\ Len(ss[1]) \in Nat
        BY <1>1, <1>3, <2>1
      <4>2. Holds(f[1], 0, ss[1])
        BY <4>1, HoldsItself
      <4>3. at[1] = Len(ss[1])
        BY <2>2, <4>1
      <4>4. at[1] = at[0] + Len(ss[1])
        BY <2>2, <4>1, <4>3
      <4>5. \A j \in 1..i + 1 : j = 1 /\ j - 1 = 0
        BY <3>1
      <4> QED
        BY <2>2, <3>1, <4>2, <4>4, <4>5
    <3>2. CASE i # 0
      <4>1. i \in 1..n /\ i + 1 \in 2..n /\ (i + 1) - 1 = i
        BY <1>1, <3>2
      <4>2. /\ f[i + 1] = f[i] \o ss[i + 1] /\ f[i] \in Seq(V)
            /\ ss[i + 1] \in Seq(V) /\ Len(f[i]) = at[i]
            /\ Len(f[i + 1]) = at[i + 1]
        BY <1>1, <2>1, <2>2, <4>1
      <4>3. Len(f[i + 1]) = Len(f[i]) + Len(ss[i + 1])
        <5>1. Len(f[i] \o ss[i + 1]) = Len(f[i]) + Len(ss[i + 1])
          BY <4>2, ConcatProperties
        <5> QED
          BY <4>2, <5>1
      <4>4. Holds(f[i + 1], at[i], ss[i + 1])
        BY <4>2, HoldsBehind
      <4>5. ASSUME NEW j \in 1..i
            PROVE  /\ at[j] = at[j - 1] + Len(ss[j])
                   /\ Holds(f[i + 1], at[j - 1], ss[j])
        <5>1. j \in 1..n
          BY <1>1, <4>1
        <5>2. ss[j] \in Seq(V)
          BY <1>1, <5>1
        <5>3. at[j] = at[j - 1] + Len(ss[j]) /\ Holds(f[i], at[j - 1], ss[j])
          BY <2>4, <4>1
        <5>4. Holds(f[i] \o ss[i + 1], at[j - 1], ss[j])
          BY <4>2, <5>2, <5>3, HoldsLonger
        <5> QED
          BY <4>2, <5>3, <5>4
      <4>6. \A j \in 1..i + 1 : j \in 1..i \/ j = i + 1
        OBVIOUS
      <4> QED
        BY <4>1, <4>2, <4>3, <4>4, <4>5, <4>6
    <3> QED
      BY <3>1, <3>2
  <2> HIDE DEF S, Good
  <2>5. \A i \in Nat : i \in S
    BY <2>3, <2>4, Induction
  <2>6. Good(n)
    <3>1. n \in 1..n
      BY <1>1, <1>3
    <3> QED
      BY <1>1, <2>5, <3>1 DEF S
  <2>7. at[n] = Len(FlattenSeq(ss))
    BY <1>1, <1>3, <2>1, <2>2
  <2>8. \A i \in 1..n : /\ at[i] = at[i - 1] + Len(ss[i])
                        /\ Holds(FlattenSeq(ss), at[i - 1], ss[i])
    BY <2>1, <2>6 DEF Good
  <2> QED
    BY <2>2, <2>7, <2>8
<1>4. n = 0 \/ n > 0
  BY <1>1
<1> QED
  BY <1>2, <1>3, <1>4

-----------------------------------------------------------------------------
(* The readers of a fixed width.                                           *)

\* Two functions that go the same way step by step end in the same place.
LEMMA SameAnswer ==
  ASSUME NEW n \in Nat, NEW f, NEW h, f[0] = h[0],
         \A i \in 1..n : f[i - 1] = h[i - 1] => f[i] = h[i]
  PROVE  f[n] = h[n]
<1> DEFINE S == {i \in Nat : i \in 0..n => f[i] = h[i]}
<1>1. 0 \in S
  OBVIOUS
<1>2. ASSUME NEW i \in Nat, i \in S
      PROVE  i + 1 \in S
  <2> SUFFICES ASSUME i + 1 \in 0..n PROVE f[i + 1] = h[i + 1]
    OBVIOUS
  <2>1. i \in 0..n /\ i + 1 \in 1..n /\ (i + 1) - 1 = i
    OBVIOUS
  <2>2. f[i] = h[i]
    BY <1>2, <2>1
  <2> QED
    BY <2>1, <2>2
<1> HIDE DEF S
<1>3. \A i \in Nat : i \in S
  BY <1>1, <1>2, Induction
<1>4. n \in Nat /\ n \in 0..n
  OBVIOUS
<1> QED
  BY <1>3, <1>4 DEF S

\* One byte more, of those that are written of a number.
LEMMA NextByte ==
  ASSUME NEW n \in Int, NEW k \in Nat, NEW i \in 1..k
  PROVE  LET m == n \div Span[k - (i - 1)] IN
         /\ m % Span[i - 1] \in Int
         /\ (n \div Span[k - i]) % Span[i] =
              (m % Span[i - 1]) * Radix + ((n \div Span[k - i]) % Radix)
<1> DEFINE w == Span[k - i]
           v == Span[i - 1]
           q == n \div w
<1>1. /\ k - i \in Nat /\ i - 1 \in Nat /\ (i - 1) + 1 = i
      /\ k - (i - 1) = (k - i) + 1
  OBVIOUS
<1>2. w \in Nat /\ w > 0 /\ v \in Nat /\ v > 0
  BY <1>1, SpanPositive
<1>3. Span[i] = Radix * v /\ Span[k - (i - 1)] = Radix * w
  BY <1>1, SpanStep
<1> HIDE DEF w, v
<1>4. n \div (Radix * w) = q \div Radix
  BY <1>2, RadixType, DivisionStep
<1>5. q \in Int
  BY <1>2, IntDivision
<1> HIDE DEF q
<1>6. q % (v * Radix) = (q % Radix) + ((q \div Radix) % v) * Radix
  BY <1>2, <1>5, RadixType, DivisionStep
<1>7. v * Radix = Radix * v
  BY <1>2, RadixType
<1>8. q \div Radix \in Int /\ (q \div Radix) % v \in Int /\ q % Radix \in Int
  <2>1. q \div Radix \in Int /\ q % Radix \in Int
    BY <1>5, RadixType, IntDivision
  <2>2. (q \div Radix) % v \in Int
    BY <1>2, <2>1, IntDivision
  <2> QED
    BY <2>1, <2>2
<1> DEFINE p == (q \div Radix) % v
           d == q % Radix
<1>9. q % (Radix * v) = p * Radix + d /\ p \in Int
  <2>1. q % (Radix * v) = d + p * Radix
    BY <1>6, <1>7
  <2>2. p \in Int /\ d \in Int
    BY <1>8
  <2> HIDE DEF p, d
  <2>3. p * Radix \in Int
    BY <2>2, RadixType
  <2> QED
    BY <2>1, <2>2, <2>3
<1> HIDE DEF p, d
<1>10. (n \div Span[k - (i - 1)]) % Span[i - 1] = p
  BY <1>3, <1>4 DEF p, v
<1>11. (n \div Span[k - i]) % Span[i] = q % (Radix * v)
  BY <1>3 DEF q, w
<1> QED
  BY <1>9, <1>10, <1>11 DEF d, q, w

\* What is written of a number is read back, up to its width, by a reader that
\* goes exactly as far (helper.cpp:5-32, 59-108).
THEOREM PutThenGet ==
  ASSUME NEW data, NEW o, NEW n \in Int, NEW k \in Nat,
         Holds(data, o, Put(n, k))
  PROVE  Get(data, o, k) = [value |-> n % Span[k], offset |-> o + k]
<1> DEFINE f == CHOOSE g : g = [i \in 0..k |->
                                  IF i = 0 THEN 0
                                           ELSE g[i - 1] * Radix + data[o + i]]
           h == [i \in 0..k |-> (n \div Span[k - i]) % Span[i]]
<1>1. Len(Put(n, k)) = k
  BY PutType
<1>2. ASSUME NEW i \in 1..k
      PROVE  data[o + i] = (n \div Span[k - i]) % Radix
  <2>1. data[o + i] = Put(n, k)[i]
    BY <1>1 DEF Holds
  <2> QED
    BY <2>1 DEF Put
<1>3. h[0] = 0
  <2>1. k - 0 \in Nat /\ 0 \in 0..k
    OBVIOUS
  <2> DEFINE w == Span[k - 0]
             q == n \div w
  <2>2. w \in Nat /\ w > 0
    BY <2>1, SpanPositive
  <2> HIDE DEF w
  <2>3. q \in Int
    BY <2>2, IntDivision
  <2> HIDE DEF q
  <2>4. q % 1 = 0
    BY <2>3
  <2>5. h[0] = q % Span[0]
    BY <2>1 DEF q, w
  <2> QED
    BY <2>4, <2>5, SpanStep
<1>4. ASSUME NEW i \in 1..k
      PROVE  /\ i - 1 \in 0..k /\ i \in 0..k /\ i # 0
             /\ h[i] = h[i - 1] * Radix + data[o + i]
  <2>1. i - 1 \in 0..k /\ i \in 0..k /\ i # 0
    OBVIOUS
  <2>2. (n \div Span[k - i]) % Span[i] =
          ((n \div Span[k - (i - 1)]) % Span[i - 1]) * Radix
            + ((n \div Span[k - i]) % Radix)
    BY NextByte
  <2>3. h[i] = (n \div Span[k - i]) % Span[i]
    BY <2>1
  <2>4. h[i - 1] = (n \div Span[k - (i - 1)]) % Span[i - 1]
    BY <2>1
  <2> HIDE DEF h
  <2> QED
    BY <1>2, <2>1, <2>2, <2>3, <2>4
<1>5. h[k] = n % Span[k]
  <2>1. k \in 0..k /\ k - k = 0
    OBVIOUS
  <2>2. n \div 1 = n
    OBVIOUS
  <2>3. h[k] = (n \div Span[k - k]) % Span[k]
    BY <2>1
  <2> HIDE DEF h
  <2> QED
    BY <2>1, <2>2, <2>3, SpanStep
<1>6. h = [i \in 0..k |-> IF i = 0 THEN 0 ELSE h[i - 1] * Radix + data[o + i]]
  <2>1. h = [i \in 0..k |-> h[i]]
    OBVIOUS
  <2> HIDE DEF h
  <2>2. \A i \in 0..k : h[i] = IF i = 0 THEN 0 ELSE h[i - 1] * Radix + data[o + i]
    <3>1. \A i \in 0..k : i = 0 \/ i \in 1..k
      OBVIOUS
    <3> QED
      BY <1>3, <1>4, <3>1
  <2> QED
    BY <2>1, <2>2, Zenon
<1> HIDE DEF h
<1>7. f = [i \in 0..k |-> IF i = 0 THEN 0 ELSE f[i - 1] * Radix + data[o + i]]
  BY <1>6
<1>8. Get(data, o, k) = [value |-> f[k], offset |-> o + k]
  BY DEF Get
<1> HIDE DEF f
<1>9. f[k] = h[k]
  <2>1. 0 \in 0..k
    OBVIOUS
  <2>2. f[0] = 0
    BY <1>7, <2>1
  <2>3. \A i \in 1..k : f[i] = f[i - 1] * Radix + data[o + i]
    <3>1. \A i \in 1..k : i \in 0..k /\ i # 0
      OBVIOUS
    <3>2. \A i \in 0..k : f[i] = IF i = 0 THEN 0
                                 ELSE f[i - 1] * Radix + data[o + i]
      BY <1>7, Zenon
    <3> QED
      BY <3>1, <3>2, Zenon
  <2>4. \A i \in 1..k : f[i - 1] = h[i - 1] => f[i] = h[i]
    <3>1. SUFFICES ASSUME NEW i \in 1..k, f[i - 1] = h[i - 1]
                   PROVE  f[i] = h[i]
      OBVIOUS
    <3>2. f[i] = f[i - 1] * Radix + data[o + i]
      BY <2>3
    <3>3. h[i] = h[i - 1] * Radix + data[o + i]
      BY <1>4
    <3> QED
      BY <3>1, <3>2, <3>3
  <2>5. f[0] = h[0]
    BY <1>3, <2>2
  <2> QED
    BY <2>4, <2>5, SameAnswer, Zenon
<1> QED
  BY <1>5, <1>8, <1>9

\* A caller that casts gets the number itself when it has that width
\* (helper.cpp:9-32, 189-192).
THEOREM PutThenGetSigned ==
  ASSUME NEW data, NEW o, NEW k \in Nat \ {0}, NEW n \in SignedOf(k),
         Holds(data, o, Put(n, k))
  PROVE  GetSigned(data, o, k) = [value |-> n, offset |-> o + k]
<1>1. n \in Int /\ Cast(n % Span[k], k) = n
  BY CastBack
<1>2. Get(data, o, k) = [value |-> n % Span[k], offset |-> o + k]
  BY <1>1, PutThenGet
<1> QED
  BY <1>1, <1>2 DEF GetSigned

-----------------------------------------------------------------------------
(* Fields.                                                                 *)

\* A word has a byte or more.
LEMMA WordBytesType ==
  /\ WordBytes \in Nat \ {0} /\ 2 * WordBytes \in Nat \ {0}
  /\ 1 \in Nat \ {0} /\ 2 \in Nat \ {0}
<1>1. WordBytes # 0
  <2>1. SUFFICES ASSUME WordBytes = 0 PROVE FALSE
    OBVIOUS
  <2>2. Word <= 1
    BY <2>1, SpanStep, HelperAssumption
  <2> QED
    BY <2>2, Constants
<1>2. WordBytes \in Nat
  BY HelperAssumption
<1> QED
  BY <1>1, <1>2

\* A signed number of so many bytes, as its writer writes it, and a reader that
\* casts.
LEMMA SignedField ==
  ASSUME NEW data, NEW o \in Nat, NEW k \in Nat \ {0}, NEW n \in SignedOf(k),
         Holds(data, o, Put(n, k))
  PROVE  GetSigned(data, o, k) = [value |-> n, offset |-> o + Len(Put(n, k))]
<1>1. n \in Int
  BY CastBack
<1>2. Len(Put(n, k)) = k
  BY <1>1, PutType
<1> QED
  BY <1>2, PutThenGetSigned

\* The same for a number without a sign ...
LEMMA UnsignedField ==
  ASSUME NEW data, NEW o \in Nat, NEW k \in Nat \ {0}, NEW n \in UnsignedOf(k),
         Holds(data, o, Put(n, k))
  PROVE  Get(data, o, k) = [value |-> n, offset |-> o + Len(Put(n, k))]
<1>1. n \in Int
  BY CastBack
<1>2. Len(Put(n, k)) = k
  BY <1>1, PutType
<1>3. n % Span[k] = n
  <2>1. Span[k] \in Nat
    BY SpanPositive
  <2>2. n \in Nat /\ n < Span[k]
    BY <2>1 DEF UnsignedOf
  <2> QED
    BY <2>1, <2>2, Smaller
<1> QED
  BY <1>1, <1>2, <1>3, PutThenGet

\* ... and for bits that are written as a signed number.
LEMMA BitsField ==
  ASSUME NEW data, NEW o \in Nat, NEW k \in Nat \ {0}, NEW n \in UnsignedOf(k),
         Holds(data, o, Put(Cast(n, k), k))
  PROVE  Get(data, o, k) = [value |-> n, offset |-> o + Len(Put(Cast(n, k), k))]
<1>1. Cast(n, k) \in Int /\ Cast(n, k) % Span[k] = n
  BY CastBack
<1>2. Len(Put(Cast(n, k), k)) = k
  BY <1>1, PutType
<1> QED
  BY <1>1, <1>2, PutThenGet

\* What writeVarInt writes, and what readVarInt makes of it.
LEMMA VarIntField ==
  ASSUME NEW data \in Seq(Byte), NEW o \in Nat, NEW n \in Int32,
         Holds(data, o, WriteVarInt(n))
  PROVE  ReadVarInt(From(data, o + 1)) =
           [value |-> n, bytesRead |-> Len(WriteVarInt(n))]
<1> DEFINE e == WriteVarInt(n)
           r == From(data, (o + Len(e)) + 1)
<1>1. e = EncodeVarInt(n) /\ e \in Seq(Byte)
  <2>1. Unsigned(n) \in Nat /\ n \in Int
    BY SignedUnsigned DEF Int32
  <2> QED
    BY <2>1, WriteBitsAgrees, EncodeType DEF WriteVarInt, EncodeVarInt
<1>2. Holds(data, o, e)
  OBVIOUS
<1> HIDE DEF e
<1>3. From(data, o + 1) = e \o r /\ r \in Seq(Byte)
  <2>1. e \in Seq(Byte)
    BY <1>1
  <2>2. From(data, o + 1) = e \o r
    BY <1>2, <2>1, HeldFrom, ZenonT(60)
  <2>3. r \in Seq(Byte)
    BY <1>2, <2>1, HeldFrom, Zenon
  <2> QED
    BY <2>2, <2>3
<1> HIDE DEF r
<1>4. ReadVarInt(e \o r) = [value |-> n, bytesRead |-> Len(e)]
  BY <1>1, <1>3, Decoding
<1> QED
  BY <1>3, <1>4 DEF e

\* A VarInt is bytes.
LEMMA WriteVarIntType ==
  ASSUME NEW n \in Int32
  PROVE  WriteVarInt(n) \in Seq(Byte) /\ WriteVarInt(n) = EncodeVarInt(n)
<1>1. Unsigned(n) \in Nat /\ n \in Int
  BY SignedUnsigned DEF Int32
<1> QED
  BY <1>1, WriteBitsAgrees, EncodeType DEF WriteVarInt, EncodeVarInt

Strings == {s \in Seq(Byte) : Len(s) \in Int32}

\* A string, with its length before it, is read whole (helper.cpp:147-177).
THEOREM StringReadBack ==
  ASSUME NEW data \in Seq(Byte), NEW o \in Nat, NEW str \in Strings,
         Holds(data, o, WriteString(str))
  PROVE  ReadString(data, o) =
           [value |-> str, offset |-> o + Len(WriteString(str))]
<1> DEFINE e == WriteVarInt(Len(str))
           n == Len(str)
           m == Len(e)
<1>1. str \in Seq(Byte) /\ n \in Int32 /\ n \in Nat
  BY LenProperties DEF Strings
<1>2. e \in Seq(Byte)
  BY <1>1, WriteVarIntType
<1>3. Holds(data, o, e \o str)
  BY DEF WriteString
<1> HIDE DEF e, n
<1>4. /\ Holds(data, o, e) /\ Holds(data, o + m, str)
      /\ Len(e \o str) = m + Len(str) /\ m \in Nat /\ Len(data) \in Nat
  BY <1>1, <1>2, <1>3, HoldsParts
<1>5. ReadVarInt(From(data, o + 1)) = [value |-> n, bytesRead |-> m]
  <2>1. Holds(data, o, WriteVarInt(n))
    BY <1>4 DEF e, n
  <2> QED
    BY <1>1, <2>1, VarIntField DEF e, n
<1>6. SubSeq(data, (o + m) + 1, (o + m) + Len(str)) = str
  <2>1. str \in Seq(Byte) /\ Holds(data, o + m, str)
    BY <1>1, <1>4
  <2> HIDE DEF m
  <2> QED
    BY <2>1, HeldFrom
<1>7. (o + m) + n <= Len(data) /\ o + m \in Nat
  BY <1>1, <1>4 DEF Holds, n
<1>8. ~OutOfBounds(data, o + m, n)
  BY <1>1, <1>4, <1>7 DEF OutOfBounds
<1>9. [value |-> n, bytesRead |-> m] # NoVarInt
  <2>1. "value" \in DOMAIN [value |-> n, bytesRead |-> m]
    OBVIOUS
  <2>2. "value" \notin DOMAIN NoVarInt
    BY DEF NoVarInt
  <2> QED
    BY <2>1, <2>2, Zenon
<1>10. ReadString(data, o) =
         [value |-> SubSeq(data, (o + m) + 1, (o + m) + n),
          offset |-> (o + m) + n]
  <2> DEFINE v == ReadVarInt(From(data, o + 1))
             p == o + m
  <2>1. v.value = n /\ v.bytesRead = m /\ v # NoVarInt
    BY <1>5, <1>9
  <2>2. ReadString(data, o) =
          IF v = NoVarInt \/ OutOfBounds(data, o + v.bytesRead, v.value)
            THEN NoString
            ELSE [value |-> SubSeq(data, (o + v.bytesRead) + 1,
                                   (o + v.bytesRead) + v.value),
                  offset |-> (o + v.bytesRead) + v.value]
    BY DEF ReadString
  <2> HIDE DEF v, m
  <2> QED
    BY <1>8, <2>1, <2>2
<1>11. (o + m) + n = o + Len(WriteString(str))
  <2>1. Len(WriteString(str)) = m + n
    BY <1>4 DEF WriteString, e, n
  <2> QED
    BY <1>1, <1>4, <2>1
<1> QED
  BY <1>6, <1>10, <1>11 DEF n

-----------------------------------------------------------------------------
(* The inventory.                                                          *)

\* A sequence grows by its next element.
LEMMA FirstAppend ==
  ASSUME NEW V, NEW s \in Seq(V), NEW i \in 1..Len(s)
  PROVE  Append(SubSeq(s, 1, i - 1), s[i]) = SubSeq(s, 1, i)
<1> DEFINE x == SubSeq(s, 1, i - 1)
           y == SubSeq(s, 1, i)
           z == Append(x, s[i])
<1>1. i - 1 \in 0..Len(s) /\ i \in 0..Len(s) /\ (i - 1) + 1 = i /\ s[i] \in V
  BY LenProperties, ElementOfSeq
<1>2. x \in Seq(V) /\ Len(x) = i - 1 /\ \A j \in 1..i - 1 : x[j] = s[j]
  BY <1>1, FirstProperties
<1>3. y \in Seq(V) /\ Len(y) = i /\ \A j \in 1..i : y[j] = s[j]
  BY <1>1, FirstProperties
<1> HIDE DEF x, y
<1>4. /\ z \in Seq(V) /\ Len(z) = i /\ z[i] = s[i]
      /\ \A j \in 1..i - 1 : z[j] = x[j]
  <2>1. /\ z \in Seq(V) /\ Len(z) = Len(x) + 1 /\ z[Len(x) + 1] = s[i]
        /\ \A j \in 1..Len(x) : z[j] = x[j]
    BY <1>1, <1>2, AppendProperties
  <2> HIDE DEF z
  <2> QED
    BY <1>1, <1>2, <2>1
<1> HIDE DEF z
<1>5. \A j \in 1..i : z[j] = y[j]
  <2>1. \A j \in 1..i : j = i \/ j \in 1..i - 1
    BY <1>1
  <2> QED
    BY <1>2, <1>3, <1>4, <2>1
<1>6. z = y
  BY <1>3, <1>4, <1>5, SeqEqual
<1> QED
  BY <1>6 DEF x, y, z

\* What a slot is.
LEMMA SlotType ==
  ASSUME NEW slot \in Slot
  PROVE  /\ slot.id \in SignedOf(2)
         /\ slot.id = -1 => slot = EmptySlot
         /\ slot.id # -1 =>
              /\ slot.count \in SignedOf(1) /\ slot.damage \in SignedOf(2)
              /\ slot = [id |-> slot.id, count |-> slot.count,
                         damage |-> slot.damage]
<1>1. CASE slot = EmptySlot
  <2>1. -1 \in SignedOf(2)
    <3>1. Span[2] \div 2 \in Nat /\ Span[2] = 2 * (Span[2] \div 2) /\ Span[2] > 0
      BY SpanEven, SpanPositive
    <3> QED
      BY <3>1 DEF SignedOf
  <2>2. slot.id = -1
    BY <1>1 DEF EmptySlot
  <2> QED
    BY <1>1, <2>1, <2>2
<1>2. CASE slot \in [id : SignedOf(2) \ {-1}, count : SignedOf(1),
                     damage : SignedOf(2)]
  BY <1>2
<1> QED
  BY <1>1, <1>2 DEF Slot

\* The parts of a packet make up its length.
LEMMA Joined ==
  ASSUME NEW V, NEW s \in Seq(V), NEW t \in Seq(V)
  PROVE  s \o t \in Seq(V) /\ Len(s \o t) = Len(s) + Len(t)
BY ConcatProperties

Body7(slot) ==
  WriteInt8(slot.count) \o WriteInt16(slot.damage) \o WriteInt16(-1)

\* The parts of a slot that holds something.
LEMMA WriteSlotParts ==
  ASSUME NEW slot \in Slot
  PROVE  /\ WriteSlot(slot) \in Seq(Byte)
         /\ slot.id = -1 => /\ WriteSlot(slot) = WriteInt16(slot.id)
                            /\ Len(WriteSlot(slot)) = 2
         /\ slot.id # -1 =>
              /\ WriteSlot(slot) = WriteInt16(slot.id) \o Body7(slot)
              /\ WriteInt8(slot.count) \o WriteInt16(slot.damage) \in Seq(Byte)
              /\ Body7(slot) \in Seq(Byte)
              /\ Len(WriteSlot(slot)) = 7
<1> DEFINE id == WriteInt16(slot.id)
           c == WriteInt8(slot.count)
           d == WriteInt16(slot.damage)
           e == WriteInt16(-1)
<1>1. id \in Seq(Byte) /\ Len(id) = 2
  BY SlotType, CastBack, PutType, WordBytesType DEF WriteInt16
<1>2. CASE slot.id = -1
  <2>1. WriteSlot(slot) = id \o <<>>
    BY <1>2 DEF WriteSlot
  <2>2. id \o <<>> = id
    BY <1>1, ConcatEmptySeq
  <2> HIDE DEF id
  <2>3. WriteSlot(slot) = id
    BY <2>1, <2>2
  <2> QED
    BY <1>1, <1>2, <2>3 DEF id
<1>3. CASE slot.id # -1
  <2>1. slot.count \in Int /\ slot.damage \in Int
    BY <1>3, SlotType, CastBack, WordBytesType
  <2>2. /\ c \in Seq(Byte) /\ Len(c) = 1 /\ d \in Seq(Byte) /\ Len(d) = 2
        /\ e \in Seq(Byte) /\ Len(e) = 2
    <3>1. c \in Seq(Byte) /\ Len(c) = 1
      BY <2>1, PutType DEF WriteInt8
    <3>2. d \in Seq(Byte) /\ Len(d) = 2
      BY <2>1, PutType DEF WriteInt16
    <3>3. e \in Seq(Byte) /\ Len(e) = 2
      <4>1. -1 \in Int /\ 2 \in Nat
        OBVIOUS
      <4> QED
        BY <4>1, PutType DEF WriteInt16
    <3> QED
      BY <3>1, <3>2, <3>3
  <2>3. WriteSlot(slot) = id \o ((c \o d) \o e)
    BY <1>3 DEF WriteSlot
  <2>4. Body7(slot) = (c \o d) \o e
    BY DEF Body7
  <2> HIDE DEF id, c, d, e
  <2>5. c \o d \in Seq(Byte) /\ Len(c \o d) = Len(c) + Len(d)
    BY <2>2, Joined
  <2> DEFINE cd == c \o d
  <2> HIDE DEF cd
  <2>6. cd \o e \in Seq(Byte) /\ Len(cd \o e) = Len(cd) + Len(e) /\ Len(cd) = 3
    <3>1. cd \in Seq(Byte) /\ Len(cd) = 3
      BY <2>2, <2>5 DEF cd
    <3> QED
      BY <2>2, <3>1, Joined
  <2> DEFINE cde == cd \o e
  <2> HIDE DEF cde
  <2>7. id \o cde \in Seq(Byte) /\ Len(id \o cde) = 7
    <3>1. cde \in Seq(Byte) /\ Len(cde) = 5
      BY <2>2, <2>6 DEF cde
    <3>2. id \o cde \in Seq(Byte) /\ Len(id \o cde) = Len(id) + Len(cde)
      BY <1>1, <3>1, Joined
    <3> QED
      BY <1>1, <3>1, <3>2
  <2>8. WriteSlot(slot) = id \o cde /\ Body7(slot) = cde
    BY <2>3, <2>4 DEF cde, cd
  <2>9. c \o d \in Seq(Byte) /\ cde \in Seq(Byte)
    BY <2>5, <2>6 DEF cde
  <2>10. WriteSlot(slot) = id \o Body7(slot)
    BY <2>8
  <2> QED
    BY <1>3, <2>7, <2>8, <2>9, <2>10 DEF id, c, d
<1> QED
  BY <1>2, <1>3

\* The client takes a slot as writeSlot wrote it, and goes as far, whether it
\* is empty or not (helper.cpp:178-188).
THEOREM SlotReadBack ==
  ASSUME NEW data \in Seq(Byte), NEW o \in Nat, NEW slot \in Slot,
         Holds(data, o, WriteSlot(slot))
  PROVE  TakeSlot(data, o) =
           [value |-> slot, offset |-> o + Len(WriteSlot(slot))]
<1> DEFINE i == WriteInt16(slot.id)
           c == WriteInt8(slot.count)
           d == WriteInt16(slot.damage)
           e == WriteInt16(-1)
           idR == GetSigned(data, o, 2)
           countR == GetSigned(data, idR.offset, 1)
           damageR == GetSigned(data, countR.offset, 2)
<1>1. slot.id \in SignedOf(2)
  BY SlotType
<1>2. i \in Seq(Byte) /\ Len(i) = 2 /\ i = Put(slot.id, 2)
  BY <1>1, CastBack, PutType, WordBytesType DEF WriteInt16
<1>3. TakeSlot(data, o) =
        IF idR.value = -1
          THEN [value |-> EmptySlot, offset |-> idR.offset]
          ELSE [value |-> [id |-> idR.value, count |-> countR.value,
                           damage |-> damageR.value],
                offset |-> damageR.offset + 2]
  BY DEF TakeSlot
<1>4. CASE slot.id = -1
  <2>1. WriteSlot(slot) = i /\ Len(WriteSlot(slot)) = 2 /\ slot = EmptySlot
    BY <1>4, WriteSlotParts, SlotType
  <2>2. Holds(data, o, Put(slot.id, 2))
    BY <1>2, <2>1
  <2>3. idR = [value |-> slot.id, offset |-> o + 2]
    BY <1>1, <2>2, PutThenGetSigned, WordBytesType
  <2> HIDE DEF i, idR, countR, damageR
  <2>4. idR.value = -1 /\ idR.offset = o + 2
    BY <1>4, <2>3
  <2> QED
    BY <1>3, <2>1, <2>4
<1>5. CASE slot.id # -1
  <2>1. /\ slot.count \in SignedOf(1) /\ slot.damage \in SignedOf(2)
        /\ slot = [id |-> slot.id, count |-> slot.count, damage |-> slot.damage]
    BY <1>5, SlotType
  <2>2. slot.count \in Int /\ slot.damage \in Int
    BY <2>1, CastBack, WordBytesType
  <2>3. /\ c \in Seq(Byte) /\ Len(c) = 1 /\ c = Put(slot.count, 1)
        /\ d \in Seq(Byte) /\ Len(d) = 2 /\ d = Put(slot.damage, 2)
        /\ e \in Seq(Byte)
    <3>1. c \in Seq(Byte) /\ Len(c) = 1 /\ c = Put(slot.count, 1)
      BY <2>2, PutType DEF WriteInt8
    <3>2. d \in Seq(Byte) /\ Len(d) = 2 /\ d = Put(slot.damage, 2)
      BY <2>2, PutType DEF WriteInt16
    <3>3. e \in Seq(Byte)
      <4>1. -1 \in Int /\ 2 \in Nat
        OBVIOUS
      <4> QED
        BY <4>1, PutType DEF WriteInt16
    <3> QED
      BY <3>1, <3>2, <3>3
  <2>4. /\ WriteSlot(slot) = i \o Body7(slot) /\ c \o d \in Seq(Byte)
        /\ Body7(slot) \in Seq(Byte) /\ Len(WriteSlot(slot)) = 7
    BY <1>5, WriteSlotParts
  <2>5. Body7(slot) = (c \o d) \o e
    BY DEF Body7
  <2> HIDE DEF i, c, d, e
  <2>6. Holds(data, o, i) /\ Holds(data, o + Len(i), Body7(slot))
    <3> DEFINE b == Body7(slot)
    <3>1. i \in Seq(Byte) /\ b \in Seq(Byte) /\ Holds(data, o, i \o b)
      BY <1>2, <2>4
    <3> HIDE DEF b
    <3>2. Holds(data, o, i) /\ Holds(data, o + Len(i), b)
      BY <3>1, HoldsParts
    <3> QED
      BY <3>2 DEF b
  <2> DEFINE cd == c \o d
  <2>7. cd \in Seq(Byte) /\ Body7(slot) = cd \o e
    BY <2>4, <2>5
  <2> HIDE DEF cd
  <2>8. Holds(data, o + 2, cd)
    <3>1. Holds(data, o + 2, cd \o e)
      BY <1>2, <2>6, <2>7
    <3> QED
      BY <2>3, <2>7, <3>1, HoldsParts
  <2>9. Holds(data, o + 2, c) /\ Holds(data, (o + 2) + 1, d)
    <3>1. Holds(data, o + 2, c \o d)
      BY <2>8 DEF cd
    <3>2. Holds(data, o + 2, c) /\ Holds(data, (o + 2) + Len(c), d)
      BY <2>3, <3>1, HoldsParts
    <3> QED
      BY <2>3, <3>2
  <2>10. idR = [value |-> slot.id, offset |-> o + 2]
    <3>1. Holds(data, o, Put(slot.id, 2))
      BY <1>2, <2>6
    <3> QED
      BY <1>1, <3>1, PutThenGetSigned, WordBytesType
  <2> HIDE DEF idR
  <2>11. idR.value = slot.id /\ idR.offset = o + 2
    BY <2>10
  <2>12. countR = [value |-> slot.count, offset |-> (o + 2) + 1]
    <3>1. Holds(data, o + 2, Put(slot.count, 1))
      BY <2>3, <2>9
    <3>2. GetSigned(data, o + 2, 1) = [value |-> slot.count,
                                       offset |-> (o + 2) + 1]
      BY <2>1, <3>1, PutThenGetSigned, WordBytesType
    <3> QED
      BY <2>11, <3>2
  <2> HIDE DEF countR
  <2>13. countR.value = slot.count /\ countR.offset = (o + 2) + 1
    BY <2>12
  <2>14. damageR = [value |-> slot.damage, offset |-> ((o + 2) + 1) + 2]
    <3>1. Holds(data, (o + 2) + 1, Put(slot.damage, 2))
      BY <2>3, <2>9
    <3>2. GetSigned(data, (o + 2) + 1, 2) = [value |-> slot.damage,
                                             offset |-> ((o + 2) + 1) + 2]
      BY <2>1, <3>1, PutThenGetSigned, WordBytesType
    <3> QED
      BY <2>13, <3>2
  <2> HIDE DEF damageR
  <2>15. damageR.value = slot.damage /\ damageR.offset + 2 = o + 7
    <3>1. damageR.value = slot.damage /\ damageR.offset = ((o + 2) + 1) + 2
      BY <2>14
    <3> QED
      BY <3>1
  <2>16. TakeSlot(data, o) =
           [value |-> [id |-> idR.value, count |-> countR.value,
                       damage |-> damageR.value],
            offset |-> damageR.offset + 2]
    BY <1>3, <1>5, <2>11
  <2> QED
    BY <2>1, <2>4, <2>11, <2>13, <2>15, <2>16
<1> QED
  BY <1>4, <1>5

Inventories == {s \in Seq(Slot) : Len(s) \in SignedOf(2)}

\* The slots of an inventory as bytes.
SlotBytes(slots) == [i \in 1..Len(slots) |-> WriteSlot(slots[i])]

\* The parts of an inventory.
LEMMA InventoryParts ==
  ASSUME NEW slots \in Inventories
  PROVE  LET head == WriteInt8(0) \o WriteInt16(Len(slots))
             tail == FlattenSeq(SlotBytes(slots))
         IN  /\ FullInventory(slots) = head \o tail
             /\ slots \in Seq(Slot) /\ Len(slots) \in Nat /\ Len(slots) \in SignedOf(2)
             /\ WriteInt8(0) \in Seq(Byte) /\ Len(WriteInt8(0)) = 1
             /\ WriteInt16(Len(slots)) = Put(Len(slots), 2)
             /\ WriteInt16(Len(slots)) \in Seq(Byte)
             /\ Len(WriteInt16(Len(slots))) = 2
             /\ SlotBytes(slots) \in Seq(Seq(Byte))
             /\ Len(SlotBytes(slots)) = Len(slots)
             /\ head \in Seq(Byte) /\ Len(head) = 3 /\ tail \in Seq(Byte)
             /\ FullInventory(slots) \in Seq(Byte)
             /\ Len(FullInventory(slots)) = 3 + Len(tail)
<1> DEFINE a == WriteInt8(0)
           b == WriteInt16(Len(slots))
           t == FlattenSeq(SlotBytes(slots))
<1>1. slots \in Seq(Slot) /\ Len(slots) \in Nat /\ Len(slots) \in SignedOf(2)
  BY LenProperties DEF Inventories
<1>2. a \in Seq(Byte) /\ Len(a) = 1
  <2>1. 0 \in Int /\ 1 \in Nat
    OBVIOUS
  <2> QED
    BY <2>1, PutType DEF WriteInt8
<1>3. b \in Seq(Byte) /\ Len(b) = 2 /\ b = Put(Len(slots), 2)
  <2>1. Len(slots) \in Int /\ 2 \in Nat
    BY <1>1
  <2> QED
    BY <2>1, PutType DEF WriteInt16
<1>4. SlotBytes(slots) \in Seq(Seq(Byte)) /\ Len(SlotBytes(slots)) = Len(slots)
  <2>1. \A i \in 1..Len(slots) : WriteSlot(slots[i]) \in Seq(Byte)
    BY <1>1, ElementOfSeq, WriteSlotParts
  <2> QED
    BY <1>1, <2>1 DEF SlotBytes
<1>5. t \in Seq(Byte)
  BY <1>4, FlattenType
<1>6. FullInventory(slots) = (a \o b) \o t
  BY DEF FullInventory, SlotBytes
<1> HIDE DEF a, b, t
<1> DEFINE h == a \o b
<1>7. h \in Seq(Byte) /\ Len(h) = 3
  <2>1. h \in Seq(Byte) /\ Len(h) = Len(a) + Len(b)
    BY <1>2, <1>3, Joined
  <2> HIDE DEF h
  <2>2. Len(a) = 1 /\ Len(b) = 2
    BY <1>2, <1>3
  <2> QED
    BY <2>1, <2>2
<1> HIDE DEF h
<1>8. h \o t \in Seq(Byte) /\ Len(h \o t) = 3 + Len(t)
  <2>1. h \o t \in Seq(Byte) /\ Len(h \o t) = Len(h) + Len(t)
    BY <1>5, <1>7, Joined
  <2> QED
    BY <1>7, <2>1
<1>9. FullInventory(slots) = h \o t
  BY <1>6 DEF h
<1>10. FullInventory(slots) \in Seq(Byte) /\ Len(FullInventory(slots)) = 3 + Len(t)
  BY <1>8, <1>9
<1> QED
  BY <1>1, <1>2, <1>3, <1>4, <1>5, <1>7, <1>9, <1>10 DEF h, a, b, t

\* The client takes the window items packet as sendFullInventory wrote it, slot
\* by slot, empty ones or not (tcpclient.cpp:98-115, helper.cpp:178-188).
THEOREM InventoryReadBack ==
  ASSUME NEW data \in Seq(Byte), NEW o \in Nat, NEW slots \in Inventories,
         Holds(data, o, FullInventory(slots))
  PROVE  TakeInventory(data, o) =
           [value |-> slots, offset |-> o + Len(FullInventory(slots))]
<1> DEFINE n == Len(slots)
           ss == SlotBytes(slots)
           tail == FlattenSeq(ss)
           head == WriteInt8(0) \o WriteInt16(n)
           nR == GetSigned(data, o + 1, 2)
           p == o + 3
<1>1. /\ FullInventory(slots) = head \o tail
      /\ slots \in Seq(Slot) /\ n \in Nat /\ n \in SignedOf(2)
      /\ WriteInt8(0) \in Seq(Byte) /\ Len(WriteInt8(0)) = 1
      /\ WriteInt16(n) = Put(n, 2) /\ WriteInt16(n) \in Seq(Byte)
      /\ ss \in Seq(Seq(Byte)) /\ Len(ss) = n
      /\ head \in Seq(Byte) /\ Len(head) = 3 /\ tail \in Seq(Byte)
      /\ Len(FullInventory(slots)) = 3 + Len(tail)
  BY InventoryParts
<1>2. ss \in Seq(Seq(Byte)) /\ Len(ss) = n /\ n \in Nat /\ slots \in Seq(Slot)
  BY <1>1
<1>3. \A i \in 1..n : ss[i] = WriteSlot(slots[i]) /\ slots[i] \in Slot
  BY <1>2, ElementOfSeq DEF SlotBytes
<1> HIDE DEF ss, n
<1>4. PICK at \in [0..n -> Nat] :
           /\ at[0] = 0 /\ at[n] = Len(tail)
           /\ \A i \in 1..n : /\ at[i] = at[i - 1] + Len(ss[i])
                              /\ Holds(tail, at[i - 1], ss[i])
  <2>1. \E at \in [0..Len(ss) -> Nat] :
           /\ at[0] = 0 /\ at[Len(ss)] = Len(FlattenSeq(ss))
           /\ \A i \in 1..Len(ss) :
                /\ at[i] = at[i - 1] + Len(ss[i])
                /\ Holds(FlattenSeq(ss), at[i - 1], ss[i])
    BY <1>2, FlattenHolds
  <2> QED
    BY <1>2, <2>1
<1>5. tail \in Seq(Byte) /\ head \in Seq(Byte) /\ Len(head) = 3
  BY <1>1
<1>6. Holds(data, o, head) /\ Holds(data, p, tail)
  <2> HIDE DEF head, tail
  <2>1. Holds(data, o, head \o tail)
    BY <1>1
  <2>2. Holds(data, o, head) /\ Holds(data, o + Len(head), tail)
    BY <1>5, <2>1, HoldsParts
  <2> QED
    BY <1>5, <2>2
<1>7. nR = [value |-> n, offset |-> p]
  <2> DEFINE a == WriteInt8(0)
             b == WriteInt16(n)
  <2>1. a \in Seq(Byte) /\ Len(a) = 1 /\ b \in Seq(Byte) /\ b = Put(n, 2)
    BY <1>1
  <2>2. Holds(data, o, a \o b)
    BY <1>6
  <2> HIDE DEF a, b
  <2>3. Holds(data, o + 1, b)
    <3>1. Holds(data, o + Len(a), b)
      BY <2>1, <2>2, HoldsParts
    <3> QED
      BY <2>1, <3>1
  <2>4. Holds(data, o + 1, Put(n, 2)) /\ n \in SignedOf(2)
    BY <1>1, <2>1, <2>3
  <2>5. GetSigned(data, o + 1, 2) = [value |-> n, offset |-> (o + 1) + 2]
    BY <2>4, PutThenGetSigned, WordBytesType
  <2>6. (o + 1) + 2 = p
    OBVIOUS
  <2> QED
    BY <2>5, <2>6
<1>8. nR.value = n /\ nR.offset = p /\ p \in Nat
  BY <1>7
<1> DEFINE f == CHOOSE g : g = [i \in 0..nR.value |->
             IF i = 0
               THEN [value |-> <<>>, offset |-> nR.offset]
               ELSE [value |-> Append(g[i - 1].value,
                                      TakeSlot(data, g[i - 1].offset).value),
                     offset |-> TakeSlot(data, g[i - 1].offset).offset]]
           h == [i \in 0..n |-> [value |-> SubSeq(slots, 1, i),
                                 offset |-> p + at[i]]]
<1>9. TakeInventory(data, o) = f[nR.value]
  BY DEF TakeInventory
<1> HIDE DEF nR, p, tail, head
<1>10. h[0] = [value |-> <<>>, offset |-> p]
  <2>1. SubSeq(slots, 1, 0) = <<>>
    <3>1. 0 \in 0..Len(slots)
      BY <1>2 DEF n
    <3>2. SubSeq(slots, 1, 0) \in Seq(Slot) /\ Len(SubSeq(slots, 1, 0)) = 0
      BY <1>2, <3>1, FirstProperties
    <3> QED
      BY <3>2, EmptySeq
  <2>2. 0 \in 0..n /\ p + at[0] = p
    BY <1>2, <1>4, <1>8
  <2> QED
    BY <2>1, <2>2
<1>11. ASSUME NEW i \in 1..n
       PROVE  /\ i - 1 \in 0..n /\ i \in 0..n /\ i # 0
              /\ h[i] = [value |-> Append(h[i - 1].value,
                                          TakeSlot(data, h[i - 1].offset).value),
                         offset |-> TakeSlot(data, h[i - 1].offset).offset]
  <2>1. i - 1 \in 0..n /\ i \in 0..n /\ i # 0 /\ i \in 1..Len(slots)
    BY <1>2 DEF n
  <2>2. h[i - 1].value = SubSeq(slots, 1, i - 1) /\ h[i - 1].offset = p + at[i - 1]
    BY <2>1
  <2>3. h[i] = [value |-> SubSeq(slots, 1, i), offset |-> p + at[i]]
    BY <2>1
  <2> HIDE DEF h
  <2> DEFINE q == p + at[i - 1]
             slot == slots[i]
  <2>4. q \in Nat /\ slot \in Slot /\ ss[i] = WriteSlot(slot)
    BY <1>3, <1>4, <1>8, <2>1
  <2>5. Holds(data, q, ss[i])
    <3>1. Holds(tail, at[i - 1], ss[i])
      BY <1>4
    <3>2. ss[i] \in Seq(Byte)
      BY <2>4, WriteSlotParts
    <3> QED
      BY <1>5, <1>6, <3>1, <3>2, HoldsInside
  <2>6. TakeSlot(data, q) = [value |-> slot, offset |-> q + Len(ss[i])]
    <3> HIDE DEF q, slot
    <3> QED
      BY <2>4, <2>5, SlotReadBack
  <2>7. q + Len(ss[i]) = p + at[i]
    <3>1. at[i] = at[i - 1] + Len(ss[i]) /\ at[i] \in Nat /\ at[i - 1] \in Nat
      BY <1>4, <2>1
    <3>2. Len(ss[i]) \in Nat
      BY <2>4, WriteSlotParts, LenProperties
    <3> QED
      BY <1>8, <3>1, <3>2
  <2>8. Append(SubSeq(slots, 1, i - 1), slot) = SubSeq(slots, 1, i)
    BY <1>2, <2>1, FirstAppend
  <2> HIDE DEF q, slot
  <2>9. TakeSlot(data, h[i - 1].offset) = [value |-> slot, offset |-> p + at[i]]
    BY <2>2, <2>6, <2>7 DEF q
  <2> DEFINE taken == TakeSlot(data, h[i - 1].offset)
  <2>10. taken.value = slot /\ taken.offset = p + at[i]
    BY <2>9
  <2> HIDE DEF taken
  <2>11. Append(h[i - 1].value, taken.value) = SubSeq(slots, 1, i)
    BY <2>2, <2>8, <2>10
  <2>12. h[i] = [value |-> Append(h[i - 1].value, taken.value),
                 offset |-> taken.offset]
    BY <2>3, <2>10, <2>11
  <2> QED
    BY <2>1, <2>12 DEF taken
<1>12. h = [i \in 0..n |->
             IF i = 0
               THEN [value |-> <<>>, offset |-> p]
               ELSE [value |-> Append(h[i - 1].value,
                                      TakeSlot(data, h[i - 1].offset).value),
                     offset |-> TakeSlot(data, h[i - 1].offset).offset]]
  <2>1. h = [i \in 0..n |-> h[i]]
    OBVIOUS
  <2> HIDE DEF h
  <2>2. \A i \in 0..n : i = 0 \/ i \in 1..n
    BY <1>2
  <2>3. ASSUME NEW i \in 0..n
        PROVE  h[i] = IF i = 0
               THEN [value |-> <<>>, offset |-> p]
               ELSE [value |-> Append(h[i - 1].value,
                                      TakeSlot(data, h[i - 1].offset).value),
                     offset |-> TakeSlot(data, h[i - 1].offset).offset]
    <3>1. CASE i = 0
      BY <1>10, <3>1
    <3>2. CASE i \in 1..n
      <4>1. i # 0
        BY <3>2
      <4> QED
        BY <1>11, <3>2, <4>1
    <3> QED
      BY <2>2, <3>1, <3>2
  <2> QED
    BY <2>1, <2>3, Zenon
<1> DEFINE E(g) == [i \in 0..n |->
             IF i = 0
               THEN [value |-> <<>>, offset |-> p]
               ELSE [value |-> Append(g[i - 1].value,
                                      TakeSlot(data, g[i - 1].offset).value),
                     offset |-> TakeSlot(data, g[i - 1].offset).offset]]
<1>13. f = CHOOSE g : g = E(g)
  BY <1>8
<1> HIDE DEF h, f
<1>14. h = E(h)
  BY <1>12
<1>15. f = E(f)
  <2> HIDE DEF E
  <2> QED
    BY <1>13, <1>14
<1>16. f[0] = h[0]
  <2>1. 0 \in 0..n
    BY <1>2
  <2> QED
    BY <1>10, <1>15, <2>1
<1>17. ASSUME NEW i \in 1..n, f[i - 1] = h[i - 1]
       PROVE  f[i] = h[i]
  <2>1. i - 1 \in 0..n /\ i \in 0..n /\ i # 0
    BY <1>2
  <2>2. f[i] = E(f)[i]
    BY <1>15
  <2>3. E(f)[i] = [value |-> Append(f[i - 1].value,
                                    TakeSlot(data, f[i - 1].offset).value),
                   offset |-> TakeSlot(data, f[i - 1].offset).offset]
    BY <2>1
  <2> HIDE DEF E
  <2> QED
    BY <1>11, <1>17, <2>2, <2>3
<1>18. f[n] = h[n]
  BY <1>2, <1>16, <1>17, SameAnswer
<1>19. h[n] = [value |-> slots, offset |-> p + Len(tail)]
  <2>1. SubSeq(slots, 1, n) = slots
    <3>1. n \in 0..Len(slots)
      BY <1>2 DEF n
    <3> DEFINE x == SubSeq(slots, 1, n)
    <3>2. x \in Seq(Slot) /\ Len(x) = n /\ \A i \in 1..n : x[i] = slots[i]
      BY <1>2, <3>1, FirstProperties
    <3> HIDE DEF x
    <3>3. x = slots
      BY <1>2, <3>2, SeqEqual DEF n
    <3> QED
      BY <3>3 DEF x
  <2>2. n \in 0..n
    BY <1>2
  <2> QED
    BY <1>4, <2>1, <2>2 DEF h
<1>20. p + Len(tail) = o + Len(FullInventory(slots))
  <2>1. Len(tail) \in Nat
    BY <1>5, LenProperties
  <2>2. Len(FullInventory(slots)) = 3 + Len(tail)
    BY <1>1
  <2>3. p = o + 3
    BY DEF p
  <2> QED
    BY <2>1, <2>2, <2>3
<1>21. TakeInventory(data, o) = f[n]
  BY <1>8, <1>9
<1> QED
  BY <1>18, <1>19, <1>20, <1>21

-----------------------------------------------------------------------------
(* Every field.                                                            *)

FieldOK(f) == f.kind \in Kinds /\ f.value \in Values(f.kind)

\* A field is written as bytes.
LEMMA WriteType ==
  ASSUME NEW f, FieldOK(f)
  PROVE  Write(f) \in Seq(Byte)
<1> DEFINE v == f.value
<1>0. \A k \in Nat \ {0} : 1 \in Nat /\ k \in Nat
  OBVIOUS
<1>1. ASSUME NEW k \in Nat \ {0}, NEW n \in SignedOf(k) \cup UnsignedOf(k)
      PROVE  Put(n, k) \in Seq(Byte)
  BY CastBack, PutType
<1>2. ASSUME NEW k \in Nat \ {0}, NEW n \in UnsignedOf(k)
      PROVE  Put(Cast(n, k), k) \in Seq(Byte)
  BY CastBack, PutType
<1>3. CASE f.kind = "byte"
  BY <1>1, <1>3, WordBytesType DEF FieldOK, Values, Write, WriteInt8
<1>4. CASE f.kind = "short"
  BY <1>1, <1>4, WordBytesType DEF FieldOK, Values, Write, WriteInt16
<1>5. CASE f.kind = "int"
  BY <1>1, <1>5, WordBytesType DEF FieldOK, Values, Write, WriteInt32
<1>6. CASE f.kind = "long"
  BY <1>1, <1>6, WordBytesType DEF FieldOK, Values, Write, WriteInt64
<1>7. CASE f.kind = "float"
  BY <1>2, <1>7, WordBytesType
  DEF FieldOK, Values, Write, WriteFloat, WriteInt32
<1>8. CASE f.kind = "double"
  BY <1>2, <1>8, WordBytesType
  DEF FieldOK, Values, Write, WriteDouble, WriteInt64
<1>9. CASE f.kind = "boolean"
  <2>1. 0 \in Byte /\ 1 \in Byte
    BY RadixType
  <2> QED
    BY <1>9, <2>1 DEF Write
<1>10. CASE f.kind = "varint"
  BY <1>10, WriteVarIntType DEF FieldOK, Values, Write
<1>11. CASE f.kind = "string"
  <2>1. v \in Seq(Byte) /\ Len(v) \in Int32
    BY <1>11 DEF FieldOK, Values
  <2>2. WriteVarInt(Len(v)) \in Seq(Byte)
    BY <2>1, WriteVarIntType
  <2>3. Write(f) = WriteVarInt(Len(v)) \o v
    BY <1>11 DEF Write, WriteString
  <2> QED
    BY <2>1, <2>2, <2>3, Joined
<1>12. CASE f.kind = "inventory"
  <2>1. v \in Inventories
    BY <1>12 DEF FieldOK, Values, Inventories
  <2>2. Write(f) = FullInventory(v)
    BY <1>12 DEF Write
  <2> QED
    BY <2>1, <2>2, InventoryParts
<1> QED
  BY <1>3, <1>4, <1>5, <1>6, <1>7, <1>8, <1>9, <1>10, <1>11, <1>12
  DEF FieldOK, Kinds

\* Wherever a field stands, its reader gives its value and the offset behind
\* it, whatever its kind and its value (helper.cpp:5-192, tcpclient.cpp:98-115).
THEOREM FieldReadBack ==
  ASSUME NEW data \in Seq(Byte), NEW o \in Nat, NEW f, FieldOK(f),
         Holds(data, o, Write(f))
  PROVE  Read(f.kind, data, o) = [value |-> f.value, offset |-> o + Len(Write(f))]
<1> DEFINE v == f.value
<1>3. CASE f.kind = "byte"
  <2>1. v \in UnsignedOf(1) /\ Write(f) = Put(v, 1)
    BY <1>3 DEF FieldOK, Values, Write, WriteInt8
  <2>2. Read(f.kind, data, o) = Get(data, o, 1)
    BY <1>3 DEF Read, ReadByte
  <2> QED
    BY <2>1, <2>2, UnsignedField, WordBytesType
<1>4. CASE f.kind = "short"
  <2>1. v \in SignedOf(2) /\ Write(f) = Put(v, 2)
    BY <1>4 DEF FieldOK, Values, Write, WriteInt16
  <2>2. Read(f.kind, data, o) = GetSigned(data, o, 2)
    BY <1>4 DEF Read, ReadShort, GetSigned
  <2> QED
    BY <2>1, <2>2, SignedField, WordBytesType
<1>5. CASE f.kind = "int"
  <2>1. v \in SignedOf(WordBytes) /\ Write(f) = Put(v, WordBytes)
    BY <1>5 DEF FieldOK, Values, Write, WriteInt32
  <2>2. Read(f.kind, data, o) = GetSigned(data, o, WordBytes)
    BY <1>5 DEF Read, ReadInt32
  <2> QED
    BY <2>1, <2>2, SignedField, WordBytesType
<1>6. CASE f.kind = "long"
  <2> DEFINE k == 2 * WordBytes
  <2>1. v \in SignedOf(k) /\ Write(f) = Put(v, k)
    BY <1>6 DEF FieldOK, Values, Write, WriteInt64
  <2>2. Read(f.kind, data, o) = GetSigned(data, o, k)
    BY <1>6 DEF Read, ReadUint64, GetSigned
  <2>3. k \in Nat \ {0}
    BY WordBytesType
  <2> HIDE DEF k
  <2> QED
    BY <2>1, <2>2, <2>3, SignedField
<1>7. CASE f.kind = "float"
  <2>1. v \in UnsignedOf(WordBytes) /\ Write(f) = Put(Cast(v, WordBytes), WordBytes)
    BY <1>7 DEF FieldOK, Values, Write, WriteFloat, WriteInt32
  <2>2. Read(f.kind, data, o) = Get(data, o, WordBytes)
    BY <1>7 DEF Read, ReadFloat, ReadUint32
  <2> QED
    BY <2>1, <2>2, BitsField, WordBytesType
<1>8. CASE f.kind = "double"
  <2> DEFINE k == 2 * WordBytes
  <2>1. v \in UnsignedOf(k) /\ Write(f) = Put(Cast(v, k), k)
    BY <1>8 DEF FieldOK, Values, Write, WriteDouble, WriteInt64
  <2>2. Read(f.kind, data, o) = Get(data, o, k)
    BY <1>8 DEF Read, ReadDouble, ReadUint64
  <2>3. k \in Nat \ {0}
    BY WordBytesType
  <2> HIDE DEF k
  <2> QED
    BY <2>1, <2>2, <2>3, BitsField
<1>9. CASE f.kind = "boolean"
  <2>1. v \in BOOLEAN /\ Write(f) = <<IF v THEN 1 ELSE 0>>
    BY <1>9 DEF FieldOK, Values, Write
  <2>2. Len(Write(f)) = 1 /\ data[o + 1] = IF v THEN 1 ELSE 0
    <3>1. Len(Write(f)) = 1 /\ Write(f)[1] = IF v THEN 1 ELSE 0
      BY <2>1
    <3> QED
      BY <3>1 DEF Holds
  <2>3. Read(f.kind, data, o) = [value |-> data[o + 1] # 0, offset |-> o + 1]
    BY <1>9 DEF Read, ReadBoolean
  <2>4. (data[o + 1] # 0) = v
    BY <2>1, <2>2
  <2>5. Len(Write(f)) = 1
    BY <2>2
  <2> QED
    BY <2>3, <2>4, <2>5, Zenon
<1>10. CASE f.kind = "varint"
  <2>1. v \in Int32 /\ Write(f) = WriteVarInt(v)
    BY <1>10 DEF FieldOK, Values, Write
  <2> DEFINE n == ReadVarInt(From(data, o + 1))
  <2>2. Read(f.kind, data, o) = [value |-> n.value, offset |-> o + n.bytesRead]
    BY <1>10 DEF Read
  <2>3. n = [value |-> v, bytesRead |-> Len(WriteVarInt(v))]
    BY <2>1, VarIntField
  <2> HIDE DEF n
  <2>4. n.value = v /\ n.bytesRead = Len(Write(f))
    BY <2>1, <2>3
  <2> QED
    BY <2>2, <2>4
<1>11. CASE f.kind = "string"
  <2>1. v \in Strings /\ Write(f) = WriteString(v)
    BY <1>11 DEF FieldOK, Values, Write, Strings
  <2>2. Read(f.kind, data, o) = ReadString(data, o)
    BY <1>11 DEF Read
  <2> QED
    BY <2>1, <2>2, StringReadBack
<1>12. CASE f.kind = "inventory"
  <2>1. v \in Inventories /\ Write(f) = FullInventory(v)
    BY <1>12 DEF FieldOK, Values, Write, Inventories
  <2>2. Read(f.kind, data, o) = TakeInventory(data, o)
    BY <1>12 DEF Read
  <2> QED
    BY <2>1, <2>2, InventoryReadBack
<1> QED
  BY <1>3, <1>4, <1>5, <1>6, <1>7, <1>8, <1>9, <1>10, <1>11, <1>12
  DEF FieldOK, Kinds

FieldsOK == fields \in Seq(Fields)

\* The fields of a packet are fields.
LEMMA FieldsOKInvariant == FieldsSpec => []FieldsOK
<1>1. FieldsInit => FieldsOK
  BY DEF FieldsInit, FieldsOK
<1>2. FieldsOK /\ [AddField]_fields => FieldsOK'
  BY AppendProperties DEF FieldsOK, AddField
<1> QED
  BY <1>1, <1>2, PTL DEF FieldsSpec

Written == [i \in 1..Len(fields) |-> Write(fields[i])]

\* The fields of a packet and their bytes.
LEMMA WrittenType ==
  ASSUME FieldsOK
  PROVE  /\ Len(fields) \in Nat
         /\ \A i \in 1..Len(fields) :
              /\ FieldOK(fields[i]) /\ fields[i] \in Fields
              /\ Written[i] = Write(fields[i]) /\ Write(fields[i]) \in Seq(Byte)
         /\ Written \in Seq(Seq(Byte)) /\ Len(Written) = Len(fields)
         /\ Payload = FlattenSeq(Written) /\ Payload \in Seq(Byte)
<1>1. Len(fields) \in Nat
  BY LenProperties DEF FieldsOK
<1>2. \A i \in 1..Len(fields) : fields[i] \in Fields /\ FieldOK(fields[i])
  BY ElementOfSeq, FieldsAssumption DEF FieldsOK, FieldOK
<1>3. \A i \in 1..Len(fields) : Write(fields[i]) \in Seq(Byte)
  BY <1>2, WriteType
<1>4. Written \in Seq(Seq(Byte)) /\ Len(Written) = Len(fields)
  BY <1>1, <1>3 DEF Written
<1>5. Payload = FlattenSeq(Written)
  BY DEF Payload, Written
<1>6. Payload \in Seq(Byte)
  BY <1>4, <1>5, FlattenType
<1>7. \A i \in 1..Len(fields) : Written[i] = Write(fields[i])
  BY DEF Written
<1> QED
  BY <1>1, <1>2, <1>3, <1>4, <1>5, <1>6, <1>7

\* Where the fields stand in a packet.
LEMMA WrittenHolds ==
  ASSUME FieldsOK
  PROVE  \E at \in [0..Len(fields) -> Nat] :
           /\ at[0] = 0 /\ at[Len(fields)] = Len(Payload)
           /\ \A i \in 1..Len(fields) :
                /\ at[i] = at[i - 1] + Len(Write(fields[i]))
                /\ Holds(Payload, at[i - 1], Write(fields[i]))
<1>1. Written \in Seq(Seq(Byte)) /\ Len(Written) = Len(fields)
  BY WrittenType
<1>2. \E at \in [0..Len(Written) -> Nat] :
           /\ at[0] = 0 /\ at[Len(Written)] = Len(FlattenSeq(Written))
           /\ \A i \in 1..Len(Written) :
                /\ at[i] = at[i - 1] + Len(Written[i])
                /\ Holds(FlattenSeq(Written), at[i - 1], Written[i])
  BY <1>1, FlattenHolds
<1>3. Payload = FlattenSeq(Written)
  BY WrittenType
<1>4. \A i \in 1..Len(fields) : Written[i] = Write(fields[i])
  BY WrittenType
<1> QED
  BY <1>1, <1>2, <1>3, <1>4

\* The step from one field to the next of a packet that is read.
LEMMA ReadOn ==
  ASSUME FieldsOK
  PROVE  FieldsInStep
<1> DEFINE n == Len(fields)
           values == [i \in 1..n |-> fields[i].value]
           T(g, i) == Read(fields[i].kind, Payload, g[i - 1].offset)
           E(g) == [i \in 0..n |->
             IF i = 0
               THEN [values |-> <<>>, offset |-> 0]
               ELSE [values |-> Append(g[i - 1].values, T(g, i).value),
                     offset |-> T(g, i).offset]]
           f == CHOOSE g : g = E(g)
<1>1. /\ n \in Nat /\ Payload \in Seq(Byte)
      /\ \A i \in 1..n : FieldOK(fields[i]) /\ Write(fields[i]) \in Seq(Byte)
  BY WrittenType
<1>2. PICK at \in [0..n -> Nat] :
           /\ at[0] = 0 /\ at[n] = Len(Payload)
           /\ \A i \in 1..n : /\ at[i] = at[i - 1] + Len(Write(fields[i]))
                              /\ Holds(Payload, at[i - 1], Write(fields[i]))
  BY WrittenHolds
<1>3. FieldsInStep <=> f[n] = [values |-> values, offset |-> Len(Payload)]
  BY DEF FieldsInStep
<1> DEFINE V == {fields[i].value : i \in 1..n}
           h == [i \in 0..n |-> [values |-> SubSeq(values, 1, i),
                                 offset |-> at[i]]]
<1>4. /\ values \in Seq(V) /\ Len(values) = n
      /\ \A i \in 1..n : values[i] = fields[i].value
  <2>1. \A i \in 1..n : fields[i].value \in V
    OBVIOUS
  <2> HIDE DEF V
  <2> QED
    BY <1>1, <2>1
<1> HIDE DEF V, values, n
<1>5. h[0] = [values |-> <<>>, offset |-> 0]
  <2>1. SubSeq(values, 1, 0) = <<>>
    <3>1. 0 \in 0..Len(values)
      BY <1>1, <1>4
    <3>2. SubSeq(values, 1, 0) \in Seq(V) /\ Len(SubSeq(values, 1, 0)) = 0
      BY <1>4, <3>1, FirstProperties
    <3> QED
      BY <3>2, EmptySeq
  <2>2. 0 \in 0..n
    BY <1>1
  <2> QED
    BY <1>2, <2>1, <2>2
<1>6. ASSUME NEW i \in 1..n
      PROVE  /\ i - 1 \in 0..n /\ i \in 0..n /\ i # 0
             /\ h[i] = [values |-> Append(h[i - 1].values, T(h, i).value),
                        offset |-> T(h, i).offset]
  <2>1. i - 1 \in 0..n /\ i \in 0..n /\ i # 0 /\ i \in 1..Len(values)
    BY <1>1, <1>4
  <2>2. h[i - 1].values = SubSeq(values, 1, i - 1) /\ h[i - 1].offset = at[i - 1]
    BY <2>1
  <2>3. h[i] = [values |-> SubSeq(values, 1, i), offset |-> at[i]]
    BY <2>1
  <2> HIDE DEF h
  <2> DEFINE q == at[i - 1]
             field == fields[i]
  <2>4. q \in Nat /\ FieldOK(field) /\ Holds(Payload, q, Write(field))
        /\ at[i] = q + Len(Write(field))
    BY <1>1, <1>2, <2>1
  <2> HIDE DEF q, field
  <2>5. Read(field.kind, Payload, q) = [value |-> field.value, offset |-> at[i]]
    BY <1>1, <2>4, FieldReadBack
  <2>6. T(h, i) = [value |-> field.value, offset |-> at[i]]
    BY <2>2, <2>5 DEF q, field
  <2> DEFINE taken == T(h, i)
  <2>7. taken.value = values[i] /\ taken.offset = at[i]
    <3>1. values[i] = field.value
      BY <1>4 DEF field
    <3> QED
      BY <2>6, <3>1
  <2> HIDE DEF taken
  <2>8. Append(SubSeq(values, 1, i - 1), values[i]) = SubSeq(values, 1, i)
    BY <1>4, <2>1, FirstAppend
  <2>9. Append(h[i - 1].values, taken.value) = SubSeq(values, 1, i)
    BY <2>2, <2>7, <2>8
  <2>10. h[i] = [values |-> Append(h[i - 1].values, taken.value),
                 offset |-> taken.offset]
    BY <2>3, <2>7, <2>9
  <2> QED
    BY <2>1, <2>10 DEF taken
<1> HIDE DEF T
<1>7. h = E(h)
  <2>1. h = [i \in 0..n |-> h[i]]
    OBVIOUS
  <2> HIDE DEF h
  <2>2. \A i \in 0..n : i = 0 \/ i \in 1..n
    BY <1>1
  <2>3. ASSUME NEW i \in 0..n
        PROVE  h[i] = IF i = 0
                 THEN [values |-> <<>>, offset |-> 0]
                 ELSE [values |-> Append(h[i - 1].values, T(h, i).value),
                       offset |-> T(h, i).offset]
    <3>1. CASE i = 0
      BY <1>5, <3>1
    <3>2. CASE i \in 1..n
      <4>1. i # 0
        BY <3>2
      <4> QED
        BY <1>6, <3>2, <4>1
    <3> QED
      BY <2>2, <3>1, <3>2
  <2> QED
    BY <2>1, <2>3, Zenon
<1> HIDE DEF h
<1>8. f = E(f)
  <2> HIDE DEF E
  <2> QED
    BY <1>7
<1> HIDE DEF f
<1>9. f[0] = h[0]
  <2>1. 0 \in 0..n
    BY <1>1
  <2> QED
    BY <1>5, <1>8, <2>1
<1>10. ASSUME NEW i \in 1..n, f[i - 1] = h[i - 1]
       PROVE  f[i] = h[i]
  <2>1. i - 1 \in 0..n /\ i \in 0..n /\ i # 0
    BY <1>1
  <2>2. f[i] = E(f)[i]
    BY <1>8
  <2>3. E(f)[i] = [values |-> Append(f[i - 1].values, T(f, i).value),
                   offset |-> T(f, i).offset]
    BY <2>1
  <2>4. T(f, i) = T(h, i)
    BY <1>10 DEF T
  <2> HIDE DEF E
  <2> QED
    BY <1>6, <1>10, <2>2, <2>3, <2>4
<1>11. f[n] = h[n]
  BY <1>1, <1>9, <1>10, SameAnswer
<1>12. h[n] = [values |-> values, offset |-> Len(Payload)]
  <2>1. SubSeq(values, 1, n) = values
    <3>1. n \in 0..Len(values)
      BY <1>1, <1>4
    <3> DEFINE x == SubSeq(values, 1, n)
    <3>2. x \in Seq(V) /\ Len(x) = n /\ \A i \in 1..n : x[i] = values[i]
      BY <1>4, <3>1, FirstProperties
    <3> HIDE DEF x
    <3>3. x = values
      BY <1>4, <3>2, SeqEqual
    <3> QED
      BY <3>3 DEF x
  <2>2. n \in 0..n
    BY <1>1
  <2> QED
    BY <1>2, <2>1, <2>2 DEF h
<1> QED
  BY <1>3, <1>11, <1>12

\* Every packet of any fields is read back field by field as it was written:
\* no reader takes a byte more or less than its writer wrote (helper.cpp:5-192,
\* tcpclient.cpp:98-115).
THEOREM FieldsReadInStep == FieldsSpec => []FieldsInStep
<1>1. FieldsOK => FieldsInStep
  BY ReadOn
<1> QED
  BY <1>1, FieldsOKInvariant, PTL

-----------------------------------------------------------------------------
(* Strings that have not come in full.                                     *)

\* A number of which bytes are missing is none to readVarInt.
LEMMA ReadingCut ==
  ASSUME NEW n \in Int32, NEW b \in Seq(Byte), Len(b) < Len(EncodeVarInt(n)),
         \A i \in 1..Len(b) : b[i] = EncodeVarInt(n)[i]
  PROVE  ReadVarInt(b) = NoVarInt
<1> DEFINE k == Len(b)
<1>1. k \in Nat /\ Len(EncodeVarInt(n)) \in 1..MaxBytes
  BY Encoding, LenProperties
<1>2. k <= MaxBytes /\ MaxBytes \in Nat
  BY <1>1, Constants
<1>3. \A i \in 1..k : Continues(b[i])
  BY DecodingCut
<1>4. Taken(b, MaxBytes) = k
  BY <1>1, <1>2, <1>3, TakenAll
<1>5. k = 0 \/ k \in 1..k
  BY <1>1
<1> QED
  BY <1>3, <1>4, <1>5 DEF ReadVarInt

\* A string that is cut short anywhere is refused.
LEMMA StringCut ==
  ASSUME NEW data \in Seq(Byte), NEW o \in Nat, NEW str \in Strings,
         Holds(data, o, WriteString(str)),
         NEW k \in 0..Len(WriteString(str)) - 1
  PROVE  LET cut == SubSeq(data, 1, o + k)
         IN  ~StringThrows(cut, o) /\ ReadString(cut, o) = NoString
<1> DEFINE n == Len(str)
           e == WriteVarInt(n)
           m == Len(e)
           cut == SubSeq(data, 1, o + k)
           r == ReadVarInt(From(cut, o + 1))
<1>1. str \in Seq(Byte) /\ n \in Int32 /\ n \in Nat
  BY LenProperties DEF Strings
<1>2. e \in Seq(Byte) /\ e = EncodeVarInt(n) /\ m \in Nat
  BY <1>1, WriteVarIntType, LenProperties
<1>3. /\ Holds(data, o, e) /\ Len(WriteString(str)) = m + n
      /\ o + (m + n) <= Len(data) /\ Len(data) \in Nat
  <2>1. Holds(data, o, e \o str)
    BY DEF WriteString
  <2>2. WriteString(str) = e \o str
    BY DEF WriteString
  <2> HIDE DEF e
  <2>3. /\ Holds(data, o, e) /\ Len(e \o str) = m + Len(str)
        /\ Len(data) \in Nat
    BY <1>1, <1>2, <2>1, HoldsParts
  <2>4. o + Len(e \o str) <= Len(data)
    BY <2>1 DEF Holds
  <2> QED
    BY <2>2, <2>3, <2>4
<1> HIDE DEF e
<1>4. k \in Nat /\ k < m + n /\ o + k \in 0..Len(data)
  <2>1. k \in 0..(m + n) - 1
    BY <1>3
  <2> HIDE DEF n, m
  <2> QED
    BY <1>1, <1>2, <1>3, <2>1
<1>5. /\ cut \in Seq(Byte) /\ Len(cut) = o + k
      /\ \A i \in 1..o + k : cut[i] = data[i]
  BY <1>4, FirstProperties
<1> HIDE DEF cut, n
<1>6. \A i \in 1..m : data[o + i] = e[i]
  BY <1>3 DEF Holds
<1>7. ReadString(cut, o) =
        IF r = NoVarInt \/ OutOfBounds(cut, o + r.bytesRead, r.value)
          THEN NoString
          ELSE [value |-> SubSeq(cut, (o + r.bytesRead) + 1,
                                 (o + r.bytesRead) + r.value),
                offset |-> (o + r.bytesRead) + r.value]
  BY DEF ReadString
<1>8. StringThrows(cut, o) <=>
        /\ r # NoVarInt /\ r.value < 0
        /\ ~OutOfBounds(cut, o + r.bytesRead, r.value)
  BY DEF StringThrows
<1>9. CASE k < m
  <2> DEFINE b == From(cut, o + 1)
  <2>1. o + 1 \in 1..Len(cut) + 1 /\ Len(cut) - (o + 1) + 1 = k
    BY <1>4, <1>5
  <2>2. /\ b \in Seq(Byte) /\ Len(b) = k
        /\ \A i \in 1..k : b[i] = cut[(o + 1) + i - 1]
    <3>1. /\ b \in Seq(Byte) /\ Len(b) = Len(cut) - (o + 1) + 1
          /\ \A i \in 1..Len(cut) - (o + 1) + 1 : b[i] = cut[(o + 1) + i - 1]
      BY <1>5, <2>1, FromProperties
    <3> HIDE DEF b
    <3> QED
      BY <2>1, <3>1
  <2> HIDE DEF b
  <2>3. ASSUME NEW i \in 1..k
        PROVE  b[i] = e[i]
    <3>1. (o + 1) + i - 1 = o + i /\ o + i \in 1..o + k /\ i \in 1..m
      BY <1>2, <1>4, <1>9
    <3>2. b[i] = cut[o + i]
      BY <2>2, <3>1
    <3> QED
      BY <1>5, <1>6, <3>1, <3>2
  <2>4. ReadVarInt(b) = NoVarInt
    <3>1. Len(b) < Len(EncodeVarInt(n))
      BY <1>2, <1>9, <2>2
    <3>2. \A i \in 1..Len(b) : b[i] = EncodeVarInt(n)[i]
      BY <1>2, <2>2, <2>3
    <3> QED
      BY <1>1, <2>2, <3>1, <3>2, ReadingCut
  <2>5. r = NoVarInt
    BY <2>4 DEF b
  <2> HIDE DEF r
  <2> QED
    BY <1>7, <1>8, <2>5 DEF cut
<1>10. CASE ~(k < m)
  <2>1. Holds(cut, o, WriteVarInt(n))
    <3>1. o + m <= Len(cut)
      BY <1>2, <1>4, <1>5, <1>10
    <3>2. ASSUME NEW i \in 1..m
          PROVE  cut[o + i] = e[i]
      <4>1. o + i \in 1..o + k
        BY <1>2, <1>4, <1>10
      <4> QED
        BY <1>5, <1>6, <4>1
    <3> QED
      BY <3>1, <3>2 DEF Holds, e
  <2>2. r = [value |-> n, bytesRead |-> m]
    BY <1>1, <1>5, <2>1, VarIntField DEF e
  <2> HIDE DEF r
  <2>3. r.value = n /\ r.bytesRead = m
    BY <2>2
  <2> HIDE DEF m
  <2>4. OutOfBounds(cut, o + r.bytesRead, r.value)
    <3>1. (o + m) + n > Len(cut)
      BY <1>1, <1>2, <1>4, <1>5
    <3> QED
      BY <2>3, <3>1 DEF OutOfBounds
  <2> QED
    BY <1>7, <1>8, <2>4 DEF cut
<1> QED
  BY <1>9, <1>10

\* A string that has not come in full is refused wherever the packet ends,
\* between the bytes of its length or of itself, and never throws
\* (helper.cpp:125-161).
THEOREM CutStringIsRefused == FieldsSpec => []CutStringRefused
<1>1. FieldsOK => CutStringRefused
  <2> SUFFICES ASSUME FieldsOK, fields # <<>>, Last(fields).kind = "string",
                      NEW k \in 0..Len(Write(Last(fields))) - 1
               PROVE  LET start == Len(Payload) - Len(Write(Last(fields)))
                          cut == SubSeq(Payload, 1, start + k)
                      IN  ~StringThrows(cut, start) /\ ReadString(cut, start) = NoString
    BY DEF CutStringRefused
  <2> DEFINE n == Len(fields)
             f == Last(fields)
             start == Len(Payload) - Len(Write(f))
  <2>1. n \in 1..n /\ f = fields[n] /\ n \in Nat
    <3>1. n \in Nat /\ n # 0
      <4>1. fields \in Seq(Fields) /\ n \in Nat
        BY WrittenType DEF FieldsOK
      <4>2. Len(fields) = 0 => fields = <<>>
        BY <4>1, EmptySeq
      <4> QED
        BY <4>1, <4>2
    <3> QED
      BY <3>1 DEF Last
  <2>2. FieldOK(f) /\ Write(f) \in Seq(Byte) /\ Payload \in Seq(Byte)
    BY <2>1, WrittenType
  <2>3. PICK at \in [0..n -> Nat] :
             /\ at[0] = 0 /\ at[n] = Len(Payload)
             /\ \A i \in 1..n : /\ at[i] = at[i - 1] + Len(Write(fields[i]))
                                /\ Holds(Payload, at[i - 1], Write(fields[i]))
    BY WrittenHolds
  <2> HIDE DEF n, f
  <2>4. start = at[n - 1] /\ start \in Nat /\ Holds(Payload, start, Write(f))
    <3>1. n - 1 \in 0..n /\ at[n - 1] \in Nat
      <4>1. n - 1 \in 0..n
        BY <2>1
      <4> QED
        BY <4>1
    <3>2. at[n] = at[n - 1] + Len(Write(f)) /\ Holds(Payload, at[n - 1], Write(f))
      BY <2>1, <2>3
    <3>3. Len(Write(f)) \in Nat
      BY <2>2, LenProperties
    <3>4. start = at[n - 1]
      BY <2>3, <3>1, <3>2, <3>3
    <3> QED
      BY <3>1, <3>2, <3>4
  <2>5. f.value \in Strings /\ Write(f) = WriteString(f.value)
    <3>1. f.kind = "string"
      BY DEF f
    <3> QED
      BY <2>2, <3>1 DEF FieldOK, Values, Write, Strings
  <2>6. k \in 0..Len(WriteString(f.value)) - 1
    BY <2>5 DEF f
  <2> HIDE DEF start
  <2>7. /\ ~StringThrows(SubSeq(Payload, 1, start + k), start)
        /\ ReadString(SubSeq(Payload, 1, start + k), start) = NoString
    BY <2>2, <2>4, <2>5, <2>6, StringCut
  <2> QED
    BY <2>7 DEF start, f
<1> QED
  BY <1>1, FieldsOKInvariant, PTL
=============================================================================
