---------------------------- MODULE VarIntProofs ----------------------------
(***************************************************************************)
(* What the writers and the readers of VarInt compute, for every number.   *)
(* The writers recurse on the bits above the low digit, and the readers    *)
(* add up digit by digit: StrongInduction, on a set in place of a          *)
(* predicate, and Recursion are what is known of both.                     *)
(***************************************************************************)
EXTENDS VarInt, SequenceTheorems, WellFoundedInduction, TLAPS

\* A set that holds a number once it holds those below holds every number.
LEMMA StrongInduction ==
  ASSUME NEW S, \A n \in Nat : (\A m \in 0..n - 1 : m \in S) => n \in S
  PROVE  \A n \in Nat : n \in S
<1> SUFFICES ASSUME Nat \ S # {} PROVE FALSE
  OBVIOUS
<1>1. PICK x \in Nat \ S : \A y \in Nat \ S : ~(<<y, x>> \in OpToRel(<, Nat))
  <2>1. IsWellFoundedOn(OpToRel(<, Nat), Nat)
    BY NatLessThanWellFounded
  <2> QED
    BY <2>1, WFMin
<1>2. \A y \in Nat \ S : ~(y < x)
  BY <1>1 DEF OpToRel
<1>3. \A m \in 0..x - 1 : m \in S
  BY <1>2
<1> QED
  BY <1>3

\* The same, from each number to the next.
LEMMA Induction ==
  ASSUME NEW S, 0 \in S, \A n \in Nat : n \in S => n + 1 \in S
  PROVE  \A n \in Nat : n \in S
<1>1. ASSUME NEW n \in Nat, \A m \in 0..n - 1 : m \in S
      PROVE  n \in S
  <2>1. CASE n = 0
    BY <2>1
  <2>2. CASE n # 0
    <3>1. n - 1 \in Nat /\ n - 1 \in S /\ (n - 1) + 1 = n
      BY <1>1, <2>2
    <3> QED
      BY <3>1
  <2> QED
    BY <2>1, <2>2
<1> QED
  BY <1>1, StrongInduction

Recursive(D, T, V, base, step, h) ==
  /\ D \in SUBSET Nat /\ base \in [D -> V] /\ step \in [D \X V -> V]
  /\ \A n \in D \ T : h[n] \in D /\ h[n] < n

Solves(f, D, T, base, step, h) ==
  \A n \in D : f[n] = IF n \in T THEN base[n] ELSE step[<<n, f[h[n]]>>]

\* A function that refers to itself at smaller numbers only exists.
LEMMA Recursion ==
  ASSUME NEW D, NEW T, NEW V, NEW base, NEW step, NEW h,
         Recursive(D, T, V, base, step, h)
  PROVE  \E f \in [D -> V] : Solves(f, D, T, base, step, h)
<1> USE DEF Recursive
<1> DEFINE Val(g, n) == IF n \in T THEN base[n] ELSE step[<<n, g[h[n]]>>]
           E(n) == {m \in D : m <= n}
           Fits(g, n) == g \in [E(n) -> V] /\ \A m \in E(n) : g[m] = Val(g, m)
           G(n) == CHOOSE g : Fits(g, n)
<1>0. \A d \in D \ T : h[d] \in D /\ h[d] < d /\ h[d] \in 0..d - 1 /\ h[d] <= d
  <2> SUFFICES ASSUME NEW d \in D, d \notin T
               PROVE  h[d] \in D /\ h[d] < d /\ h[d] \in 0..d - 1 /\ h[d] <= d
    OBVIOUS
  <2>1. h[d] \in D /\ h[d] < d
    OBVIOUS
  <2>2. d \in Nat /\ h[d] \in Nat
    BY <2>1
  <2> QED
    BY <2>1, <2>2
<1>1. ASSUME NEW n \in Nat, NEW k \in Nat, NEW g, NEW i, Fits(g, n), Fits(i, k)
      PROVE  \A m \in Nat : m \in D /\ m <= n /\ m <= k => g[m] = i[m]
  <2> DEFINE S == {m \in Nat : m \in D /\ m <= n /\ m <= k => g[m] = i[m]}
  <2>1. ASSUME NEW m \in Nat, \A l \in 0..m - 1 : l \in S
        PROVE  m \in S
    <3> SUFFICES ASSUME m \in D, m <= n, m <= k PROVE g[m] = i[m]
      OBVIOUS
    <3>1. g[m] = Val(g, m) /\ i[m] = Val(i, m)
      BY <1>1
    <3>2. CASE m \in T
      BY <3>1, <3>2
    <3>3. CASE m \notin T
      <4>1. h[m] \in D /\ h[m] < m /\ h[m] \in 0..m - 1
        BY <1>0, <3>3
      <4>2. g[h[m]] = i[h[m]]
        BY <2>1, <4>1
      <4> QED
        BY <3>1, <3>3, <4>2
    <3> QED
      BY <3>2, <3>3
  <2> HIDE DEF S
  <2>2. \A m \in Nat : m \in S
    BY <2>1, StrongInduction
  <2> QED
    BY <2>2 DEF S
<1>2. \A n \in Nat : \E g : Fits(g, n)
  <2> DEFINE S == {n \in Nat : \E g : Fits(g, n)}
  <2>1. ASSUME NEW n \in Nat, \A m \in 0..n - 1 : m \in S
        PROVE  n \in S
    <3>1. \A m \in 0..n - 1 : Fits(G(m), m)
      BY <2>1
    <3> DEFINE last == IF n \in T THEN base[n] ELSE step[<<n, G(h[n])[h[n]]>>]
               g == [m \in E(n) |-> IF m = n THEN last ELSE G(m)[m]]
    <3> HIDE DEF G
    <3>2. ASSUME NEW m \in E(n), m < n
          PROVE  g[m] \in V /\ g[m] = Val(g, m)
      <4>1. m \in 0..n - 1 /\ m \in E(m) /\ m \in D /\ Fits(G(m), m)
        BY <3>1, <3>2
      <4>2. g[m] = G(m)[m] /\ G(m)[m] \in V /\ G(m)[m] = Val(G(m), m)
        BY <3>2, <4>1
      <4>3. CASE m \in T
        BY <4>2, <4>3
      <4>4. CASE m \notin T
        <5>0. h[m] \in D /\ h[m] < m /\ h[m] \in 0..m - 1 /\ h[m] <= m
          BY <1>0, <4>1, <4>4
        <5>1. h[m] \in D /\ h[m] < m /\ h[m] <= m /\ h[m] \in 0..n - 1 /\ h[m] \in E(n)
          BY <5>0, <4>1
        <5>2. Fits(G(h[m]), h[m])
          BY <3>1, <5>1
        <5>3. G(m)[h[m]] = G(h[m])[h[m]]
          <6>1. m \in Nat /\ h[m] \in Nat
            BY <4>1, <5>1
          <6> HIDE DEF Fits
          <6> QED
            BY <1>1, <4>1, <5>1, <5>2, <6>1
        <5>4. g[h[m]] = G(h[m])[h[m]]
          BY <5>1, <4>1
        <5> QED
          BY <4>2, <4>4, <5>3, <5>4
      <4> QED
        BY <4>3, <4>4, <4>2
    <3>3. ASSUME n \in D
          PROVE  g[n] \in V /\ g[n] = Val(g, n)
      <4>1. g[n] = last
        BY <3>3
      <4>2. CASE n \in T
        BY <3>3, <4>1, <4>2
      <4>3. CASE n \notin T
        <5>0. h[n] \in D /\ h[n] < n /\ h[n] \in 0..n - 1 /\ h[n] <= n
          BY <1>0, <3>3, <4>3
        <5>1. h[n] \in E(h[n]) /\ h[n] \in E(n)
          BY <5>0
        <5>2. Fits(G(h[n]), h[n])
          BY <3>1, <5>0
        <5>3. G(h[n])[h[n]] \in V /\ g[h[n]] = G(h[n])[h[n]]
          BY <5>0, <5>1, <5>2
        <5> QED
          BY <3>3, <4>1, <4>3, <5>3
      <4> QED
        BY <4>2, <4>3
    <3>4. Fits(g, n)
      <4>1. \A m \in E(n) : g[m] \in V /\ g[m] = Val(g, m)
        <5> HIDE DEF g, Val
        <5> SUFFICES ASSUME NEW m \in E(n) PROVE g[m] \in V /\ g[m] = Val(g, m)
          OBVIOUS
        <5>1. CASE m < n
          BY <3>2, <5>1
        <5>2. CASE m = n
          BY <3>3, <5>2
        <5> QED
          BY <5>1, <5>2
      <4>2. g \in [E(n) -> V]
        BY <4>1
      <4> QED
        BY <4>1, <4>2
    <3> QED
      BY <3>4
  <2> HIDE DEF S
  <2>2. \A m \in Nat : m \in S
    BY <2>1, StrongInduction
  <2> QED
    BY <2>2 DEF S
<1>3. \A n \in Nat : Fits(G(n), n)
  BY <1>2
<1> DEFINE f == [m \in D |-> G(m)[m]]
<1> HIDE DEF G
<1>4. ASSUME NEW m \in D
      PROVE  f[m] \in V /\ f[m] = Val(f, m)
  <2>0. m \in Nat /\ m \in E(m) /\ f[m] = G(m)[m]
    OBVIOUS
  <2>1. m \in E(m) /\ f[m] = G(m)[m] /\ f[m] \in V /\ G(m)[m] = Val(G(m), m)
    BY <1>3, <2>0
  <2>2. CASE m \in T
    BY <2>1, <2>2
  <2>3. CASE m \notin T
    <3>1. h[m] \in D /\ h[m] < m /\ h[m] <= m /\ f[h[m]] = G(h[m])[h[m]]
      BY <1>0, <2>3
    <3>2. m \in Nat /\ h[m] \in Nat /\ Fits(G(m), m) /\ Fits(G(h[m]), h[m])
      BY <1>3, <3>1
    <3>3. G(m)[h[m]] = G(h[m])[h[m]]
      <4> HIDE DEF Fits
      <4> QED
        BY <1>1, <3>1, <3>2
    <3> QED
      BY <2>1, <2>3, <3>1, <3>3
  <2> QED
    BY <2>1, <2>2, <2>3
<1>5. f \in [D -> V]
  BY <1>4
<1> QED
  BY <1>4, <1>5 DEF Solves

-----------------------------------------------------------------------------
(* Weights.                                                                *)

\* What the proofs need of the constants, apart from the weights.
LEMMA Constants ==
  /\ Base \in Nat /\ Base > 1 /\ Word \in Nat /\ Word > 0 /\ MaxBytes \in Nat
  /\ MaxBytes > 0 /\ Base < Word /\ Word % 2 = 0 /\ Overshift \in 0..Word - 1
BY VarIntAssumption

\* Weight is the function its definition asks for.
LEMMA WeightDef ==
  Weight = [n \in Nat |-> IF n = 0 THEN 1 ELSE Base * Weight[n - 1]]
<1> DEFINE V == Int
           base == [n \in Nat |-> 1]
           step == [a \in Nat \X V |-> Base * a[2]]
           before == [n \in Nat |-> n - 1]
           T == {0}
<1>1. Recursive(Nat, T, V, base, step, before)
  BY Constants DEF Recursive
<1> HIDE DEF V, base, step, before, T
<1>2. PICK f \in [Nat -> V] : Solves(f, Nat, T, base, step, before)
  BY <1>1, Recursion
<1>3. \A n \in Nat :
        f[n] = IF n \in T THEN base[n] ELSE step[<<n, f[before[n]]>>]
  BY <1>2 DEF Solves
<1>4. ASSUME NEW n \in Nat
      PROVE  f[n] = IF n = 0 THEN 1 ELSE Base * f[n - 1]
  <2>1. CASE n = 0
    BY <1>3, <2>1 DEF base, T
  <2>2. CASE n # 0
    <3>1. n - 1 \in Nat /\ before[n] = n - 1 /\ n \notin T
      BY <2>2 DEF before, T
    <3>2. f[n] = step[<<n, f[n - 1]>>] /\ f[n - 1] \in V
      BY <1>3, <3>1
    <3> QED
      BY <2>2, <3>1, <3>2 DEF step
  <2> QED
    BY <2>1, <2>2
<1>5. f = [n \in Nat |-> IF n = 0 THEN 1 ELSE Base * f[n - 1]]
  BY <1>4
<1>6. \E g : g = [n \in Nat |-> IF n = 0 THEN 1 ELSE Base * g[n - 1]]
  BY <1>5
<1> QED
  BY <1>6 DEF Weight

\* A digit counts Base times what the digit below it counts.
LEMMA WeightStep ==
  /\ Weight[0] = 1
  /\ \A n \in Nat : Weight[n + 1] = Base * Weight[n]
<1>1. \A n \in Nat : n + 1 \in Nat /\ n + 1 # 0 /\ (n + 1) - 1 = n
  OBVIOUS
<1> QED
  BY WeightDef, <1>1

\* Every weight is a number above zero.
LEMMA WeightPositive == \A n \in Nat : Weight[n] \in Nat /\ Weight[n] > 0
<1> DEFINE S == {n \in Nat : Weight[n] \in Nat /\ Weight[n] > 0}
<1>1. 0 \in S
  BY WeightStep
<1>2. ASSUME NEW n \in Nat, n \in S
      PROVE  n + 1 \in S
  <2>1. Weight[n] \in Nat /\ Weight[n] > 0
    BY <1>2
  <2>2. \A w \in Nat : w > 0 => Base * w \in Nat /\ Base * w > 0
    BY Constants
  <2> QED
    BY <2>1, <2>2, WeightStep
<1> HIDE DEF S
<1>3. \A n \in Nat : n \in S
  BY <1>1, <1>2, Induction
<1> QED
  BY <1>3 DEF S

\* A weight is not above the weights that follow it.
LEMMA WeightGrows ==
  \A n \in Nat, m \in Nat : m <= n => Weight[m] <= Weight[n]
<1> SUFFICES ASSUME NEW m \in Nat
             PROVE  \A n \in Nat : m <= n => Weight[m] <= Weight[n]
  OBVIOUS
<1> DEFINE S == {n \in Nat : m <= n => Weight[m] <= Weight[n]}
<1>1. 0 \in S
  BY WeightPositive
<1>2. ASSUME NEW n \in Nat, n \in S
      PROVE  n + 1 \in S
  <2>1. Weight[n] \in Nat /\ Weight[m] \in Nat /\ Weight[n + 1] \in Nat
    BY WeightPositive
  <2>2. \A w \in Nat : w <= Base * w
    BY Constants
  <2>3. Weight[n] <= Weight[n + 1]
    BY <2>1, <2>2, WeightStep
  <2>4. CASE m <= n
    BY <1>2, <2>1, <2>3, <2>4
  <2>5. CASE ~(m <= n)
    <3>1. m <= n + 1 => m = n + 1
      BY <2>5
    <3> QED
      BY <2>1, <3>1
  <2> QED
    BY <2>4, <2>5
<1> HIDE DEF S
<1>3. \A n \in Nat : n \in S
  BY <1>1, <1>2, Induction
<1> QED
  BY <1>3 DEF S

-----------------------------------------------------------------------------
(* Quotients and remainders.                                               *)

\* Products grow with their factors.
LEMMA Times ==
  ASSUME NEW a \in Nat, NEW b \in Nat, NEW c \in Nat, a <= b
  PROVE  a * c <= b * c
OBVIOUS

\* A number is its quotient and its remainder ...
LEMMA IntDivision ==
  ASSUME NEW a \in Int, NEW w \in Nat, w > 0
  PROVE  /\ a \div w \in Int /\ a % w \in Nat /\ a % w < w
         /\ a = (a \div w) * w + (a % w)
<1>1. a = (a \div w) * w + (a % w)
  OBVIOUS
<1>2. a % w \in 0..w - 1
  OBVIOUS
<1>3. a \div w \in Int
  OBVIOUS
<1> QED
  BY <1>1, <1>2, <1>3

\* ... which are natural when it is.
LEMMA Division ==
  ASSUME NEW a \in Nat, NEW w \in Nat, w > 0
  PROVE  /\ a \div w \in Nat /\ a % w \in Nat /\ a % w < w
         /\ a = (a \div w) * w + (a % w)
<1>1. a \in Int
  OBVIOUS
<1>2. a \div w \in Nat
  OBVIOUS
<1> QED
  BY <1>1, <1>2, IntDivision

\* Only its quotient and its remainder make up a number.
LEMMA DivisionUnique ==
  ASSUME NEW a \in Int, NEW w \in Nat, NEW q \in Int, NEW r \in Nat,
         w > 0, r < w, a = q * w + r
  PROVE  q = a \div w /\ r = a % w
OBVIOUS

\* The digits above the first, and the first one below them.
LEMMA DivisionStep ==
  ASSUME NEW a \in Int, NEW w \in Nat, NEW b \in Nat, w > 0, b > 0
  PROVE  /\ a \div (b * w) = (a \div w) \div b
         /\ a % (b * w) = (a % w) + ((a \div w) % b) * w
<1> DEFINE q == a \div w
           r == a % w
           p == q \div b
           d == q % b
<1>1. q \in Int /\ r \in Nat /\ r < w /\ a = q * w + r
  BY IntDivision
<1>2. p \in Int /\ d \in Nat /\ d < b /\ q = p * b + d
  BY <1>1, IntDivision
<1> HIDE DEF q, r, p, d
<1>3. a = p * (b * w) + (r + d * w)
  <2>1. a = (p * b + d) * w + r
    BY <1>1, <1>2
  <2>2. (p * b + d) * w = p * (b * w) + d * w
    BY <1>2
  <2> QED
    BY <1>1, <1>2, <2>1, <2>2
<1>4. r + d * w < b * w
  <2>1. d + 1 <= b
    BY <1>2
  <2>2. (d + 1) * w <= b * w
    BY <1>2, <2>1
  <2>3. (d + 1) * w = d * w + w
    BY <1>2
  <2> QED
    BY <1>1, <1>2, <2>2, <2>3
<1>5. b * w \in Nat /\ b * w > 0 /\ r + d * w \in Nat
  BY <1>1, <1>2
<1>6. p = a \div (b * w) /\ r + d * w = a % (b * w)
  <2> DEFINE m == b * w
             e == r + d * w
  <2>1. m \in Nat /\ m > 0 /\ e \in Nat /\ p \in Int /\ e < m /\ a = p * m + e
    BY <1>2, <1>3, <1>4, <1>5
  <2> HIDE DEF m, e
  <2>2. p = a \div m /\ e = a % m
    BY <2>1, DivisionUnique
  <2> QED
    BY <2>2 DEF m, e
<1> QED
  BY <1>6 DEF q, r, p, d

-----------------------------------------------------------------------------
(* The writers.                                                            *)

\* The low digit of a number and the digits above it.
LEMMA BaseDivision ==
  ASSUME NEW n \in Nat
  PROVE  /\ n \div Base \in Nat /\ n % Base \in Nat /\ n % Base < Base
         /\ n = (n \div Base) * Base + (n % Base)
         /\ n % Base \in Byte /\ (n % Base) + Base \in Byte
         /\ n \div Base # 0 => n \div Base < n
         /\ n < Base <=> n \div Base = 0
         /\ n < Base => n % Base = n
<1> DEFINE q == n \div Base
           r == n % Base
<1>1. q \in Nat /\ r \in Nat /\ r < Base /\ n = q * Base + r
  BY Division, Constants
<1>2. r \in Byte /\ r + Base \in Byte
  BY <1>1, Constants DEF Byte
<1> HIDE DEF q, r
<1>3. q # 0 => q < n
  <2> SUFFICES ASSUME q # 0 PROVE q < n
    OBVIOUS
  <2>1. 2 * q <= q * Base
    BY <1>1, Constants
  <2> QED
    BY <1>1, <2>1, Constants
<1>4. q # 0 => Base <= q * Base
  BY <1>1, Constants
<1>5. n < Base <=> q = 0
  BY <1>1, <1>4, Constants
<1>6. n < Base => r = n
  BY <1>1, <1>5, Constants
<1> QED
  BY <1>1, <1>2, <1>3, <1>5, <1>6 DEF q, r

\* EncodeBits is the function its definition asks for, and writes bytes.
LEMMA EncodeBitsDef ==
  /\ EncodeBits \in [Nat -> Seq(Byte)]
  /\ \A n \in Nat :
       EncodeBits[n] = IF n \div Base # 0
                         THEN <<(n % Base) + Base>> \o EncodeBits[n \div Base]
                         ELSE <<n % Base>>
<1> DEFINE V == Seq(Byte)
           base == [n \in Nat |-> <<n % Base>>]
           step == [a \in Nat \X V |-> <<(a[1] % Base) + Base>> \o a[2]]
           before == [n \in Nat |-> n \div Base]
           T == {n \in Nat : n \div Base = 0}
<1>1. Recursive(Nat, T, V, base, step, before)
  <2>1. base \in [Nat -> V]
    BY BaseDivision
  <2>2. step \in [Nat \X V -> V]
    <3> SUFFICES ASSUME NEW n \in Nat, NEW s \in Seq(Byte)
                 PROVE  <<(n % Base) + Base>> \o s \in Seq(Byte)
      OBVIOUS
    <3>1. <<(n % Base) + Base>> \in Seq(Byte)
      BY BaseDivision
    <3> QED
      BY <3>1, ConcatProperties
  <2>3. \A n \in Nat \ T : before[n] \in Nat /\ before[n] < n
    BY BaseDivision
  <2> HIDE DEF base, step, before, T, V
  <2> QED
    BY <2>1, <2>2, <2>3 DEF Recursive
<1> HIDE DEF base, step, before, T, V
<1>2. PICK f \in [Nat -> V] : Solves(f, Nat, T, base, step, before)
  BY <1>1, Recursion
<1>3. ASSUME NEW n \in Nat
      PROVE  f[n] = IF n \div Base # 0
                      THEN <<(n % Base) + Base>> \o f[n \div Base]
                      ELSE <<n % Base>>
  <2>1. f[n] = IF n \in T THEN base[n] ELSE step[<<n, f[before[n]]>>]
    BY <1>2 DEF Solves
  <2>2. CASE n \div Base = 0
    BY <2>1, <2>2 DEF T, base
  <2>3. CASE n \div Base # 0
    <3>1. n \notin T /\ before[n] = n \div Base /\ n \div Base \in Nat
      BY <2>3, BaseDivision DEF T, before
    <3>2. f[n] = step[<<n, f[n \div Base]>>] /\ f[n \div Base] \in V
      BY <1>2, <2>1, <3>1
    <3> QED
      BY <2>3, <3>2 DEF step
  <2> QED
    BY <2>2, <2>3
<1>4. f = [n \in Nat |-> LET rest == n \div Base IN
             IF rest # 0 THEN <<(n % Base) + Base>> \o f[rest]
                         ELSE <<n % Base>>]
  BY <1>3
<1>5. \E g : g = [n \in Nat |-> LET rest == n \div Base IN
             IF rest # 0 THEN <<(n % Base) + Base>> \o g[rest]
                         ELSE <<n % Base>>]
  BY <1>4
<1>6. EncodeBits = [n \in Nat |-> LET rest == n \div Base IN
             IF rest # 0 THEN <<(n % Base) + Base>> \o EncodeBits[rest]
                         ELSE <<n % Base>>]
  BY <1>5 DEF EncodeBits
<1>7. ASSUME NEW g,
             g = [n \in Nat |-> LET rest == n \div Base IN
                    IF rest # 0 THEN <<(n % Base) + Base>> \o g[rest]
                                ELSE <<n % Base>>]
      PROVE  \A n \in Nat : g[n] = IF n \div Base # 0
                         THEN <<(n % Base) + Base>> \o g[n \div Base]
                         ELSE <<n % Base>>
  BY <1>7
<1>8. \A n \in Nat : EncodeBits[n] = IF n \div Base # 0
                         THEN <<(n % Base) + Base>> \o EncodeBits[n \div Base]
                         ELSE <<n % Base>>
  BY <1>6, <1>7
<1> DEFINE S == {n \in Nat : EncodeBits[n] = f[n]}
<1>9. ASSUME NEW n \in Nat, \A m \in 0..n - 1 : m \in S
      PROVE  n \in S
  <2>1. CASE n \div Base = 0
    BY <1>3, <1>8, <2>1
  <2>2. CASE n \div Base # 0
    <3>1. n \div Base \in 0..n - 1
      BY <2>2, BaseDivision
    <3> QED
      BY <1>3, <1>8, <1>9, <2>2, <3>1
  <2> QED
    BY <2>1, <2>2
<1>10. \A n \in Nat : EncodeBits[n] = f[n]
  <2> HIDE DEF S
  <2>1. \A n \in Nat : n \in S
    BY <1>9, StrongInduction
  <2> QED
    BY <2>1 DEF S
<1>11. EncodeBits \in [Nat -> V]
  BY <1>6, <1>10
<1> QED
  BY <1>8, <1>11 DEF V

\* The sequence s is u in digits, low end first, each but the last marked.
Digits(u, s) ==
  /\ s \in Seq(Byte) /\ Len(s) > 0
  /\ \A i \in 1..Len(s) :
       s[i] = ((u \div Weight[i - 1]) % Base)
                + (IF i < Len(s) THEN Base ELSE 0)
  /\ u < Weight[Len(s)]
  /\ Len(s) > 1 => Weight[Len(s) - 1] <= u

\* encodeVarInt writes the digits of every number from the lowest on, each but
\* the last marked to go on, and none above the highest (varint.cpp:3-23).
THEOREM EncodeBitsDigits == \A u \in Nat : Digits(u, EncodeBits[u])
<1> DEFINE S == {u \in Nat : Digits(u, EncodeBits[u])}
<1>1. ASSUME NEW u \in Nat, \A m \in 0..u - 1 : m \in S
      PROVE  u \in S
  <2> DEFINE q == u \div Base
             d == u % Base
  <2>0. q \in Nat /\ d \in Nat /\ d < Base /\ u = q * Base + d
        /\ d \in Byte /\ d + Base \in Byte /\ u \div Weight[0] = u
    BY BaseDivision, WeightStep
  <2>1. CASE q = 0
    <3> DEFINE s == <<d>>
    <3>1. s \in Seq(Byte) /\ Len(s) = 1 /\ s[1] = d
      <4> HIDE DEF d
      <4> QED
        BY <2>0
    <3>2. u < Weight[1]
      <4>1. u < Base
        BY <2>1, BaseDivision
      <4>2. Weight[0 + 1] = Base * Weight[0] /\ Weight[0] = 1 /\ 0 + 1 = 1
        BY WeightStep
      <4>3. Weight[1] = Base
        BY <4>2, Constants
      <4> QED
        BY <4>1, <4>3
    <3>3. \A i \in 1..1 : i = 1 /\ i - 1 = 0
      OBVIOUS
    <3>4. Digits(u, s)
      <4> HIDE DEF s
      <4>1. \A i \in 1..Len(s) : s[i] = ((u \div Weight[i - 1]) % Base)
                + (IF i < Len(s) THEN Base ELSE 0)
        BY <2>0, <3>1, <3>3
      <4> QED
        BY <3>1, <3>2, <4>1 DEF Digits
    <3> QED
      BY <2>1, <3>4, EncodeBitsDef
  <2>2. CASE q # 0
    <3> DEFINE t == EncodeBits[q]
               s == <<d + Base>> \o t
               k == Len(t)
    <3>1. q \in 0..u - 1
      BY <2>2, BaseDivision
    <3>2. Digits(q, t)
      BY <1>1, <3>1
    <3>3. t \in Seq(Byte) /\ Len(t) = k /\ k \in Nat /\ k > 0
      BY <3>2, LenProperties DEF Digits
    <3>4. s = EncodeBits[u]
      BY <2>2, EncodeBitsDef
    <3>5. s \in Seq(Byte) /\ Len(s) = k + 1 /\ s[1] = d + Base
          /\ \A i \in 1..k : s[i + 1] = t[i]
      <4>1. <<d + Base>> \in Seq(Byte) /\ Len(<<d + Base>>) = 1
        BY <2>0
      <4> QED
        BY <3>3, <4>1, ConcatProperties
    <3> HIDE DEF s, t, k
    <3>6. \A i \in 1..k : s[i + 1] = ((u \div Weight[i]) % Base)
                                       + (IF i < k THEN Base ELSE 0)
      <4> SUFFICES ASSUME NEW i \in 1..k
                   PROVE  s[i + 1] = ((u \div Weight[i]) % Base)
                                       + (IF i < k THEN Base ELSE 0)
        OBVIOUS
      <4>1. s[i + 1] = ((q \div Weight[i - 1]) % Base)
                         + (IF i < k THEN Base ELSE 0)
        BY <3>2, <3>3, <3>5 DEF Digits
      <4>2. i - 1 \in Nat /\ (i - 1) + 1 = i
        OBVIOUS
      <4>3. Weight[i] = Base * Weight[i - 1] /\ Weight[i - 1] \in Nat
            /\ Weight[i - 1] > 0
        BY <4>2, WeightStep, WeightPositive
      <4>4. Base * Weight[i - 1] = Weight[i - 1] * Base
        BY <4>3, Constants
      <4>5. u \div (Weight[i - 1] * Base) = (u \div Base) \div Weight[i - 1]
        BY <4>3, DivisionStep, Constants
      <4> QED
        BY <4>1, <4>3, <4>4, <4>5
    <3>7. \A i \in 1..Len(s) : s[i] = ((u \div Weight[i - 1]) % Base)
                                        + (IF i < Len(s) THEN Base ELSE 0)
      <4> SUFFICES ASSUME NEW i \in 1..k + 1
                   PROVE  s[i] = ((u \div Weight[i - 1]) % Base)
                                   + (IF i < k + 1 THEN Base ELSE 0)
        BY <3>5
      <4>1. CASE i = 1
        BY <2>0, <3>3, <3>5, <4>1
      <4>2. CASE i # 1
        <5>1. i - 1 \in 1..k /\ (i - 1) + 1 = i
          BY <3>3, <4>2
        <5>2. i - 1 < k <=> i < k + 1
          BY <3>3
        <5>3. s[(i - 1) + 1] = ((u \div Weight[i - 1]) % Base)
                                 + (IF i - 1 < k THEN Base ELSE 0)
          BY <3>6, <5>1
        <5> QED
          BY <5>1, <5>2, <5>3
      <4> QED
        BY <4>1, <4>2
    <3>8. /\ Weight[k + 1] = Base * Weight[k] /\ Weight[k] = Base * Weight[k - 1]
          /\ Weight[k] \in Nat /\ Weight[k - 1] \in Nat
      <4>1. k - 1 \in Nat /\ (k - 1) + 1 = k
        BY <3>3
      <4> QED
        BY <3>3, <4>1, WeightStep, WeightPositive
    <3>9. u < Weight[k + 1]
      <4>1. q + 1 <= Weight[k]
        BY <2>0, <3>2, <3>3, <3>8 DEF Digits
      <4>2. (q + 1) * Base <= Weight[k] * Base
        BY <2>0, <3>8, <4>1, Times, Constants
      <4>3. (q + 1) * Base = q * Base + Base
        BY <2>0, Constants
      <4> QED
        BY <2>0, <3>8, <4>2, <4>3, Constants
    <3>10. Weight[k] <= u
      <4>1. Weight[k - 1] <= q
        <5>1. CASE k > 1
          BY <3>2, <3>3, <5>1 DEF Digits
        <5>2. CASE k = 1
          BY <2>0, <2>2, <5>2, WeightStep
        <5> QED
          BY <3>3, <5>1, <5>2
      <4>2. Weight[k - 1] * Base <= q * Base
        BY <2>0, <3>8, <4>1, Times, Constants
      <4> QED
        BY <2>0, <3>8, <4>2, Constants
    <3>11. Digits(u, s)
      BY <3>3, <3>5, <3>7, <3>9, <3>10 DEF Digits
    <3> QED
      BY <3>4, <3>11
  <2> QED
    BY <2>1, <2>2
<1> HIDE DEF S
<1>2. \A u \in Nat : u \in S
  BY <1>1, StrongInduction
<1> QED
  BY <1>2 DEF S

\* The low eight bits of a number with 0x80 set are its low seven and 0x80.
LEMMA LowBits ==
  ASSUME NEW n \in Nat
  PROVE  /\ n % (2 * Base) >= Base => n % (2 * Base) = (n % Base) + Base
         /\ n % (2 * Base) < Base => n % (2 * Base) = n % Base
<1> DEFINE q == n \div (2 * Base)
           r == n % (2 * Base)
<1>1. 2 * Base \in Nat /\ 2 * Base > 0
  BY Constants
<1>2. q \in Nat /\ r \in Nat /\ r < 2 * Base /\ n = q * (2 * Base) + r
  BY <1>1, Division
<1> HIDE DEF q, r
<1>3. CASE r >= Base
  <2>1. r - Base \in Nat /\ r - Base < Base /\ 2 * q + 1 \in Nat
    BY <1>2, <1>3, Constants
  <2>2. n = (2 * q + 1) * Base + (r - Base)
    <3>1. (2 * q + 1) * Base = q * (2 * Base) + Base
      BY <1>2, Constants
    <3> QED
      BY <1>2, <3>1, Constants
  <2>3. r - Base = n % Base
    <3> DEFINE p == 2 * q + 1
               e == r - Base
    <3>1. p \in Nat /\ e \in Nat /\ e < Base /\ n = p * Base + e
      BY <2>1, <2>2
    <3> HIDE DEF p, e
    <3>2. e = n % Base
      BY <3>1, DivisionUnique, Constants
    <3> QED
      BY <3>2 DEF e
  <2> QED
    BY <1>2, <1>3, <2>3, Constants DEF r
<1>4. CASE r < Base
  <2>1. n = (2 * q) * Base + r
    BY <1>2, Constants
  <2>2. r = n % Base
    BY <1>2, <1>4, <2>1, DivisionUnique, Constants
  <2> QED
    BY <1>2, <1>4, <2>2, Constants DEF r
<1> QED
  BY <1>2, <1>3, <1>4, Constants

\* WriteBits, with the byte of a digit that is not the last made plain.
LEMMA WriteBitsDef ==
  \A n \in Nat :
    WriteBits[n] = IF n >= Base
                     THEN <<(n % Base) + Base>> \o WriteBits[n \div Base]
                     ELSE <<n % Base>>
<1> DEFINE low == [n \in Nat |-> n % (2 * Base)]
           first == [n \in Nat |-> IF low[n] >= Base THEN low[n] ELSE low[n] + Base]
           V == Seq(Byte)
           base == [n \in Nat |-> <<n % Base>>]
           step == [a \in Nat \X V |-> <<(a[1] % Base) + Base>> \o a[2]]
           before == [n \in Nat |-> n \div Base]
           T == {n \in Nat : n < Base}
<1>1. Recursive(Nat, T, V, base, step, before)
  <2>1. base \in [Nat -> V]
    BY BaseDivision
  <2>2. step \in [Nat \X V -> V]
    <3> SUFFICES ASSUME NEW n \in Nat, NEW s \in Seq(Byte)
                 PROVE  <<(n % Base) + Base>> \o s \in Seq(Byte)
      OBVIOUS
    <3>1. <<(n % Base) + Base>> \in Seq(Byte)
      BY BaseDivision
    <3> QED
      BY <3>1, ConcatProperties
  <2>3. \A n \in Nat \ T : before[n] \in Nat /\ before[n] < n
    BY BaseDivision
  <2> HIDE DEF base, step, before, T, V
  <2> QED
    BY <2>1, <2>2, <2>3 DEF Recursive
<1>2. \A n \in Nat :
        /\ n >= Base => first[n] = (n % Base) + Base
        /\ n < Base => low[n] = n % Base
  <2> SUFFICES ASSUME NEW n \in Nat
               PROVE  /\ n >= Base => first[n] = (n % Base) + Base
                      /\ n < Base => low[n] = n % Base
    OBVIOUS
  <2>1. low[n] \in Nat
    BY Division, Constants
  <2>2. n < Base => low[n] < Base
    BY Constants
  <2>3. /\ low[n] >= Base => low[n] = (n % Base) + Base
        /\ low[n] < Base => low[n] = n % Base
    BY LowBits
  <2>4. first[n] = IF low[n] >= Base THEN low[n] ELSE low[n] + Base
    OBVIOUS
  <2> HIDE DEF low, first
  <2>5. low[n] >= Base \/ low[n] < Base
    BY <2>1, Constants
  <2> QED
    BY <2>1, <2>2, <2>3, <2>4, <2>5
<1> HIDE DEF base, step, before, T, V, low, first
<1>3. PICK f \in [Nat -> V] : Solves(f, Nat, T, base, step, before)
  BY <1>1, Recursion
<1>4. ASSUME NEW n \in Nat
      PROVE  f[n] = IF n >= Base THEN <<first[n]>> \o f[n \div Base]
                                 ELSE <<low[n]>>
  <2>1. f[n] = IF n \in T THEN base[n] ELSE step[<<n, f[before[n]]>>]
    BY <1>3 DEF Solves
  <2>2. CASE n < Base
    <3>1. n \in T /\ ~(n >= Base) /\ low[n] = n % Base
      BY <1>2, <2>2, Constants DEF T
    <3> QED
      BY <2>1, <3>1 DEF base
  <2>3. CASE n >= Base
    <3>1. n \notin T /\ before[n] = n \div Base /\ n \div Base \in Nat
      BY <2>3, BaseDivision, Constants DEF T, before
    <3>2. f[n] = step[<<n, f[n \div Base]>>] /\ f[n \div Base] \in V
      BY <1>3, <2>1, <3>1
    <3>3. first[n] = (n % Base) + Base
      BY <1>2, <2>3
    <3>4. f[n] = <<(n % Base) + Base>> \o f[n \div Base]
      BY <3>2 DEF step
    <3> QED
      BY <2>3, <3>3, <3>4
  <2> QED
    BY <2>2, <2>3, Constants
<1>5. f = [n \in Nat |-> IF n >= Base THEN <<first[n]>> \o f[n \div Base]
                                      ELSE <<low[n]>>]
  BY <1>4
<1>6. \E g : g = [n \in Nat |-> IF n >= Base THEN <<first[n]>> \o g[n \div Base]
                                             ELSE <<low[n]>>]
  BY <1>5
<1>7. WriteBits = [n \in Nat |-> IF n >= Base
                                   THEN <<first[n]>> \o WriteBits[n \div Base]
                                   ELSE <<low[n]>>]
  BY <1>6 DEF WriteBits, first, low
<1> SUFFICES ASSUME NEW n \in Nat
             PROVE  WriteBits[n] = IF n >= Base
                                     THEN <<(n % Base) + Base>> \o WriteBits[n \div Base]
                                     ELSE <<n % Base>>
  OBVIOUS
<1>8. WriteBits[n] = IF n >= Base THEN <<first[n]>> \o WriteBits[n \div Base]
                                  ELSE <<low[n]>>
  BY <1>7
<1>9. n >= Base \/ (n < Base /\ ~(n >= Base))
  BY Constants
<1> QED
  BY <1>2, <1>8, <1>9

\* The two writers write the same bytes.
LEMMA WriteBitsAgrees == \A n \in Nat : WriteBits[n] = EncodeBits[n]
<1> DEFINE S == {n \in Nat : WriteBits[n] = EncodeBits[n]}
<1>1. ASSUME NEW n \in Nat, \A m \in 0..n - 1 : m \in S
      PROVE  n \in S
  <2>1. CASE n < Base
    <3>1. n \div Base = 0 /\ ~(n >= Base)
      BY <2>1, BaseDivision, Constants
    <3> QED
      BY <3>1, WriteBitsDef, EncodeBitsDef
  <2>2. CASE n >= Base
    <3>1. n \div Base \in Nat /\ n \div Base # 0 /\ n \div Base < n
      <4>1. ~(n < Base)
        BY <2>2, Constants
      <4> QED
        BY <4>1, BaseDivision
    <3>2. WriteBits[n \div Base] = EncodeBits[n \div Base]
      <4>1. n \div Base \in 0..n - 1
        BY <3>1
      <4> QED
        BY <1>1, <4>1
    <3> QED
      BY <2>2, <3>1, <3>2, WriteBitsDef, EncodeBitsDef
  <2> QED
    BY <2>1, <2>2, Constants
<1> HIDE DEF S
<1>2. \A n \in Nat : n \in S
  BY <1>1, StrongInduction
<1> QED
  BY <1>2 DEF S

-----------------------------------------------------------------------------
(* The readers.                                                            *)

\* The minimum of a set that is known to hold it.
LEMMA MinOf ==
  ASSUME NEW S \in SUBSET Int, NEW x \in S, \A y \in S : x <= y
  PROVE  Min(S) = x
<1>1. \E m \in S : \A y \in S : m <= y
  OBVIOUS
<1>2. Min(S) \in S /\ \A y \in S : Min(S) <= y
  BY <1>1 DEF Min
<1>3. Min(S) \in Int /\ x \in Int /\ x <= Min(S) /\ Min(S) <= x
  BY <1>2
<1> QED
  BY <1>3

\* A set of numbers holds its minimum.
LEMMA MinType ==
  ASSUME NEW S \in SUBSET Nat, S # {}
  PROVE  Min(S) \in S /\ \A y \in S : Min(S) <= y
<1>1. \E m \in S : \A y \in S : m <= y
  <2> SUFFICES ASSUME ~ \E m \in S : \A y \in S : m <= y PROVE FALSE
    OBVIOUS
  <2> DEFINE T == {n \in Nat : n \notin S}
  <2>1. ASSUME NEW n \in Nat, \A m \in 0..n - 1 : m \in T
        PROVE  n \in T
    <3> SUFFICES ASSUME n \in S PROVE FALSE
      OBVIOUS
    <3>1. PICK y \in S : y < n
      OBVIOUS
    <3>2. y \in 0..n - 1
      BY <3>1
    <3> QED
      BY <2>1, <3>2
  <2> HIDE DEF T
  <2>2. \A n \in Nat : n \in T
    BY <2>1, StrongInduction
  <2> QED
    BY <2>2 DEF T
<1> QED
  BY <1>1 DEF Min

\* A reader takes a number up to its last byte ...
LEMMA TakenEnds ==
  ASSUME NEW b \in Seq(Byte), NEW max \in Nat, NEW k \in 1..Len(b), k <= max,
         ~Continues(b[k]), \A i \in 1..k - 1 : Continues(b[i])
  PROVE  Taken(b, max) = k
<1> DEFINE ends == {i \in 1..Len(b) : ~Continues(b[i])}
           all == ends \cup {Len(b), max}
<1>1. Len(b) \in Nat
  OBVIOUS
<1>2. all \in SUBSET Int /\ k \in all
  BY <1>1
<1>3. ASSUME NEW y \in all
      PROVE  k <= y
  <2>1. CASE y \in ends
    BY <2>1
  <2>2. CASE y \in {Len(b), max}
    BY <1>1, <2>2
  <2> QED
    BY <2>1, <2>2
<1>4. Min(all) = k
  <2> HIDE DEF all
  <2> QED
    BY <1>2, <1>3, MinOf
<1> QED
  BY <1>4 DEF Taken

\* ... all that there is, if the number does not end ...
LEMMA TakenAll ==
  ASSUME NEW b \in Seq(Byte), NEW max \in Nat, Len(b) <= max,
         \A i \in 1..Len(b) : Continues(b[i])
  PROVE  Taken(b, max) = Len(b)
<1> DEFINE ends == {i \in 1..Len(b) : ~Continues(b[i])}
           all == ends \cup {Len(b), max}
<1>1. Len(b) \in Nat
  OBVIOUS
<1>2. all \in SUBSET Int /\ Len(b) \in all /\ \A y \in all : Len(b) <= y
  BY <1>1
<1>3. Min(all) = Len(b)
  <2> HIDE DEF all
  <2> QED
    BY <1>2, MinOf
<1> QED
  BY <1>3 DEF Taken

\* ... and in no case more than there is.
LEMMA TakenType ==
  ASSUME NEW b \in Seq(Byte), NEW max \in Nat
  PROVE  Taken(b, max) \in Nat /\ Taken(b, max) <= Len(b)
<1> DEFINE ends == {i \in 1..Len(b) : ~Continues(b[i])}
           all == ends \cup {Len(b), max}
<1>1. Len(b) \in Nat
  OBVIOUS
<1>2. all \in SUBSET Nat /\ all # {} /\ Len(b) \in all
  BY <1>1
<1>3. Min(all) \in Nat /\ Min(all) <= Len(b)
  <2> HIDE DEF all
  <2> QED
    BY <1>2, MinType
<1> QED
  BY <1>3 DEF Taken

\* A digit in its place is a number.
LEMMA ShiftedType ==
  ASSUME NEW b \in Seq(Byte), NEW i \in 1..Len(b)
  PROVE  Shifted(b, i) \in Nat
<1>1. b[i] \in Nat
  BY Constants DEF Byte
<1>2. b[i] % Base \in Nat
  BY <1>1, Division, Constants
<1>3. (b[i] % Base) * Weight[i - 1] \in Nat
  <2>1. i - 1 \in Nat
    OBVIOUS
  <2>2. Weight[i - 1] \in Nat
    BY <2>1, WeightPositive
  <2> QED
    BY <1>2, <2>2
<1>4. ((b[i] % Base) * Weight[i - 1]) % Word \in Nat
  <2> DEFINE a == (b[i] % Base) * Weight[i - 1]
  <2> HIDE DEF a
  <2>1. a % Word \in Nat
    BY <1>3, Division, Constants DEF a
  <2> QED
    BY <2>1 DEF a
<1> QED
  BY <1>4, Constants DEF Shifted

\* ValueOf adds up the digits one by one.
LEMMA ValueOfDef ==
  ASSUME NEW b \in Seq(Byte), NEW n \in 0..Len(b)
  PROVE  \E f \in [0..n -> Nat] :
           /\ f[0] = 0
           /\ \A i \in 1..n : f[i] = f[i - 1] + Shifted(b, i)
           /\ ValueOf(b, n) = Signed(f[n] % Word)
<1> DEFINE D == 0..n
           V == Nat
           T == {0}
           base == [i \in D |-> 0]
           step == [a \in D \X V |->
                      IF a[1] \in 1..n THEN a[2] + Shifted(b, a[1]) ELSE 0]
           before == [i \in D |-> i - 1]
<1>1. n \in Nat /\ n <= Len(b) /\ Len(b) \in Nat
  OBVIOUS
<1>2. Recursive(D, T, V, base, step, before)
  <2>1. base \in [D -> V] /\ D \in SUBSET Nat
    BY <1>1
  <2>2. step \in [D \X V -> V]
    <3> SUFFICES ASSUME NEW i \in D, NEW v \in V
                 PROVE  (IF i \in 1..n THEN v + Shifted(b, i) ELSE 0) \in V
      OBVIOUS
    <3>1. CASE i \in 1..n
      <4>1. i \in 1..Len(b)
        BY <1>1, <3>1
      <4> QED
        BY <3>1, <4>1, ShiftedType
    <3>2. CASE i \notin 1..n
      BY <3>2
    <3> QED
      BY <3>1, <3>2
  <2>3. \A i \in D \ T : before[i] \in D /\ before[i] < i
    BY <1>1
  <2> HIDE DEF D, T, V, base, step, before
  <2> QED
    BY <2>1, <2>2, <2>3 DEF Recursive
<1> HIDE DEF T, V, base, step, before
<1>3. PICK f \in [D -> V] : Solves(f, D, T, base, step, before)
  <2> HIDE DEF D
  <2> QED
    BY <1>2, Recursion
<1>4. ASSUME NEW i \in D
      PROVE  f[i] = IF i = 0 THEN 0 ELSE f[i - 1] + Shifted(b, i)
  <2>1. f[i] = IF i \in T THEN base[i] ELSE step[<<i, f[before[i]]>>]
    BY <1>3 DEF Solves
  <2>2. CASE i = 0
    BY <2>1, <2>2 DEF T, base
  <2>3. CASE i # 0
    <3>1. i \notin T /\ before[i] = i - 1 /\ i - 1 \in D /\ i \in 1..n
      BY <1>1, <2>3 DEF T, before
    <3>2. f[i] = step[<<i, f[i - 1]>>] /\ f[i - 1] \in V
      BY <1>3, <2>1, <3>1
    <3> QED
      BY <2>3, <3>1, <3>2 DEF step
  <2> QED
    BY <2>2, <2>3
<1>5. f = [i \in D |-> IF i = 0 THEN 0 ELSE f[i - 1] + Shifted(b, i)]
  BY <1>4
<1> DEFINE up == CHOOSE g : g = [i \in D |-> IF i = 0 THEN 0
                                               ELSE g[i - 1] + Shifted(b, i)]
<1>6. up = [i \in D |-> IF i = 0 THEN 0 ELSE up[i - 1] + Shifted(b, i)]
  BY <1>5
<1>7. ValueOf(b, n) = Signed(up[n] % Word)
  BY DEF ValueOf
<1> HIDE DEF up
<1>8. /\ up[0] = 0
      /\ \A i \in 1..n : i - 1 \in D /\ up[i] = up[i - 1] + Shifted(b, i)
  BY <1>1, <1>6
<1>9. \A i \in Nat : i \in D => up[i] \in Nat
  <2> DEFINE S == {i \in Nat : i \in D => up[i] \in Nat}
  <2>1. 0 \in S
    BY <1>8
  <2>2. ASSUME NEW i \in Nat, i \in S
        PROVE  i + 1 \in S
    <3> SUFFICES ASSUME i + 1 \in D PROVE up[i + 1] \in Nat
      OBVIOUS
    <3>1. i \in D /\ i + 1 \in 1..n /\ (i + 1) - 1 = i /\ i + 1 \in 1..Len(b)
      BY <1>1
    <3>2. up[i] \in Nat /\ Shifted(b, i + 1) \in Nat
      BY <2>2, <3>1, ShiftedType
    <3> QED
      BY <1>8, <3>1, <3>2
  <2> HIDE DEF S
  <2>3. \A i \in Nat : i \in S
    BY <2>1, <2>2, Induction
  <2> QED
    BY <2>3 DEF S
<1>10. up \in [0..n -> Nat]
  BY <1>1, <1>6, <1>9
<1> QED
  BY <1>7, <1>8, <1>10

\* A number is its own remainder by a larger one.
LEMMA Smaller ==
  ASSUME NEW a \in Nat, NEW w \in Nat, a < w
  PROVE  a % w = a
OBVIOUS

\* The digit in a byte, marked or not.
LEMMA DigitOf ==
  ASSUME NEW d \in Nat, d < Base
  PROVE  d % Base = d /\ (d + Base) % Base = d
<1>1. d % Base = d
  BY Smaller, Constants
<1> DEFINE a == d + Base
           one == 1
<1>2. a \in Nat /\ one \in Nat /\ a = one * Base + d
  BY Constants
<1> HIDE DEF a, one
<1>3. a % Base = d
  BY <1>2, DivisionUnique, Constants
<1> QED
  BY <1>1, <1>3 DEF a

\* The weights of the digits that a word has are less than the word.
LEMMA WeightInWord ==
  ASSUME NEW i \in Nat, i < MaxBytes
  PROVE  Weight[i] < Word /\ 2 * Weight[i] <= Word
<1> DEFINE w == Weight[i]
           last == Weight[MaxBytes - 1]
<1>1. MaxBytes - 1 \in Nat /\ i <= MaxBytes - 1
  BY Constants
<1>2. w \in Nat /\ w > 0 /\ last \in Nat /\ w <= last
  BY <1>1, WeightPositive, WeightGrows
<1>3. 2 * last <= Word
  BY VarIntAssumption
<1> HIDE DEF w, last
<1>4. w < Word /\ 2 * w <= Word
  BY <1>2, <1>3, Constants
<1> QED
  BY <1>4 DEF w

\* The first digits of a word, read back, are the word below their weight.
LEMMA ValueOfDigits ==
  ASSUME NEW u \in 0..Word - 1, NEW s, Digits(u, s), NEW b \in Seq(Byte),
         NEW n \in 0..Len(s), n <= Len(b), n <= MaxBytes,
         \A i \in 1..n : b[i] = s[i]
  PROVE  ValueOf(b, n) = Signed(u % Weight[n])
<1>1. n \in Nat /\ u \in Nat /\ Len(s) \in Nat /\ Len(b) \in Nat
      /\ n \in 0..Len(b)
  BY LenProperties DEF Digits
<1>2. PICK f \in [0..n -> Nat] :
           /\ f[0] = 0
           /\ \A i \in 1..n : f[i] = f[i - 1] + Shifted(b, i)
           /\ ValueOf(b, n) = Signed(f[n] % Word)
  BY <1>1, ValueOfDef
<1> DEFINE S == {i \in Nat : i <= n => f[i] = u % Weight[i]}
<1>3. 0 \in S
  <2>1. u % 1 = 0
    BY <1>1
  <2> QED
    BY <1>1, <1>2, <2>1, WeightStep
<1>4. ASSUME NEW i \in Nat, i \in S
      PROVE  i + 1 \in S
  <2> SUFFICES ASSUME i + 1 <= n PROVE f[i + 1] = u % Weight[i + 1]
    OBVIOUS
  <2> DEFINE w == Weight[i]
             q == u \div w
             d == q % Base
  <2>1. i + 1 \in 1..n /\ (i + 1) - 1 = i /\ i + 1 \in 1..Len(s) /\ i <= n
    BY <1>1
  <2>2. w \in Nat /\ w > 0
    BY WeightPositive
  <2>3. q \in Nat /\ u % w \in Nat /\ u % w < w /\ u = q * w + (u % w)
    BY <1>1, <2>2, Division
  <2>4. d \in Nat /\ d < Base /\ d <= q
    <3> DEFINE p == q \div Base
    <3>1. q \in Nat
      BY <2>3
    <3> HIDE DEF q
    <3>2. q = p * Base + d /\ p \in Nat /\ d \in Nat /\ d < Base
      BY <3>1, BaseDivision
    <3> HIDE DEF p, d
    <3>3. p * Base \in Nat
      BY <3>2, Constants
    <3> QED
      BY <3>1, <3>2, <3>3
  <2>5. b[i + 1] % Base = d
    <3>1. b[i + 1] = d + (IF i + 1 < Len(s) THEN Base ELSE 0)
      BY <2>1 DEF Digits
    <3> HIDE DEF d
    <3> QED
      BY <2>4, <3>1, DigitOf, Constants
  <2>6. d * w \in Nat /\ d * w <= u
    <3> HIDE DEF d, q, w
    <3>1. d * w <= q * w /\ q * w \in Nat /\ d * w \in Nat
      BY <2>2, <2>3, <2>4, Times
    <3> QED
      BY <1>1, <2>3, <3>1
  <2>7. w < Word
    <3>1. i < MaxBytes
      BY <1>1, <2>1, Constants
    <3> QED
      BY <3>1, WeightInWord
  <2>8. Shifted(b, i + 1) = d * w
    <3>1. Shifted(b, i + 1) = (d * w) % Word
      BY <2>1, <2>5, <2>7 DEF Shifted
    <3> HIDE DEF d, w
    <3> DEFINE a == d * w
    <3>2. a \in Nat /\ a < Word
      BY <2>6, Constants
    <3> HIDE DEF a
    <3>3. a % Word = a
      BY <3>2, Smaller, Constants
    <3> QED
      BY <3>1, <3>3 DEF a
  <2>9. f[i + 1] = f[i] + Shifted(b, i + 1) /\ f[i] = u % w
    BY <1>2, <1>4, <2>1
  <2>10. u % (Base * w) = (u % w) + d * w
    <3>1. Base \in Nat /\ Base > 0 /\ u \in Int
      BY <1>1, Constants
    <3> HIDE DEF w
    <3> QED
      BY <2>2, <3>1, DivisionStep, Zenon
  <2>11. Weight[i + 1] = Base * w
    BY WeightStep
  <2> HIDE DEF w, d
  <2> QED
    BY <2>8, <2>9, <2>10, <2>11
<1> HIDE DEF S
<1>5. \A i \in Nat : i \in S
  BY <1>3, <1>4, Induction
<1>6. f[n] = u % Weight[n]
  BY <1>1, <1>5 DEF S
<1>7. (u % Weight[n]) % Word = u % Weight[n]
  <2>1. Weight[n] \in Nat /\ Weight[n] > 0
    BY <1>1, WeightPositive
  <2> DEFINE w == Weight[n]
             r == u % w
             q == u \div w
             m == q * w
  <2> HIDE DEF w
  <2>2. r \in Nat /\ q \in Nat /\ u = m + r
    BY <1>1, <2>1, Division DEF w
  <2> HIDE DEF q
  <2>3. m \in Nat
    <3>1. q \in Nat /\ w \in Nat
      BY <2>1, <2>2 DEF w
    <3> QED
      BY <3>1
  <2> HIDE DEF r, m
  <2>4. r < Word
    BY <1>1, <2>2, <2>3, Constants
  <2>5. r % Word = r
    BY <2>2, <2>4, Smaller, Constants
  <2> QED
    BY <2>5 DEF r, w
<1> QED
  BY <1>2, <1>6, <1>7

\* A word takes one digit or more, and no more than MaxBytes.
LEMMA DigitsLength ==
  ASSUME NEW u \in 0..Word - 1, NEW s, Digits(u, s)
  PROVE  Len(s) \in 1..MaxBytes
<1>1. Len(s) \in Nat /\ Len(s) > 0 /\ u \in Nat
  BY LenProperties DEF Digits
<1>2. SUFFICES ASSUME Len(s) > MaxBytes PROVE FALSE
  BY <1>1, Constants
<1>3. Len(s) - 1 \in Nat /\ MaxBytes \in Nat /\ MaxBytes <= Len(s) - 1
      /\ Len(s) > 1
  BY <1>1, <1>2, Constants
<1>4. Weight[MaxBytes] <= Weight[Len(s) - 1] /\ Weight[Len(s) - 1] <= u
  BY <1>3, WeightGrows DEF Digits
<1>5. Word <= Weight[MaxBytes]
  BY VarIntAssumption
<1>6. Weight[MaxBytes] \in Nat /\ Weight[Len(s) - 1] \in Nat
  BY <1>3, WeightPositive
<1> QED
  BY <1>1, <1>4, <1>5, <1>6, Constants

\* The bytes of a word go on, except the last.
LEMMA DigitsMarked ==
  ASSUME NEW u \in Nat, NEW s, Digits(u, s)
  PROVE  /\ ~Continues(s[Len(s)])
         /\ \A i \in 1..Len(s) - 1 : Continues(s[i])
<1>1. Len(s) \in Nat /\ Len(s) > 0
  BY LenProperties DEF Digits
<1>2. ASSUME NEW i \in 1..Len(s)
      PROVE  Continues(s[i]) <=> i < Len(s)
  <2> DEFINE d == (u \div Weight[i - 1]) % Base
  <2>1. d \in Nat /\ d < Base
    <3>1. i - 1 \in Nat
      OBVIOUS
    <3>2. u \div Weight[i - 1] \in Nat
      BY <3>1, WeightPositive, Division
    <3> QED
      BY <3>2, Division, Constants
  <2>2. s[i] = d + (IF i < Len(s) THEN Base ELSE 0)
    BY DEF Digits
  <2> HIDE DEF d
  <2>3. CASE i < Len(s)
    BY <2>1, <2>2, <2>3, Constants DEF Continues
  <2>4. CASE ~(i < Len(s))
    BY <2>1, <2>2, <2>4, Constants DEF Continues
  <2> QED
    BY <2>3, <2>4
<1>3. Len(s) \in 1..Len(s) /\ \A i \in 1..Len(s) - 1 : i \in 1..Len(s) /\ i < Len(s)
  BY <1>1
<1> QED
  BY <1>1, <1>2, <1>3

\* A number survives being taken for an unsigned one and back.
LEMMA SignedUnsigned ==
  ASSUME NEW n \in Int32
  PROVE  Unsigned(n) \in 0..Word - 1 /\ Signed(Unsigned(n)) = n
<1> DEFINE h == Word \div 2
<1>1. h \in Nat /\ Word = 2 * h
  BY Constants
<1> HIDE DEF h
<1>2. n \in Int /\ -h <= n /\ n < h
  BY <1>1 DEF Int32, h
<1>3. CASE n >= 0
  <2>1. n % Word = n
    BY <1>1, <1>2, <1>3, Constants
  <2> QED
    BY <1>1, <1>2, <1>3, <2>1, Constants DEF Unsigned, Signed, h
<1>4. CASE n < 0
  <2>1. n % Word = n + Word
    BY <1>1, <1>2, <1>4, Constants
  <2> QED
    BY <1>1, <1>2, <1>4, <2>1, Constants DEF Unsigned, Signed, h
<1> QED
  BY <1>2, <1>3, <1>4

\* Every word is a number of 32 bits.
LEMMA SignedType ==
  ASSUME NEW w \in Nat
  PROVE  Signed(w % Word) \in Int32
<1> DEFINE h == Word \div 2
<1>1. h \in Nat /\ Word = 2 * h
  BY Constants
<1>2. w % Word \in Nat /\ w % Word < Word
  BY Division, Constants
<1> HIDE DEF h
<1> QED
  BY <1>1, <1>2, Constants DEF Signed, Int32, h

-----------------------------------------------------------------------------
(* Together.                                                               *)

\* What encodeVarInt writes: the digits of the number, at most MaxBytes.
LEMMA Encoding ==
  ASSUME NEW n \in Int32
  PROVE  /\ Digits(Unsigned(n), EncodeVarInt(n))
         /\ EncodeVarInt(n) \in Seq(Byte)
         /\ Len(EncodeVarInt(n)) \in 1..MaxBytes
         /\ ~Continues(EncodeVarInt(n)[Len(EncodeVarInt(n))])
         /\ \A i \in 1..Len(EncodeVarInt(n)) - 1 : Continues(EncodeVarInt(n)[i])
<1>1. Unsigned(n) \in 0..Word - 1 /\ Unsigned(n) \in Nat
  BY SignedUnsigned
<1>2. Digits(Unsigned(n), EncodeVarInt(n))
  BY <1>1, EncodeBitsDigits DEF EncodeVarInt
<1> QED
  BY <1>1, <1>2, DigitsLength, DigitsMarked DEF Digits

\* What follows a number does not matter to its readers.
LEMMA Decoding ==
  ASSUME NEW n \in Int32, NEW r \in Seq(Byte)
  PROVE  LET e == EncodeVarInt(n) IN
         /\ ~Throws(e \o r)
         /\ DecodeVarInt(e \o r) = [value |-> n, bytesRead |-> Len(e)]
         /\ ReadVarInt(e \o r) = [value |-> n, bytesRead |-> Len(e)]
<1> DEFINE e == EncodeVarInt(n)
           b == e \o r
           k == Len(e)
<1>1. /\ Digits(Unsigned(n), e) /\ e \in Seq(Byte) /\ k \in 1..MaxBytes
      /\ ~Continues(e[k]) /\ \A i \in 1..k - 1 : Continues(e[i])
  BY Encoding
<1>2. /\ b \in Seq(Byte) /\ Len(b) = k + Len(r) /\ Len(r) \in Nat
      /\ \A i \in 1..k : b[i] = e[i]
  <2> HIDE DEF e
  <2>1. Len(r) \in Nat /\ k \in Nat
    BY <1>1, LenProperties
  <2> QED
    BY <1>1, <2>1, ConcatProperties
<1>3. Unsigned(n) \in 0..Word - 1 /\ Signed(Unsigned(n)) = n
  BY SignedUnsigned
<1> HIDE DEF e, b, k
<1>4. /\ k \in Nat /\ k \in 1..Len(b) /\ k <= MaxBytes /\ MaxBytes \in Nat
      /\ MaxBytes + 1 \in Nat /\ k <= MaxBytes + 1 /\ Len(b) \in Nat
  BY <1>1, <1>2, Constants
<1>5. ~Continues(b[k]) /\ \A i \in 1..k - 1 : Continues(b[i])
  BY <1>1, <1>2, <1>4
<1>6. Taken(b, MaxBytes + 1) = k /\ Taken(b, MaxBytes) = k
  BY <1>2, <1>4, <1>5, TakenEnds
<1>7. ValueOf(b, k) = n
  <2>1. k \in 0..Len(e) /\ k <= Len(b)
    BY <1>4 DEF k
  <2>2. ValueOf(b, k) = Signed(Unsigned(n) % Weight[k])
    BY <1>1, <1>2, <1>3, <1>4, <2>1, ValueOfDigits
  <2>3. Unsigned(n) \in Nat /\ Unsigned(n) < Weight[k] /\ Weight[k] \in Nat
    BY <1>1, <1>3, <1>4, WeightPositive DEF Digits, k
  <2>4. Unsigned(n) % Weight[k] = Unsigned(n)
    BY <2>3, Smaller
  <2> QED
    BY <1>3, <2>2, <2>4
<1>8. ~Throws(b)
  <2>1. k \in 1..MaxBytes + 1
    BY <1>1, <1>4
  <2> QED
    BY <1>5, <2>1 DEF Throws
<1>9. DecodeVarInt(b) = [value |-> n, bytesRead |-> k]
  BY <1>6, <1>7 DEF DecodeVarInt
<1>10. ReadVarInt(b) = [value |-> n, bytesRead |-> k]
  BY <1>4, <1>5, <1>6, <1>7 DEF ReadVarInt
<1> QED
  BY <1>8, <1>9, <1>10 DEF b, k, e

\* Of a number cut short, the digits that have come are read.
LEMMA DecodingCut ==
  ASSUME NEW n \in Int32, NEW b \in Seq(Byte), Len(b) < Len(EncodeVarInt(n)),
         \A i \in 1..Len(b) : b[i] = EncodeVarInt(n)[i]
  PROVE  /\ \A i \in 1..Len(b) : Continues(b[i])
         /\ ~Throws(b)
         /\ DecodeVarInt(b) = [value |-> Unsigned(n) % Weight[Len(b)],
                               bytesRead |-> Len(b)]
<1> DEFINE e == EncodeVarInt(n)
           k == Len(b)
<1>1. /\ Digits(Unsigned(n), e) /\ e \in Seq(Byte) /\ Len(e) \in 1..MaxBytes
      /\ \A i \in 1..Len(e) - 1 : Continues(e[i])
  BY Encoding
<1>2. Unsigned(n) \in 0..Word - 1 /\ Unsigned(n) \in Nat
  BY SignedUnsigned
<1> HIDE DEF e
<1>3. /\ k \in Nat /\ k < Len(e) /\ Len(e) \in Nat /\ Len(e) <= MaxBytes
      /\ MaxBytes + 1 \in Nat /\ k <= MaxBytes + 1 /\ k < MaxBytes
      /\ k <= MaxBytes /\ k <= Len(b) /\ k \in 0..Len(e)
      /\ \A i \in 1..k : i \in 1..Len(e) - 1
  BY <1>1, Constants DEF e
<1>4. \A i \in 1..k : b[i] = e[i] /\ Continues(b[i])
  BY <1>1, <1>3 DEF e
<1>5. Taken(b, MaxBytes + 1) = k
  BY <1>3, <1>4, TakenAll
<1>6. ValueOf(b, k) = Signed(Unsigned(n) % Weight[k])
  <2>1. \A i \in 1..k : b[i] = e[i]
    BY <1>4
  <2> QED
    BY <1>1, <1>2, <1>3, <2>1, ValueOfDigits
<1>7. Signed(Unsigned(n) % Weight[k]) = Unsigned(n) % Weight[k]
  <2> DEFINE w == Weight[k]
             u == Unsigned(n)
  <2>1. w \in Nat /\ w > 0 /\ 2 * w <= Word
    BY <1>3, WeightPositive, WeightInWord
  <2> HIDE DEF w, u
  <2>2. u % w \in Nat /\ u % w < w
    BY <1>2, <2>1, Division DEF u
  <2>3. u % w < Word \div 2
    BY <2>1, <2>2, Constants
  <2>4. Signed(u % w) = u % w
    BY <2>3 DEF Signed
  <2> QED
    BY <2>4 DEF w, u
<1>8. ~Throws(b)
  BY <1>3, Constants DEF Throws
<1>9. DecodeVarInt(b) = [value |-> Unsigned(n) % Weight[k], bytesRead |-> k]
  BY <1>5, <1>6, <1>7 DEF DecodeVarInt
<1> QED
  BY <1>4, <1>8, <1>9

\* Whatever the bytes, a number comes out.
LEMMA DecodingType ==
  ASSUME NEW b \in Seq(Byte)
  PROVE  /\ DecodeVarInt(b).value \in Int32
         /\ DecodeVarInt(b).bytesRead \in Nat
         /\ DecodeVarInt(b).bytesRead <= Len(b)
<1> DEFINE k == Taken(b, MaxBytes + 1)
<1>1. k \in Nat /\ k <= Len(b) /\ Len(b) \in Nat
  BY TakenType, Constants
<1>0. k \in 0..Len(b)
  BY <1>1
<1> HIDE DEF k
<1>2. PICK f \in [0..k -> Nat] : ValueOf(b, k) = Signed(f[k] % Word)
  BY <1>0, ValueOfDef
<1>3. ValueOf(b, k) \in Int32
  BY <1>1, <1>2, SignedType
<1> QED
  BY <1>1, <1>3 DEF DecodeVarInt, k

\* Every integer has a word.
LEMMA UnsignedType == \A n \in Int : Unsigned(n) \in Nat
BY Constants DEF Unsigned

\* The bytes of a number are bytes.
LEMMA EncodeType == \A n \in Int : EncodeVarInt(n) \in Seq(Byte)
BY UnsignedType, EncodeBitsDef DEF EncodeVarInt

-----------------------------------------------------------------------------
(* Sequences of sequences.                                                 *)

Regroups(a, b, c) == (a \o b) \o c = a \o (b \o c)

\* Where a sequence is joined does not matter ...
LEMMA Associative ==
  ASSUME NEW V
  PROVE  \A a, b, c \in Seq(V) : Regroups(a, b, c)
BY ConcatAssociative DEF Regroups

\* ... nor in bytes.
LEMMA BytesAssociative == \A a, b, c \in Seq(Byte) : Regroups(a, b, c)
BY Associative

\* FlattenSeq joins the sequences one by one.
LEMMA FlattenDef ==
  ASSUME NEW V, NEW ss \in Seq(Seq(V)), Len(ss) > 0
  PROVE  \E f \in [1..Len(ss) -> Seq(V)] :
           /\ f[1] = ss[1]
           /\ \A i \in 2..Len(ss) : f[i] = f[i - 1] \o ss[i]
           /\ FlattenSeq(ss) = f[Len(ss)]
<1> DEFINE n == Len(ss)
           D == 1..n
           R == Seq(V)
           T == {1}
           base == [i \in D |-> ss[i]]
           step == [a \in D \X R |-> a[2] \o ss[a[1]]]
           before == [i \in D |-> i - 1]
<1>1. n \in Nat /\ n > 0 /\ \A i \in D : ss[i] \in R
  BY ElementOfSeq
<1>2. Recursive(D, T, R, base, step, before)
  <2>1. base \in [D -> R] /\ D \in SUBSET Nat
    BY <1>1
  <2>2. step \in [D \X R -> R]
    BY <1>1, ConcatProperties
  <2>3. \A i \in D \ T : before[i] \in D /\ before[i] < i
    BY <1>1
  <2> HIDE DEF D, T, R, base, step, before
  <2> QED
    BY <2>1, <2>2, <2>3 DEF Recursive
<1> HIDE DEF T, R, base, step, before
<1>3. PICK f \in [D -> R] : Solves(f, D, T, base, step, before)
  <2> HIDE DEF D
  <2> QED
    BY <1>2, Recursion
<1>4. ASSUME NEW i \in D
      PROVE  f[i] = IF i = 1 THEN ss[i] ELSE f[i - 1] \o ss[i]
  <2>1. f[i] = IF i \in T THEN base[i] ELSE step[<<i, f[before[i]]>>]
    BY <1>3 DEF Solves
  <2>2. CASE i = 1
    BY <2>1, <2>2 DEF T, base
  <2>3. CASE i # 1
    <3>1. i \notin T /\ before[i] = i - 1 /\ i - 1 \in D
      BY <1>1, <2>3 DEF T, before
    <3>2. f[i] = step[<<i, f[i - 1]>>] /\ f[i - 1] \in R
      BY <1>3, <2>1, <3>1
    <3> QED
      BY <2>3, <3>1, <3>2 DEF step
  <2> QED
    BY <2>2, <2>3
<1>5. f = [i \in D |-> IF i = 1 THEN ss[i] ELSE f[i - 1] \o ss[i]]
  BY <1>4
<1> DEFINE g == CHOOSE h : h = [i \in D |-> IF i = 1 THEN ss[i]
                                              ELSE h[i - 1] \o ss[i]]
<1>6. g = [i \in D |-> IF i = 1 THEN ss[i] ELSE g[i - 1] \o ss[i]]
  BY <1>5
<1>7. FlattenSeq(ss) = g[n]
  BY <1>1 DEF FlattenSeq
<1> HIDE DEF g
<1>8. /\ g[1] = ss[1]
      /\ \A i \in 2..n : i - 1 \in D /\ g[i] = g[i - 1] \o ss[i]
  <2>1. 1 \in D /\ \A i \in 2..n : i \in D /\ i # 1 /\ i - 1 \in D
    BY <1>1
  <2> HIDE DEF D
  <2> QED
    BY <1>6, <2>1
<1>9. \A i \in Nat : i \in D => g[i] \in Seq(V)
  <2> DEFINE S == {i \in Nat : i \in D => g[i] \in Seq(V)}
  <2>1. 0 \in S
    OBVIOUS
  <2>2. ASSUME NEW i \in Nat, i \in S
        PROVE  i + 1 \in S
    <3> SUFFICES ASSUME i + 1 \in D PROVE g[i + 1] \in Seq(V)
      OBVIOUS
    <3>1. CASE i = 0
      BY <1>1, <1>8, <3>1 DEF R
    <3>2. CASE i # 0
      <4>1. i \in D /\ i + 1 \in 2..n /\ (i + 1) - 1 = i /\ i + 1 \in D
        BY <1>1, <3>2
      <4>2. g[i] \in Seq(V) /\ ss[i + 1] \in Seq(V) /\ g[i + 1] = g[i] \o ss[i + 1]
        BY <1>1, <1>8, <2>2, <4>1 DEF R
      <4> QED
        BY <4>2, ConcatProperties
    <3> QED
      BY <3>1, <3>2
  <2> HIDE DEF S
  <2>3. \A i \in Nat : i \in S
    BY <2>1, <2>2, Induction
  <2> QED
    BY <2>3 DEF S
<1>10. g \in [1..n -> Seq(V)]
  BY <1>1, <1>6, <1>9
<1> QED
  BY <1>7, <1>8, <1>10

\* No sequences make the empty one ...
LEMMA FlattenEmpty == FlattenSeq(<<>>) = <<>>
BY DEF FlattenSeq

\* ... and sequences over a set one over that set.
LEMMA FlattenType ==
  ASSUME NEW V, NEW ss \in Seq(Seq(V))
  PROVE  FlattenSeq(ss) \in Seq(V)
<1>1. CASE Len(ss) = 0
  <2>1. ss = <<>>
    BY <1>1, EmptySeq
  <2> QED
    BY <2>1, FlattenEmpty, EmptySeq
<1>2. CASE Len(ss) > 0
  <2>1. PICK f \in [1..Len(ss) -> Seq(V)] : FlattenSeq(ss) = f[Len(ss)]
    BY <1>2, FlattenDef
  <2>2. Len(ss) \in 1..Len(ss)
    BY <1>2, LenProperties
  <2> QED
    BY <2>1, <2>2
<1> QED
  BY <1>1, <1>2, LenProperties

\* One more at the end.
LEMMA FlattenAppend ==
  ASSUME NEW V, NEW ss \in Seq(Seq(V)), NEW s \in Seq(V)
  PROVE  FlattenSeq(Append(ss, s)) = FlattenSeq(ss) \o s
<1> DEFINE tt == Append(ss, s)
           n == Len(ss)
<1>1. /\ n \in Nat /\ tt \in Seq(Seq(V)) /\ Len(tt) = n + 1
      /\ \A i \in 1..n : tt[i] = ss[i]
      /\ tt[n + 1] = s
  BY AppendProperties
<1> HIDE DEF tt
<1>2. PICK f \in [1..n + 1 -> Seq(V)] :
           /\ f[1] = tt[1]
           /\ \A i \in 2..n + 1 : f[i] = f[i - 1] \o tt[i]
           /\ FlattenSeq(tt) = f[n + 1]
  <2>1. Len(tt) > 0
    BY <1>1
  <2>2. \E f \in [1..Len(tt) -> Seq(V)] :
           /\ f[1] = tt[1]
           /\ \A i \in 2..Len(tt) : f[i] = f[i - 1] \o tt[i]
           /\ FlattenSeq(tt) = f[Len(tt)]
    BY <1>1, <2>1, FlattenDef
  <2>3. Len(tt) = n + 1
    BY <1>1
  <2> QED
    BY <2>2, <2>3
<1>3. CASE n = 0
  <2>1. ss = <<>>
    BY <1>3, EmptySeq
  <2>2. FlattenSeq(tt) = s
    BY <1>1, <1>2, <1>3
  <2> QED
    BY <2>1, <2>2, FlattenEmpty, ConcatEmptySeq DEF tt
<1>4. CASE n > 0
  <2>1. PICK g \in [1..n -> Seq(V)] :
           /\ g[1] = ss[1]
           /\ \A i \in 2..n : g[i] = g[i - 1] \o ss[i]
           /\ FlattenSeq(ss) = g[n]
    BY <1>4, FlattenDef
  <2> DEFINE S == {i \in Nat : i \in 1..n => f[i] = g[i]}
  <2>2. 0 \in S
    OBVIOUS
  <2>3. ASSUME NEW i \in Nat, i \in S
        PROVE  i + 1 \in S
    <3> SUFFICES ASSUME i + 1 \in 1..n PROVE f[i + 1] = g[i + 1]
      OBVIOUS
    <3>1. CASE i = 0
      BY <1>1, <1>2, <1>4, <2>1, <3>1
    <3>2. CASE i # 0
      <4>1. i \in 1..n /\ i + 1 \in 2..n /\ i + 1 \in 2..n + 1 /\ (i + 1) - 1 = i
        BY <1>1, <3>2
      <4>2. f[i + 1] = f[i] \o tt[i + 1] /\ g[i + 1] = g[i] \o ss[i + 1]
        BY <1>2, <2>1, <4>1
      <4> QED
        BY <1>1, <2>3, <4>1, <4>2
    <3> QED
      BY <3>1, <3>2
  <2> HIDE DEF S
  <2>4. \A i \in Nat : i \in S
    BY <2>2, <2>3, Induction
  <2>5. f[n] = g[n]
    <3>1. n \in Nat /\ n \in 1..n
      BY <1>1, <1>4
    <3> QED
      BY <2>4, <3>1 DEF S
  <2>6. n + 1 \in 2..n + 1 /\ (n + 1) - 1 = n
    BY <1>1, <1>4
  <2>7. f[n + 1] = f[n] \o tt[n + 1]
    BY <1>2, <2>6
  <2> QED
    BY <1>1, <1>2, <2>1, <2>5, <2>7 DEF tt
<1>5. n = 0 \/ n > 0
  BY <1>1
<1> QED
  BY <1>3, <1>4, <1>5

\* One more at the beginning.
LEMMA FlattenCons ==
  ASSUME NEW V, NEW ss \in Seq(Seq(V)), NEW s \in Seq(V)
  PROVE  FlattenSeq(<<s>> \o ss) = s \o FlattenSeq(ss)
<1>0. \A a, b \in Seq(V) : Regroups(s, a, b)
  BY Associative
<1> DEFINE tt == <<s>> \o ss
           n == Len(ss)
<1>1. /\ n \in Nat /\ tt \in Seq(Seq(V)) /\ Len(tt) = n + 1
      /\ \A i \in 1..n : tt[i + 1] = ss[i]
      /\ tt[1] = s
  <2>1. <<s>> \in Seq(Seq(V)) /\ Len(<<s>>) = 1 /\ <<s>>[1] = s
    OBVIOUS
  <2> QED
    BY <2>1, ConcatProperties
<1> HIDE DEF tt
<1>2. PICK f \in [1..n + 1 -> Seq(V)] :
           /\ f[1] = tt[1]
           /\ \A i \in 2..n + 1 : f[i] = f[i - 1] \o tt[i]
           /\ FlattenSeq(tt) = f[n + 1]
  <2>1. Len(tt) > 0
    BY <1>1
  <2>2. \E f \in [1..Len(tt) -> Seq(V)] :
           /\ f[1] = tt[1]
           /\ \A i \in 2..Len(tt) : f[i] = f[i - 1] \o tt[i]
           /\ FlattenSeq(tt) = f[Len(tt)]
    BY <1>1, <2>1, FlattenDef
  <2>3. Len(tt) = n + 1
    BY <1>1
  <2> QED
    BY <2>2, <2>3
<1>3. CASE n = 0
  <2>1. ss = <<>>
    BY <1>3, EmptySeq
  <2>2. FlattenSeq(tt) = s
    BY <1>1, <1>2, <1>3
  <2> QED
    BY <2>1, <2>2, FlattenEmpty, ConcatEmptySeq DEF tt
<1>4. CASE n > 0
  <2>1. PICK g \in [1..n -> Seq(V)] :
           /\ g[1] = ss[1]
           /\ \A i \in 2..n : g[i] = g[i - 1] \o ss[i]
           /\ FlattenSeq(ss) = g[n]
    BY <1>4, FlattenDef
  <2> DEFINE S == {i \in Nat : i \in 1..n => f[i + 1] = s \o g[i]}
  <2>2. 0 \in S
    OBVIOUS
  <2>3. ASSUME NEW i \in Nat, i \in S
        PROVE  i + 1 \in S
    <3> SUFFICES ASSUME i + 1 \in 1..n PROVE f[(i + 1) + 1] = s \o g[i + 1]
      OBVIOUS
    <3>1. (i + 1) + 1 \in 2..n + 1 /\ ((i + 1) + 1) - 1 = i + 1
          /\ tt[(i + 1) + 1] = ss[i + 1]
      BY <1>1
    <3>2. f[(i + 1) + 1] = f[i + 1] \o ss[i + 1]
      BY <1>2, <3>1
    <3>3. CASE i = 0
      <4>1. f[i + 1] = s /\ g[i + 1] = ss[i + 1]
        BY <1>1, <1>2, <2>1, <3>3
      <4> QED
        BY <3>2, <4>1
    <3>4. CASE i # 0
      <4>1. i \in 1..n /\ i + 1 \in 2..n /\ (i + 1) - 1 = i
        BY <1>1, <3>4
      <4>2. f[i + 1] = s \o g[i] /\ g[i + 1] = g[i] \o ss[i + 1]
        BY <2>1, <2>3, <4>1
      <4>3. g[i] \in Seq(V) /\ ss[i + 1] \in Seq(V)
        BY <2>1, <4>1, ElementOfSeq
      <4>4. (s \o g[i]) \o ss[i + 1] = s \o (g[i] \o ss[i + 1])
        BY <1>0, <4>3, Zenon DEF Regroups
      <4> QED
        BY <3>2, <4>2, <4>4
    <3> QED
      BY <3>3, <3>4
  <2> HIDE DEF S
  <2>4. \A i \in Nat : i \in S
    BY <2>2, <2>3, Induction
  <2>5. f[n + 1] = s \o g[n]
    <3>1. n \in Nat /\ n \in 1..n
      BY <1>1, <1>4
    <3> QED
      BY <2>4, <3>1 DEF S
  <2> QED
    BY <1>2, <2>1, <2>5 DEF tt
<1>5. n = 0 \/ n > 0
  BY <1>1
<1> QED
  BY <1>3, <1>4, <1>5

-----------------------------------------------------------------------------
(* A stream and what it begins with.                                       *)

\* What a sequence is from an index on.
LEMMA FromProperties ==
  ASSUME NEW V, NEW b \in Seq(V), NEW m \in 1..Len(b) + 1
  PROVE  /\ From(b, m) \in Seq(V)
         /\ Len(From(b, m)) = Len(b) - m + 1
         /\ \A i \in 1..Len(b) - m + 1 : From(b, m)[i] = b[m + i - 1]
<1>1. Len(b) \in Nat
  OBVIOUS
<1>2. \A i \in m..Len(b) : b[i] \in V
  BY <1>1, ElementOfSeq
<1>3. m \in Int /\ Len(b) \in Int
  BY <1>1
<1>4. /\ SubSeq(b, m, Len(b)) \in Seq(V)
      /\ Len(SubSeq(b, m, Len(b))) = IF m <= Len(b) THEN Len(b) - m + 1 ELSE 0
      /\ \A i \in 1..Len(b) - m + 1 : SubSeq(b, m, Len(b))[i] = b[m + i - 1]
  BY <1>2, <1>3, SubSeqProperties
<1>5. m <= Len(b) \/ Len(b) - m + 1 = 0
  BY <1>1
<1> QED
  BY <1>1, <1>4, <1>5 DEF From

\* The first elements of a sequence.
LEMMA FirstProperties ==
  ASSUME NEW V, NEW b \in Seq(V), NEW n \in 0..Len(b)
  PROVE  /\ SubSeq(b, 1, n) \in Seq(V)
         /\ Len(SubSeq(b, 1, n)) = n
         /\ \A i \in 1..n : SubSeq(b, 1, n)[i] = b[i]
<1>1. Len(b) \in Nat /\ n \in Nat
  OBVIOUS
<1>2. \A i \in 1..n : b[i] \in V
  BY <1>1, ElementOfSeq
<1>3. 1 \in Int /\ n \in Int
  BY <1>1
<1>4. /\ SubSeq(b, 1, n) \in Seq(V)
      /\ Len(SubSeq(b, 1, n)) = IF 1 <= n THEN n - 1 + 1 ELSE 0
      /\ \A i \in 1..n - 1 + 1 : SubSeq(b, 1, n)[i] = b[1 + i - 1]
  BY <1>2, <1>3, SubSeqProperties
<1> QED
  BY <1>1, <1>4

\* The first elements and the rest make up a sequence.
LEMMA FirstAndRest ==
  ASSUME NEW V, NEW b \in Seq(V), NEW n \in 0..Len(b)
  PROVE  SubSeq(b, 1, n) \o From(b, n + 1) = b
<1> DEFINE x == SubSeq(b, 1, n)
           y == From(b, n + 1)
<1>1. Len(b) \in Nat /\ n \in Nat /\ n <= Len(b)
  OBVIOUS
<1>2. x \in Seq(V) /\ Len(x) = n /\ \A i \in 1..n : x[i] = b[i]
  BY FirstProperties
<1>3. /\ y \in Seq(V) /\ Len(y) = Len(b) - n
      /\ \A i \in 1..Len(b) - n : y[i] = b[n + i]
  <2>1. n + 1 \in 1..Len(b) + 1
    BY <1>1
  <2>2. /\ y \in Seq(V) /\ Len(y) = Len(b) - (n + 1) + 1
        /\ \A i \in 1..Len(b) - (n + 1) + 1 : y[i] = b[(n + 1) + i - 1]
    BY <2>1, FromProperties
  <2> HIDE DEF y
  <2> QED
    BY <1>1, <2>2
<1> HIDE DEF x, y
<1>4. /\ x \o y \in Seq(V) /\ Len(x \o y) = Len(b)
      /\ \A i \in 1..Len(b) : (x \o y)[i] = IF i <= n THEN x[i] ELSE y[i - n]
  BY <1>1, <1>2, <1>3, ConcatProperties
<1>5. \A i \in 1..Len(x \o y) : (x \o y)[i] = b[i]
  BY <1>1, <1>2, <1>3, <1>4
<1>6. x \o y = b
  BY <1>4, <1>5, SeqEqual
<1> QED
  BY <1>6 DEF x, y

\* Two sequences that are joined come apart again.
LEMMA ConcatParts ==
  ASSUME NEW V, NEW s \in Seq(V), NEW t \in Seq(V)
  PROVE  /\ SubSeq(s \o t, 1, Len(s)) = s
         /\ From(s \o t, Len(s) + 1) = t
<1> DEFINE b == s \o t
           n == Len(s)
           x == SubSeq(b, 1, n)
           y == From(b, n + 1)
<1>1. /\ n \in Nat /\ Len(t) \in Nat /\ b \in Seq(V) /\ Len(b) = n + Len(t)
      /\ \A i \in 1..n + Len(t) : b[i] = IF i <= n THEN s[i] ELSE t[i - n]
  BY ConcatProperties, LenProperties
<1> HIDE DEF b
<1>2. n \in 0..Len(b) /\ n + 1 \in 1..Len(b) + 1
  BY <1>1
<1>3. x \in Seq(V) /\ Len(x) = n /\ \A i \in 1..n : x[i] = b[i]
  BY <1>1, <1>2, FirstProperties
<1>4. /\ y \in Seq(V) /\ Len(y) = Len(b) - (n + 1) + 1
      /\ \A i \in 1..Len(b) - (n + 1) + 1 : y[i] = b[(n + 1) + i - 1]
  BY <1>1, <1>2, FromProperties
<1> HIDE DEF x, y
<1>5. x = s
  <2>1. Len(x) = Len(s) /\ \A i \in 1..Len(x) : x[i] = s[i]
    BY <1>1, <1>3
  <2> QED
    BY <1>3, <2>1, SeqEqual
<1>6. y = t
  <2>1. Len(y) = Len(t)
    BY <1>1, <1>4
  <2>2. ASSUME NEW i \in 1..Len(y)
        PROVE  y[i] = t[i]
    <3>0. Len(b) - (n + 1) + 1 = Len(t) /\ i \in 1..Len(t)
      BY <1>1, <1>4, <2>1
    <3>1. y[i] = b[(n + 1) + i - 1]
      BY <1>4, <3>0
    <3>2. /\ (n + 1) + i - 1 = n + i /\ n + i \in 1..n + Len(t)
          /\ ~(n + i <= n) /\ (n + i) - n = i
      BY <1>1, <3>0
    <3>3. y[i] = b[n + i]
      BY <3>1, <3>2
    <3> QED
      BY <1>1, <3>2, <3>3
  <2> QED
    BY <1>4, <2>1, <2>2, SeqEqual
<1> QED
  BY <1>5, <1>6 DEF x, y, b
=============================================================================
