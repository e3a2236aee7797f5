------------------------- MODULE PacketStreamProofs -------------------------
(***************************************************************************)
(* Proofs about the packet format and the stream that carries it, for      *)
(* every width of the digits and fields, every set of packets and any      *)
(* number of writes: a body unpacks to the packet it was made from, the    *)
(* reader stays in step with the writers up to the write that breaks, and  *)
(* the stream implements a channel of packets.                             *)
(***************************************************************************)
EXTENDS PacketStream, SequenceTheorems, WellFoundedInduction, TLAPS

(* The time a prover may spend on a leaf, in seconds. *)
USE SMTT(30), ZenonT(20)

-----------------------------------------------------------------------------
(* Induction and recursion over the numbers *)

(* Every set of numbers has a least one.  The proofs by induction below     *)
(* take the least counterexample.                                           *)
LEMMA LeastNumber == ASSUME NEW T, T \subseteq Nat, T # {} PROVE \E n \in T : \A m \in T : n <= m
<1> DEFINE R == OpToRel(<, Nat)
<1>1. IsWellFoundedOn(R, Nat)
  BY NatLessThanWellFounded, Zenon
<1>2. \A x, y \in Nat : <<x, y>> \in R <=> x < y
  BY Zenon DEF OpToRel
<1> HIDE DEF R
<1>3. PICK n \in T : \A y \in T : ~(<<y, n>> \in R)
  BY <1>1, WFMin, Zenon
<1>4. ASSUME NEW m \in T PROVE n <= m
  <2>1. n \in Nat /\ m \in Nat
    BY Zenon
  <2>2. ~(<<m, n>> \in R)
    BY <1>3, Zenon
  <2>3. ~(m < n)
    BY <1>2, <2>1, <2>2, Zenon
  <2> QED
    BY <2>1, <2>3
<1> QED
  BY <1>4, Zenon

(* There is a function defined by recursion: so the recursive definitions   *)
(* of the length field, digits, satisfy their equations.                    *)
LEMMA NatRecursion ==
  ASSUME NEW S, NEW a \in S, NEW h \in [S -> S]
  PROVE  \E f \in [Nat -> S] : f[0] = a /\ \A n \in Nat : f[n + 1] = h[f[n]]
<1> DEFINE G(n) == {f \in [0 .. n -> S] : f[0] = a /\ \A i \in 0 .. n - 1 : f[i + 1] = h[f[i]]}
<1>1. \A n \in Nat : G(n) # {}
  <2> DEFINE T == {n \in Nat : G(n) = {}}
  <2> SUFFICES ASSUME T # {} PROVE FALSE
    BY Zenon
  <2>1. PICK n \in T : \A m \in T : n <= m
    BY LeastNumber, Zenon
  <2>2. n \in Nat /\ G(n) = {}
    BY Zenon
  <2>3. n # 0
    <3>1. [i \in 0 .. 0 |-> a] \in G(0)
      OBVIOUS
    <3> QED
      BY <2>2, <3>1, Zenon
  <2>4. n - 1 \in Nat /\ n - 1 \notin T
    <3> HIDE DEF T
    <3> QED
      BY <2>1, <2>2, <2>3
  <2>5. PICK g : g \in G(n - 1)
    BY <2>4, Zenon
  <2> DEFINE f == [i \in 0 .. n |-> IF i = n THEN h[g[n - 1]] ELSE g[i]]
  <2>6. f \in G(n)
    <3>1. g \in [0 .. n - 1 -> S] /\ g[0] = a /\ \A i \in 0 .. n - 2 : g[i + 1] = h[g[i]]
      BY <2>2, <2>5
    <3>2. \A i \in 0 .. n : f[i] \in S
      BY <2>2, <2>3, <3>1
    <3>3. f[0] = a
      BY <2>2, <2>3, <3>1
    <3>4. \A i \in 0 .. n - 1 : f[i + 1] = h[f[i]]
      <4> TAKE i \in 0 .. n - 1
      <4>1. CASE i = n - 1
        BY <2>2, <2>3, <4>1
      <4>2. CASE i # n - 1
        BY <2>2, <2>3, <3>1, <4>2
      <4> QED
        BY <4>1, <4>2, Zenon
    <3>5. f \in [0 .. n -> S]
      BY <3>2, Zenon
    <3> HIDE DEF f
    <3> QED
      BY <3>3, <3>4, <3>5, Zenon
  <2> HIDE DEF f, G
  <2> QED
    BY <2>2, <2>6, Zenon
<1>2. ASSUME NEW m \in Nat, NEW n \in Nat, NEW f \in G(m), NEW g \in G(n), NEW j \in Nat, j <= m, j <= n
      PROVE  f[j] = g[j]
  <2> DEFINE T == {i \in Nat : i <= m /\ i <= n /\ f[i] # g[i]}
  <2> SUFFICES ASSUME T # {} PROVE FALSE
    BY <1>2, Zenon
  <2>1. PICK i \in T : \A k \in T : i <= k
    BY LeastNumber, Zenon
  <2>2. i \in Nat /\ i <= m /\ i <= n /\ f[i] # g[i]
    BY Zenon
  <2>3. i # 0
    BY <2>2, Zenon
  <2>4. i - 1 \in Nat /\ i - 1 \notin T
    BY <2>1, <2>2, <2>3
  <2>5. f[i - 1] = g[i - 1]
    BY <2>2, <2>4
  <2>6. f[(i - 1) + 1] = h[f[i - 1]] /\ g[(i - 1) + 1] = h[g[i - 1]]
    BY <2>2, <2>4
  <2> QED
    BY <2>2, <2>5, <2>6
<1> DEFINE A == [n \in Nat |-> CHOOSE f : f \in G(n)]
           F == [n \in Nat |-> A[n][n]]
<1>3. \A n \in Nat : A[n] \in G(n)
  BY <1>1, Zenon
<1> HIDE DEF A
<1>4. \A n \in Nat : F[n] \in S
  BY <1>3
<1>5. F[0] = a
  BY <1>3, Zenon
<1>6. \A n \in Nat : F[n + 1] = h[F[n]]
  <2> TAKE n \in Nat
  <2>1. A[n + 1] \in G(n + 1) /\ A[n] \in G(n)
    <3>1. n + 1 \in Nat
      OBVIOUS
    <3> HIDE DEF G
    <3> QED
      BY <1>3, <3>1, Zenon
  <2>2. A[n + 1][n + 1] = h[A[n + 1][n]]
    BY <2>1
  <2>3. A[n + 1][n] = A[n][n]
    <3> HIDE DEF G, F
    <3>1. n + 1 \in Nat /\ n <= n + 1 /\ n <= n
      OBVIOUS
    <3> QED
      BY <2>1, <3>1, <1>2
  <2> QED
    BY <2>2, <2>3
<1>7. F \in [Nat -> S]
  BY <1>4, Zenon
<1> HIDE DEF F
<1> QED
  BY <1>5, <1>6, <1>7, Zenon

(* Division with remainder. *)
LEMMA DivMod ==
  ASSUME NEW n \in Nat, NEW d \in Nat \ {0}
  PROVE  /\ n \div d \in Nat /\ n % d \in 0 .. d - 1
         /\ n % d = n - d * (n \div d)
<1>1. n \div d \in Nat
  BY SMT
<1>2. n % d \in 0 .. d - 1
  BY SMT
<1>3. n % d = n - d * (n \div d)
  BY SMT
<1> QED
  BY <1>1, <1>2, <1>3, Zenon

(* Taking a digit off a number that has more than one leaves a smaller one. *)
LEMMA DivSmaller ==
  ASSUME NEW n \in Nat, NEW d \in Nat, d >= 2, n >= d
  PROVE  n \div d \in Nat \ {0} /\ n \div d < n
<1> DEFINE q == n \div d
           r == n % d
<1>1. q \in Nat /\ r \in 0 .. d - 1 /\ r = n - d * q
  BY DivMod
<1> HIDE DEF q, r
<1>2. q # 0
  BY <1>1
<1>3. d * q >= 2 * q
  BY <1>1
<1> QED
  BY <1>1, <1>2, <1>3 DEF q

(* Quotient and remainder are what the number was made from.                *)
LEMMA DivUnique ==
  ASSUME NEW d \in Nat \ {0}, NEW q \in Nat, NEW r \in 0 .. d - 1
  PROVE  (q * d + r) \div d = q /\ (q * d + r) % d = r
<1> DEFINE n == q * d + r
           x == n \div d
           y == n % d
<1>1. n \in Nat
  OBVIOUS
<1>2. x \in Nat /\ y \in 0 .. d - 1 /\ y = n - d * x
  <2> HIDE DEF n
  <2> QED
    BY <1>1, DivMod, Zenon
<1> HIDE DEF x, y
<1>3. q * d + r = x * d + y
  BY <1>2
<1>4. ~(x < q)
  <2> SUFFICES ASSUME x < q PROVE FALSE
    BY Zenon
  <2>1. q * d >= (x + 1) * d
    BY <1>2
  <2> QED
    BY <1>2, <1>3, <2>1
<1>5. ~(q < x)
  <2> SUFFICES ASSUME q < x PROVE FALSE
    BY Zenon
  <2>1. x * d >= (q + 1) * d
    BY <1>2
  <2> QED
    BY <1>2, <1>3, <2>1
<1>6. x = q /\ y = r
  BY <1>2, <1>3, <1>4, <1>5
<1> QED
  BY <1>6, Zenon DEF x, y

(* The weight of a digit of the length is Digit times that of the one       *)
(* before.                                                                  *)
LEMMA Powers ==
  /\ Power \in [Nat -> Nat \ {0}]
  /\ Power[0] = 1
  /\ \A n \in Nat : Power[n + 1] = Digit * Power[n]
<1> DEFINE h == [x \in Nat \ {0} |-> Digit * x]
<1>1. h \in [Nat \ {0} -> Nat \ {0}]
  <2>1. \A x \in Nat \ {0} : Digit * x \in Nat \ {0}
    BY FormatAssumption
  <2> QED
    BY <2>1, Zenon
<1>2. PICK f \in [Nat -> Nat \ {0}] : f[0] = 1 /\ \A n \in Nat : f[n + 1] = h[f[n]]
  <2> DEFINE S == Nat \ {0}
             one == 1
  <2>1. one \in S /\ h \in [S -> S]
    BY <1>1
  <2> HIDE DEF h, S, one
  <2>2. \E f \in [Nat -> S] : f[0] = one /\ \A n \in Nat : f[n + 1] = h[f[n]]
    BY <2>1, NatRecursion
  <2> QED
    BY <2>2, Zenon DEF S, one
<1>3. f = [n \in Nat |-> IF n = 0 THEN 1 ELSE Digit * f[n - 1]]
  <2>1. \A n \in Nat : f[n] = IF n = 0 THEN 1 ELSE Digit * f[n - 1]
    <3> TAKE n \in Nat
    <3>1. CASE n # 0
      <4>1. n - 1 \in Nat /\ (n - 1) + 1 = n
        BY <3>1
      <4>2. f[(n - 1) + 1] = Digit * f[n - 1]
        BY <1>2, <4>1, Zenon
      <4> QED
        BY <4>1, <4>2, <3>1, Zenon
    <3>2. CASE n = 0
       BY <3>2, <1>2, Zenon
    <3> QED
      BY <3>1, <3>2, Zenon
  <2> QED
    BY <2>1, Zenon
<1>4. Power = [n \in Nat |-> IF n = 0 THEN 1 ELSE Digit * Power[n - 1]]
  BY <1>3, Zenon DEF Power
<1>5. f[0] = 1 /\ Power[0] = 1
  BY <1>2, <1>4, Zenon
<1>6. \A n \in Nat : Power[n + 1] = Digit * Power[n]
  <2> TAKE n \in Nat
  <2>1. n + 1 \in Nat /\ n + 1 # 0 /\ (n + 1) - 1 = n
    OBVIOUS
  <2> QED
    BY <1>4, <2>1, Zenon
<1>7. Power \in [Nat -> Nat \ {0}]
  <2> DEFINE T == {n \in Nat : Power[n] \notin Nat \ {0}}
  <2>1. T = {}
    <3> SUFFICES ASSUME T # {} PROVE FALSE
      BY Zenon
    <3>1. PICK n \in T : \A m \in T : n <= m
      BY LeastNumber, Zenon
    <3>2. n # 0
      BY <1>5, Zenon
    <3>3. n - 1 \in Nat /\ n - 1 \notin T /\ (n - 1) + 1 = n
      <4>1. n \in Nat
        BY Zenon
      <4> HIDE DEF T
      <4> QED
        BY <3>1, <3>2, <4>1
    <3>4. Power[n - 1] \in Nat \ {0}
      BY <3>3, Zenon
    <3>5. Power[n] = Digit * Power[n - 1]
      BY <1>6, <3>3, Zenon
    <3>6. Power[n] \in Nat \ {0}
      BY <3>4, <3>5, FormatAssumption
    <3> QED
      BY <3>6, Zenon
  <2>2. \A n \in Nat : Power[n] \in Nat \ {0}
    BY <2>1, Zenon
  <2> QED
    BY <1>4, <2>2, Zenon
<1> QED
  BY <1>5, <1>6, <1>7, Zenon

(* The encoding of a length is well defined: one digit for a length below   *)
(* Digit, otherwise the last digit and the encoding of the rest.            *)
LEMMA LengthDigits ==
  /\ \A n \in Nat : digits[n] \in Seq(Nat)
  /\ \A n \in Nat : n < Digit => digits[n] = <<n>>
  /\ \A n \in Nat : n >= Digit => digits[n] = <<Digit + (n % Digit)>> \o digits[n \div Digit]
<1> DEFINE S == [Nat -> Seq(Nat)]
           D(g, n) == IF n < Digit THEN <<n>> ELSE <<Digit + (n % Digit)>> \o g[n \div Digit]
           h == [g \in S |-> [n \in Nat |-> D(g, n)]]
           a == [n \in Nat |-> <<>>]
<1>0. Digit \in Nat /\ Digit >= 2
  BY FormatAssumption
<1>1. \A n \in Nat : n >= Digit => n \div Digit \in Nat /\ n \div Digit < n /\ n % Digit \in Nat
  <2> TAKE n \in Nat
  <2> SUFFICES ASSUME n >= Digit PROVE n \div Digit \in Nat /\ n \div Digit < n /\ n % Digit \in Nat
    BY Zenon
  <2>1. n % Digit \in 0 .. Digit - 1
    BY <1>0, DivMod
  <2> QED
    BY <1>0, <2>1, DivSmaller
<1>2. ASSUME NEW g \in S, NEW n \in Nat PROVE D(g, n) \in Seq(Nat)
  <2>1. CASE n < Digit
    BY <2>1
  <2>2. CASE ~(n < Digit)
    <3>1. n \div Digit \in Nat /\ Digit + (n % Digit) \in Nat
      BY <1>0, <1>1, <2>2
    <3>2. g[n \div Digit] \in Seq(Nat)
      BY <3>1, Zenon
    <3> QED
      BY <2>2, <3>1, <3>2
  <2> QED
    BY <2>1, <2>2, Zenon
<1>3. a \in S /\ h \in [S -> S]
  <2>1. a \in S
    OBVIOUS
  <2>2. ASSUME NEW g \in S PROVE [n \in Nat |-> D(g, n)] \in S
    <3> HIDE DEF D
    <3> QED
      BY <1>2, Zenon
  <2> HIDE DEF S, D
  <2> QED
    BY <2>1, <2>2, Zenon
<1>4. PICK f \in [Nat -> S] : f[0] = a /\ \A k \in Nat : f[k + 1] = h[f[k]]
  <2> HIDE DEF S, a, h
  <2> QED
    BY <1>3, NatRecursion
<1>5. ASSUME NEW k \in Nat \ {0}, NEW n \in Nat
      PROVE  f[k][n] = D(f[k - 1], n)
  <2>1. k - 1 \in Nat /\ (k - 1) + 1 = k
    OBVIOUS
  <2>2. f[k] = h[f[k - 1]]
    <3> HIDE DEF h
    <3> QED
      BY <1>4, <2>1, Zenon
  <2>3. f[k - 1] \in S
    BY <1>4, <2>1, Zenon
  <2> HIDE DEF D, S
  <2> QED
    BY <2>2, <2>3, Zenon
<1>6. ASSUME NEW n \in Nat, NEW k \in Nat, k > n
      PROVE  f[k][n] = f[n + 1][n]
  <2> DEFINE T == {i \in Nat : \E j \in Nat : j > i /\ f[j][i] # f[i + 1][i]}
  <2> SUFFICES ASSUME T # {} PROVE FALSE
    BY <1>6, Zenon
  <2>1. PICK i \in T : \A l \in T : i <= l
    BY LeastNumber, Zenon
  <2>2. PICK j \in Nat : i \in Nat /\ j > i /\ f[j][i] # f[i + 1][i]
    BY Zenon
  <2>3. f[j][i] = D(f[j - 1], i) /\ f[i + 1][i] = D(f[i], i)
    <3> HIDE DEF D, T, S, h, a
    <3>1. j \in Nat \ {0} /\ i + 1 \in Nat \ {0} /\ (i + 1) - 1 = i
      BY <2>2
    <3> QED
      BY <1>5, <2>2, <3>1, Zenon
  <2>4. i >= Digit
    <3> SUFFICES ASSUME i < Digit PROVE FALSE
      BY <1>0, <2>2
    <3>1. D(f[j - 1], i) = D(f[i], i)
      BY Zenon
    <3> QED
      BY <2>2, <2>3, <3>1, Zenon
  <2> DEFINE q == i \div Digit
  <2>5. q \in Nat /\ q < i
    BY <1>1, <2>2, <2>4, Zenon
  <2>6. q \notin T
    <3> HIDE DEF q, T
    <3> QED
      BY <2>1, <2>2, <2>5
  <2>7. f[j - 1][q] = f[q + 1][q] /\ f[i][q] = f[q + 1][q]
    <3>1. j - 1 \in Nat /\ j - 1 > q /\ i > q
      BY <2>2, <2>5
    <3> HIDE DEF q
    <3> QED
      BY <2>2, <2>5, <2>6, <3>1, Zenon
  <2>8. D(f[j - 1], i) = D(f[i], i)
    BY <2>7, Zenon
  <2> QED
    BY <2>2, <2>3, <2>8, Zenon
<1> DEFINE d == [n \in Nat |-> f[n + 1][n]]
<1>7. ASSUME NEW n \in Nat PROVE d[n] = D(d, n)
  <2>1. f[n + 1][n] = D(f[n], n)
    <3>1. n + 1 \in Nat \ {0} /\ (n + 1) - 1 = n
      OBVIOUS
    <3> HIDE DEF D
    <3> QED
      BY <1>5, <3>1, Zenon
  <2>2. CASE n < Digit
    BY <2>1, <2>2, Zenon
  <2>3. CASE n >= Digit
    <3>1. n \div Digit \in Nat /\ n > n \div Digit
      BY <1>1, <2>3, Zenon
    <3>2. f[n][n \div Digit] = d[n \div Digit]
      BY <1>6, <3>1, Zenon
    <3>3. D(f[n], n) = D(d, n)
      BY <3>2, Zenon
    <3> QED
      BY <2>1, <3>3, Zenon
  <2> QED
    BY <1>0, <2>2, <2>3
<1>8. d = [n \in Nat |-> D(d, n)]
  <2> HIDE DEF D
  <2> QED
    BY <1>7, Zenon
<1>9. digits = [n \in Nat |-> D(digits, n)]
  <2> HIDE DEF d
  <2> QED
    BY <1>8, Zenon DEF digits
<1>10. \A n \in Nat : digits[n] = D(digits, n)
  <2> HIDE DEF D
  <2> QED
    BY <1>9, Zenon
<1>11. ASSUME NEW n \in Nat
       PROVE  /\ n < Digit => digits[n] = <<n>>
              /\ n >= Digit => digits[n] = <<Digit + (n % Digit)>> \o digits[n \div Digit]
  <2>1. n >= Digit => ~(n < Digit)
    BY <1>0
  <2> QED
    BY <1>10, <2>1, Zenon
<1>12. \A n \in Nat : digits[n] \in Seq(Nat)
  <2> DEFINE T == {n \in Nat : digits[n] \notin Seq(Nat)}
  <2> SUFFICES ASSUME T # {} PROVE FALSE
    BY Zenon
  <2>1. PICK n \in T : \A m \in T : n <= m
    BY LeastNumber, Zenon
  <2>2. n \in Nat /\ digits[n] \notin Seq(Nat)
    BY Zenon
  <2>3. n >= Digit
    <3> SUFFICES ASSUME n < Digit PROVE FALSE
      BY <1>0, <2>2
    <3>1. digits[n] = <<n>>
      BY <1>11, <2>2, Zenon
    <3> QED
      BY <2>2, <3>1
  <2>4. digits[n] = <<Digit + (n % Digit)>> \o digits[n \div Digit]
    BY <1>11, <2>2, <2>3, Zenon
  <2>5. n \div Digit \in Nat /\ n \div Digit < n /\ n % Digit \in Nat
    BY <1>1, <2>2, <2>3, Zenon
  <2>6. n \div Digit \notin T
    <3> HIDE DEF T
    <3> QED
      BY <2>1, <2>2, <2>5
  <2>7. digits[n \div Digit] \in Seq(Nat)
    BY <2>5, <2>6, Zenon
  <2>8. <<Digit + (n % Digit)>> \in Seq(Nat)
    BY <1>0, <2>5
  <2> QED
    BY <2>2, <2>4, <2>7, <2>8, ConcatProperties
<1> QED
  BY <1>11, <1>12, Zenon

-----------------------------------------------------------------------------
(* Sequences *)

(* Concatenation of bytes is associative.                                   *)
LEMMA Regroup ==
  ASSUME NEW a \in Seq(Nat), NEW b \in Seq(Nat), NEW c \in Seq(Nat)
  PROVE  (a \o b) \o c = a \o (b \o c)
OBVIOUS

(* Two ways to cut the same bytes at the same place are the same.           *)
LEMMA SameCut ==
  ASSUME NEW S, NEW a \in Seq(S), NEW b \in Seq(S), NEW c \in Seq(S), NEW d \in Seq(S),
         a \o b = c \o d, Len(a) = Len(c)
  PROVE  a = c /\ b = d
<1>1. \A i \in 1 .. Len(a) : a[i] = c[i]
  <2> TAKE i \in 1 .. Len(a)
  <2>1. (a \o b)[i] = a[i] /\ (c \o d)[i] = c[i]
    BY ConcatProperties
  <2> QED
    BY <2>1, Zenon
<1>2. a = c
  BY <1>1, SeqEqual, Zenon
<1> QED
  BY <1>2, ConcatSimplifications, Zenon

(* Dropping the first of two parts leaves the second.                       *)
LEMMA DropFirst ==
  ASSUME NEW S, NEW a \in Seq(S), NEW b \in Seq(S)
  PROVE  Drop(a \o b, Len(a)) = b
<1> DEFINE s == a \o b
<1>1. s \in Seq(S) /\ Len(s) = Len(a) + Len(b) /\ Len(a) \in Nat /\ Len(b) \in Nat
  BY ConcatProperties
<1>2. \A i \in Len(a) + 1 .. Len(s) : s[i] \in S
  BY <1>1
<1>3. \A i \in 1 .. Len(b) : s[Len(a) + 1 + i - 1] = b[i]
  BY ConcatProperties
<1> HIDE DEF s
<1>4. /\ SubSeq(s, Len(a) + 1, Len(s)) \in Seq(S)
      /\ Len(SubSeq(s, Len(a) + 1, Len(s))) = Len(b)
      /\ \A i \in 1 .. Len(b) : SubSeq(s, Len(a) + 1, Len(s))[i] = s[Len(a) + 1 + i - 1]
  BY <1>1, <1>2, SubSeqProperties
<1>5. SubSeq(s, Len(a) + 1, Len(s)) = b
  BY <1>3, <1>4, SeqEqual, Zenon
<1> QED
  BY <1>5, Zenon DEF Drop, s

(* Appending to a sequence changes none of its elements.                    *)
LEMMA Appended ==
  ASSUME NEW S, NEW s \in Seq(S), NEW x \in S
  PROVE  /\ Append(s, x) \in Seq(S)
         /\ Len(Append(s, x)) = Len(s) + 1 /\ Append(s, x)[Len(s) + 1] = x
         /\ \A i \in 1 .. Len(s) : Append(s, x)[i] = s[i]
  BY AppendProperties

(* A sequence is what is taken from it and what is left.                    *)
LEMMA TakeAndDrop ==
  ASSUME NEW S, NEW s \in Seq(S), NEW n \in 0 .. Len(s)
  PROVE  /\ Take(s, n) \in Seq(S) /\ Len(Take(s, n)) = n
         /\ Drop(s, n) \in Seq(S) /\ Len(Drop(s, n)) = Len(s) - n
         /\ Take(s, n) \o Drop(s, n) = s
<1>1. Len(s) \in Nat /\ n \in Nat /\ n <= Len(s)
  OBVIOUS
<1>2. SubSeq(s, 1, n) \in Seq(S) /\ Len(SubSeq(s, 1, n)) = n
  BY <1>1, SubSeqProperties
<1>3. SubSeq(s, n + 1, Len(s)) \in Seq(S) /\ Len(SubSeq(s, n + 1, Len(s))) = Len(s) - n
  BY <1>1, SubSeqProperties
<1>4. SubSeq(s, 1, n) \o SubSeq(s, n + 1, Len(s)) = SubSeq(s, 1, Len(s))
  <2> DEFINE one == 1
  <2>1. one \in 1 .. Len(s) + 1 /\ n \in one - 1 .. Len(s) /\ Len(s) \in n .. Len(s)
    BY <1>1
  <2> HIDE DEF one
  <2>2. SubSeq(s, one, n) \o SubSeq(s, n + 1, Len(s)) = SubSeq(s, one, Len(s))
    BY <2>1, ConcatAdjacentSubSeq, Zenon
  <2> QED
    BY <2>2, Zenon DEF one
<1>5. SubSeq(s, 1, Len(s)) = s
  BY SubSeqFull, Zenon
<1> QED
  BY <1>2, <1>3, <1>4, <1>5, Zenon DEF Take, Drop

-----------------------------------------------------------------------------
(* The encoding of a packet *)

(* decodeUint16 gives back what encodeUint16 kept of a number, whatever     *)
(* follows it.                                                              *)
LEMMA Uint16 ==
  ASSUME NEW n \in Nat
  PROVE  /\ encodeUint16(n) \in Seq(Nat) /\ Len(encodeUint16(n)) = 2
         /\ n % Word \in Nat /\ n % Word <= n
         /\ \A s \in Seq(Nat) : decodeUint16(encodeUint16(n) \o s) = n % Word
<1> DEFINE m == n % Word
           b == 2 * Digit
           q == m \div b
           r == m % b
<1>1. Word \in Nat \ {0} /\ b \in Nat \ {0}
  BY FormatAssumption, SMTT(30) DEF Word
<1>2. m \in 0 .. Word - 1 /\ m = n - Word * (n \div Word) /\ n \div Word \in Nat
  <2> HIDE DEF b
  <2> QED
    BY <1>1, DivMod, Zenon
<1>3. m \in Nat /\ m <= n
  <2> DEFINE w == Word
             x == n \div Word
  <2>1. w \in Nat /\ x \in Nat /\ m = n - w * x /\ m \in Nat
    BY <1>1, <1>2
  <2> HIDE DEF w, x, m
  <2> QED
    BY <2>1
<1> HIDE DEF m, b
<1>4. q \in Nat /\ r \in Nat /\ r = m - b * q
  <2>1. r \in 0 .. b - 1 /\ q \in Nat /\ r = m - b * q
    BY <1>1, <1>3, DivMod, Zenon
  <2> QED
    BY <1>1, <2>1
<1>5. encodeUint16(n) = <<q, r>>
  BY Zenon DEF encodeUint16, m, b
<1> HIDE DEF q, r
<1>6. ASSUME NEW s \in Seq(Nat) PROVE decodeUint16(<<q, r>> \o s) = m
  <2>1. (<<q, r>> \o s)[1] = q /\ (<<q, r>> \o s)[2] = r
    BY <1>4
  <2>2. q * 2 * Digit + r = m
    <3>1. Digit \in Nat
      BY FormatAssumption, Zenon
    <3>2. q * 2 * Digit = (2 * Digit) * q
      BY <1>4, <3>1
    <3> QED
      BY <1>3, <1>4, <1>1, <3>1, <3>2 DEF b
  <2> QED
    BY <2>1, <2>2, Zenon DEF decodeUint16
<1> QED
  BY <1>3, <1>4, <1>5, <1>6 DEF m

(* What a packet is made of.                                                *)
LEMMA PacketFields ==
  ASSUME NEW p \in Packets
  PROVE  /\ p.type \in Types /\ p.kp \in Nat /\ p.code \in Nat /\ p.data \in Seq(Nat)
         /\ p = Packet(p.type, p.kp, p.code, p.data)
         /\ p.type \notin {Connect, Connack} => p.kp = 0
         /\ p.type \notin {Connack, Disconnect} => p.code = 0
         /\ p.type \notin {Connect, Push} => p.data = <<>>
         /\ p.type \in Nat
<1>1. /\ p \in [type : Types, kp : Nat, code : Byte, data : Seq(Byte)]
      /\ p.type \notin {Connect, Connack} => p.kp = 0
      /\ p.type \notin {Connack, Disconnect} => p.code = 0
      /\ p.type \notin {Connect, Push} => p.data = <<>>
  BY PacketsAssumption, Zenon
<1>2. Byte \subseteq Nat
  BY FormatAssumption DEF Byte
<1>3. /\ p.type \in Types /\ p.kp \in Nat /\ p.code \in Byte /\ p.data \in Seq(Byte)
      /\ p = [type |-> p.type, kp |-> p.kp, code |-> p.code, data |-> p.data]
  <2> HIDE DEF Byte, Types
  <2> QED
    BY <1>1, Zenon
<1>4. p.data \in Seq(Nat)
  BY <1>2, <1>3, SeqMonotonic, Zenon
<1>5. p.type \in Nat
  BY <1>3, FormatAssumption DEF Types, Connect, Connack, Push, Pingreq, Pingresp
<1>6. p.code \in Nat
  BY <1>2, <1>3, Zenon
<1> QED
  BY <1>1, <1>3, <1>4, <1>5, <1>6, Zenon DEF Packet

(* The types of packets differ.                                             *)
LEMMA TypesDiffer ==
  /\ Connect # Connack /\ Connect # Push /\ Connack # Push
  /\ Disconnect \notin {Connect, Connack, Push, Pingreq, Pingresp}
  /\ Pingreq \notin {Connect, Connack, Push} /\ Pingresp \notin {Connect, Connack, Push}
  BY FormatAssumption DEF Connect, Connack, Push, Pingreq, Pingresp

(* ReadPacket accepts the body of every packet and makes of it the packet   *)
(* that was written.                                                        *)
THEOREM BodyUnpacks ==
  ASSUME NEW p \in Packets
  PROVE  /\ Body(p) \in Seq(Nat)
         /\ Unpackable(p.type, Body(p))
         /\ Unpack(p.type, Body(p)) = AsRead(p)
<1> USE DEF Packet
<1>1. /\ p.type \in Types /\ p.kp \in Nat /\ p.code \in Nat /\ p.data \in Seq(Nat)
      /\ p.type \notin {Connect, Connack} => p.kp = 0
      /\ p.type \notin {Connack, Disconnect} => p.code = 0
      /\ p.type \notin {Connect, Push} => p.data = <<>>
  BY PacketFields, Zenon
<1>2. CASE p.type = Connect
  <2> DEFINE kp == encodeUint16(p.kp)
             len == encodeUint16(Len(p.data))
             front == Preamble \o kp
             b == ConnectBody(p)
  <2>0. /\ Len(p.data) \in Nat
        /\ kp \in Seq(Nat) /\ Len(kp) = 2
        /\ len \in Seq(Nat) /\ Len(len) = 2
    BY <1>1, Uint16, LenProperties, Zenon
  <2>1. /\ \A s \in Seq(Nat) : decodeUint16(kp \o s) = p.kp % Word
        /\ \A s \in Seq(Nat) : decodeUint16(len \o s) = Len(p.data) % Word
        /\ Len(p.data) % Word \in Nat /\ Len(p.data) % Word <= Len(p.data)
    BY <1>1, Uint16, LenProperties, Zenon
  <2>2. Preamble \in Seq(Nat) /\ Len(Preamble) = 6
    BY DEF Preamble
  <2>3. b = front \o (len \o p.data)
    BY Zenon DEF ConnectBody, encodeBytes
  <2> HIDE DEF kp, len, b
  <2>4. /\ front \in Seq(Nat) /\ Len(front) = 8
        /\ len \o p.data \in Seq(Nat) /\ Len(len \o p.data) = 2 + Len(p.data)
    <3>1. front \in Seq(Nat) /\ Len(front) = Len(Preamble) + Len(kp)
      BY <2>0, <2>2, ConcatProperties, Zenon
    <3>2. len \o p.data \in Seq(Nat) /\ Len(len \o p.data) = Len(len) + Len(p.data)
      BY <1>1, <2>0, ConcatProperties, Zenon
    <3> QED
      BY <2>0, <2>2, <3>1, <3>2
  <2>5. b \in Seq(Nat) /\ Len(b) = 10 + Len(p.data)
    <3>1. b \in Seq(Nat) /\ Len(b) = Len(front) + Len(len \o p.data)
      BY <2>3, <2>4, ConcatProperties, Zenon
    <3> QED
      BY <2>0, <2>4, <3>1
  <2>6. Drop(b, 8) = len \o p.data
    BY <2>3, <2>4, DropFirst, Zenon
  <2>7. Drop(b, 6) = kp \o (len \o p.data)
    <3>1. b = Preamble \o (kp \o (len \o p.data))
      <4>1. Preamble \in Seq(Nat) /\ kp \in Seq(Nat) /\ len \o p.data \in Seq(Nat)
        BY <2>0, <2>2, <2>4, Zenon
      <4>2. front \o (len \o p.data) = Preamble \o (kp \o (len \o p.data))
        BY <4>1, Regroup, Zenon
      <4> QED
        BY <2>3, <4>2, Zenon
    <3>2. kp \o (len \o p.data) \in Seq(Nat)
      BY <2>0, <2>4, ConcatProperties, Zenon
    <3> QED
      BY <2>2, <3>1, <3>2, DropFirst, Zenon
  <2>8. decodeUint16(Drop(b, 6)) = p.kp % Word /\ decodeUint16(Drop(b, 8)) = Len(p.data) % Word
    BY <1>1, <2>0, <2>1, <2>4, <2>6, <2>7, Zenon
  <2>9. decodeBytes(Drop(b, 8)) = Take(p.data, Len(p.data) % Word)
    <3>1. Drop(len \o p.data, 2) = p.data
      BY <1>1, <2>0, DropFirst, Zenon
    <3> QED
      BY <2>6, <2>8, <3>1, Zenon DEF decodeBytes
  <2>10. Body(p) = b /\ p.code = 0
    BY <1>1, <1>2, TypesDiffer, Zenon DEF Body, b
  <2>11. Unpackable(p.type, b)
    BY <1>2, <2>0, <2>1, <2>5, <2>8, TypesDiffer DEF Unpackable
  <2>12. Unpack(p.type, b) = AsRead(p)
    <3>1. Unpack(p.type, b) = ConnectUnpack(b)
      BY <1>2, TypesDiffer, Zenon DEF Unpack
    <3>2. AsRead(p) = Packet(Connect, p.kp % Word, 0, Take(p.data, Len(p.data) % Word))
      BY <1>2, <2>10, Zenon DEF AsRead
    <3> QED
      BY <2>8, <2>9, <3>1, <3>2, Zenon DEF ConnectUnpack
  <2> QED
    BY <2>5, <2>10, <2>11, <2>12, Zenon
<1>3. CASE p.type = Connack
  <2> DEFINE kp == encodeUint16(p.kp)
             b == <<p.code>> \o kp
  <2>1. kp \in Seq(Nat) /\ Len(kp) = 2 /\ \A s \in Seq(Nat) : decodeUint16(kp \o s) = p.kp % Word
    BY <1>1, Uint16, Zenon
  <2>2. <<p.code>> \in Seq(Nat) /\ Len(<<p.code>>) = 1 /\ <<p.code>>[1] = p.code
    BY <1>1
  <2>3. Body(p) = b
    BY <1>3, TypesDiffer, Zenon DEF Body, ConnackBody
  <2> HIDE DEF kp
  <2>4. b \in Seq(Nat) /\ Len(b) = 3 /\ b[1] = p.code
    <3>1. b \in Seq(Nat) /\ Len(b) = Len(<<p.code>>) + Len(kp)
      BY <2>1, <2>2, ConcatProperties, Zenon
    <3>2. b[1] = p.code
      BY <1>1, <2>1
    <3>3. Len(kp) = 2
      BY <2>1, Zenon
    <3> QED
      BY <2>2, <3>1, <3>2, <3>3
  <2>5. Drop(b, 1) = kp
    BY <2>1, <2>2, DropFirst, Zenon
  <2>6. decodeUint16(kp) = p.kp % Word
    <3>1. kp \o <<>> = kp /\ <<>> \in Seq(Nat)
      BY <2>1, ConcatEmptySeq, EmptySeq, Zenon
    <3> QED
      BY <2>1, <3>1, Zenon
  <2>7. p.data = <<>>
    BY <1>1, <1>3, TypesDiffer, Zenon
  <2> HIDE DEF b
  <2>8. Unpackable(p.type, b)
    BY <1>3, <2>4, TypesDiffer DEF Unpackable
  <2>9. Unpack(p.type, b) = ConnackUnpack(b)
    BY <1>3, TypesDiffer, Zenon DEF Unpack
  <2>10. AsRead(p) = Packet(Connack, p.kp % Word, p.code, <<>>)
    BY <1>3, <2>7, TypesDiffer, Zenon DEF AsRead
  <2> QED
    BY <2>3, <2>4, <2>5, <2>6, <2>8, <2>9, <2>10, Zenon DEF ConnackUnpack
<1>4. CASE p.type \notin {Connect, Connack}
  <2>1. p.kp % Word = 0
    <3>1. 0 % Word \in Nat /\ 0 % Word <= 0
      BY Uint16, Zenon
    <3> QED
      BY <1>1, <1>4, <3>1
  <2>2. AsRead(p) = Packet(p.type, 0, p.code, p.data)
    BY <1>4, <2>1, Zenon DEF AsRead
  <2>3. CASE p.type = Push
    <3>1. <<0>> \in Seq(Nat) /\ Len(<<0>>) = 1
      OBVIOUS
    <3>2. Body(p) = <<0>> \o p.data
      BY <2>3, TypesDiffer, Zenon DEF Body, PushBody
    <3>3. Body(p) \in Seq(Nat) /\ Len(Body(p)) = 1 + Len(p.data) /\ Len(p.data) \in Nat
      BY <1>1, <3>1, <3>2, ConcatProperties, LenProperties
    <3>4. Drop(Body(p), 1) = p.data
      BY <1>1, <3>1, <3>2, DropFirst, Zenon
    <3>5. p.code = 0
      BY <1>1, <2>3, TypesDiffer, Zenon
    <3>6. Unpackable(p.type, Body(p))
      BY <2>3, <3>3, TypesDiffer DEF Unpackable
    <3>7. Unpack(p.type, Body(p)) = PushUnpack(Body(p))
      BY <2>3, TypesDiffer, Zenon DEF Unpack
    <3> QED
      BY <2>2, <2>3, <3>3, <3>4, <3>5, <3>6, <3>7, Zenon DEF PushUnpack
  <2>4. CASE p.type = Disconnect
    <3>1. Body(p) = <<p.code>> /\ p.data = <<>>
      BY <1>1, <2>4, TypesDiffer, Zenon DEF Body, DisconnectBody
    <3>2. Body(p) \in Seq(Nat) /\ Len(Body(p)) = 1 /\ Body(p)[1] = p.code
      BY <1>1, <3>1
    <3>3. Unpackable(p.type, Body(p))
      BY <2>4, <3>2, TypesDiffer DEF Unpackable
    <3>4. Unpack(p.type, Body(p)) = DisconnectUnpack(Body(p))
      BY <2>4, TypesDiffer, Zenon DEF Unpack
    <3> QED
      BY <2>2, <2>4, <3>1, <3>2, <3>3, <3>4, Zenon DEF DisconnectUnpack
  <2>5. CASE p.type \notin {Push, Disconnect}
    <3>1. Body(p) = <<>> /\ p.data = <<>> /\ p.code = 0
      BY <1>1, <1>4, <2>5, Zenon DEF Body
    <3>2. Body(p) \in Seq(Nat)
      BY <3>1
    <3>3. Unpackable(p.type, Body(p))
      BY <1>4, <2>5, Zenon DEF Unpackable
    <3>4. Unpack(p.type, Body(p)) = Packet(p.type, 0, 0, <<>>)
      BY <1>4, <2>5, Zenon DEF Unpack
    <3> QED
      BY <2>2, <3>1, <3>2, <3>3, <3>4, Zenon
  <2> QED
    BY <2>3, <2>4, <2>5, Zenon
<1> QED
  BY <1>2, <1>3, <1>4, Zenon

(* The three fields of an encoded packet.                                   *)
LEMMA EncodedFields ==
  ASSUME NEW p \in Packets
  PROVE  /\ Len(Body(p)) \in Nat
         /\ <<p.type * Nibble>> \in Seq(Nat) /\ Len(<<p.type * Nibble>>) = 1
         /\ encodeLength(Len(Body(p))) \o Body(p) \in Seq(Nat)
         /\ Encoded(p) = <<p.type * Nibble>> \o (encodeLength(Len(Body(p))) \o Body(p))
         /\ Encoded(p) \in Seq(Nat) /\ Len(Encoded(p)) \in Nat \ {0}
<1> DEFINE l == encodeLength(Len(Body(p)))
           h == <<p.type * Nibble>>
<1>1. Body(p) \in Seq(Nat) /\ Len(Body(p)) \in Nat
  BY BodyUnpacks, LenProperties, Zenon
<1>2. l \in Seq(Nat)
  BY <1>1, LengthDigits, Zenon DEF encodeLength
<1>3. h \in Seq(Nat) /\ Len(h) = 1
  BY PacketFields, FormatAssumption
<1>4. Encoded(p) = (h \o l) \o Body(p)
  BY Zenon DEF Encoded
<1> HIDE DEF l, h
<1>5. l \o Body(p) \in Seq(Nat) /\ Len(l \o Body(p)) \in Nat
  BY <1>1, <1>2, ConcatProperties, LenProperties, Zenon
<1>6. Encoded(p) = h \o (l \o Body(p))
  BY <1>1, <1>2, <1>3, <1>4, Regroup, Zenon
<1>7. h \o (l \o Body(p)) \in Seq(Nat) /\ Len(h \o (l \o Body(p))) = Len(h) + Len(l \o Body(p))
  BY <1>3, <1>5, ConcatProperties, Zenon
<1>8. Len(Encoded(p)) \in Nat \ {0}
  BY <1>3, <1>5, <1>6, <1>7
<1> QED
  BY <1>1, <1>3, <1>5, <1>6, <1>7, <1>8, Zenon DEF l, h

(* The first byte gives back the type, with no flags set.                   *)
LEMMA TypeByte ==
  ASSUME NEW p \in Packets
  PROVE  (p.type * Nibble) % Nibble = 0 /\ (p.type * Nibble) \div Nibble = p.type
<1> DEFINE zero == 0
           t == p.type
<1>1. t \in Nat /\ Nibble \in Nat \ {0} /\ zero \in 0 .. Nibble - 1
  BY PacketFields, FormatAssumption
<1>2. t * Nibble + zero = t * Nibble
  BY <1>1
<1> HIDE DEF zero, t
<1>3. (t * Nibble + zero) \div Nibble = t /\ (t * Nibble + zero) % Nibble = zero
  BY <1>1, DivUnique, Zenon
<1> QED
  BY <1>2, <1>3, Zenon DEF zero, t

(* A digit below Digit is its own value, and one of a longer number is read *)
(* without the bit that says that more follow.                              *)
LEMMA DigitValue ==
  ASSUME NEW m \in Nat
  PROVE  /\ m < Digit => m % Digit = m
         /\ m % Digit \in 0 .. Digit - 1 /\ m \div Digit \in Nat
         /\ (Digit + (m % Digit)) % Digit = m % Digit
<1>1. Digit \in Nat \ {0}
  BY FormatAssumption, Zenon
<1>2. ASSUME m < Digit PROVE m % Digit = m
  <2> DEFINE zero == 0
  <2>1. zero \in Nat /\ m \in 0 .. Digit - 1 /\ zero * Digit + m = m
    BY <1>1, <1>2
  <2> HIDE DEF zero
  <2>2. (zero * Digit + m) % Digit = m
    BY <1>1, <2>1, DivUnique, Zenon
  <2> QED
    BY <2>1, <2>2, Zenon
<1>3. m % Digit \in 0 .. Digit - 1 /\ m \div Digit \in Nat
  BY <1>1, DivMod, Zenon
<1>4. (Digit + (m % Digit)) % Digit = m % Digit
  <2> DEFINE one == 1
             r == m % Digit
  <2>1. one \in Nat /\ r \in 0 .. Digit - 1
    BY <1>3, Zenon
  <2> HIDE DEF r
  <2>2. one * Digit + r = Digit + r
    BY <1>1, <2>1
  <2> HIDE DEF one
  <2>3. (one * Digit + r) % Digit = r
    BY <1>1, <2>1, DivUnique, Zenon
  <2> QED
    BY <2>2, <2>3, Zenon DEF r
<1> QED
  BY <1>2, <1>3, <1>4, Zenon

(* The value of a length is what was read of it and what is still to come;  *)
(* with Digits digits every length that fits has been read.                 *)
LEMMA LengthValue ==
  ASSUME NEW m \in Nat, NEW l \in Nat, NEW w \in Nat \ {0}, m >= Digit
  PROVE  /\ (l + (m % Digit) * w) + (m \div Digit) * (Digit * w) = l + m * w
         /\ ~(l + m * w < Digit * w)
<1> DEFINE q == m \div Digit
           r == m % Digit
<1>1. Digit \in Nat \ {0}
  BY FormatAssumption, Zenon
<1>2. q \in Nat /\ r \in 0 .. Digit - 1 /\ r = m - Digit * q
  BY <1>1, DivMod, Zenon
<1> HIDE DEF q, r
<1>3. r \in Nat /\ m = r + Digit * q
  BY <1>1, <1>2
<1>4. m * w = r * w + (Digit * q) * w
  BY <1>1, <1>2, <1>3
<1>5. (Digit * q) * w = q * (Digit * w)
  BY <1>1, <1>2
<1>6. (l + r * w) + q * (Digit * w) = l + m * w
  BY <1>1, <1>2, <1>3, <1>4, <1>5
<1>7. m * w >= Digit * w
  BY <1>1
<1>8. ~(l + m * w < Digit * w)
  BY <1>1, <1>7
<1> QED
  BY <1>6, <1>8, Zenon DEF q, r

-----------------------------------------------------------------------------
(* The inductive invariant *)

(* What ReadPacket may return. *)
PacketRead == [type : Nat, kp : Nat, code : Nat, data : Seq(Nat)]

(* The variables have their types. *)
TypeOK ==
  /\ transport \in {"stream", "ws"}
  /\ buf \in Seq(Nat) /\ got \in Seq(Nat) /\ messages \in Seq(Seq(Nat))
  /\ phase \in {"type", "length", "body", "failed"}
  /\ fh \in [type : Nat, length : Nat, digits : Nat]
  /\ sent \in Seq(PacketRead) /\ received \in Seq(PacketRead)
  /\ closed \in BOOLEAN /\ intact \in BOOLEAN

(* What is left of the encoding of p when ReadPacket begins the field it is *)
(* reading: all of it, the digits that make up the rest of the length and   *)
(* the body, or the body.                                                   *)
InField(p, field) ==
  \/ phase = "type" /\ field = Encoded(p)
  \/ /\ phase = "length" /\ fh.type = p.type /\ fh.digits < Digits
     /\ \E m \in Nat : /\ fh.length + m * Power[fh.digits] = Len(Body(p))
                       /\ field = encodeLength(m) \o Body(p)
  \/ phase = "body" /\ fh.type = p.type /\ fh.length = Len(Body(p)) /\ field = Body(p)

(* ReadPacket is reading p, and rest is what follows it. *)
Reading(p, rest) == \E field \in Seq(Nat) : InField(p, field) /\ got \o buf = field \o rest

(* On a stream, the packets that are not yet received follow each other:    *)
(* t[j] is what comes after the j-th.                                       *)
OnStream(q) ==
  \E t \in [Nat -> Seq(Nat)] :
    /\ Reading(q[Len(received) + 1], t[Len(received) + 1])
    /\ \A j \in Len(received) + 2 .. Len(sent) : t[j - 1] = Encoded(q[j]) \o t[j]
    /\ intact => t[Len(sent)] = <<>>

(* The messages on their way are the packets after the k-th. *)
Queued(q, k) ==
  /\ \A j \in k + 1 .. Len(sent) : j - k <= Len(messages) /\ messages[j - k] = Encoded(q[j])
  /\ intact => Len(messages) = Len(sent) - k

(* Over WebSocket, ReadPacket is between two packets or reads from the      *)
(* message of one.                                                          *)
InMessages(q) ==
  \/ phase = "type" /\ got = <<>> /\ buf = <<>> /\ Queued(q, Len(received))
  \/ Reading(q[Len(received) + 1], <<>>) /\ Queued(q, Len(received) + 1)

(* q gives the packets that were written, as they were written. *)
Written(q) == \A j \in 1 .. Len(sent) : Fits(q[j]) /\ AsRead(q[j]) = sent[j]

(* The packets that are not yet received are on their way. *)
Pending(q) == IF transport = "stream" THEN OnStream(q) ELSE InMessages(q)

(* Some packets account for all that was written and is not yet received. *)
Follows ==
  \E q \in [1 .. Len(sent) -> Packets] :
    Written(q) /\ (Len(received) < Len(sent) => Pending(q))

(* Everything written has been read, and nothing else. *)
Drained ==
  /\ buf = <<>> /\ messages = <<>> /\ got = <<>>
  /\ phase = "type" \/ (phase = "failed" /\ closed)

(* The bytes on their way are, up to the write that broke, the rest of the  *)
(* packet being read and the encodings of the packets after it.             *)
IInv ==
  /\ TypeOK
  /\ intact => Len(received) <= Len(sent)
  /\ transport = "stream" => messages = <<>>
  /\ phase # "failed" => Len(got) <= Need
  /\ intact /\ Len(received) = Len(sent) => Drained
  /\ Follows

(* ReadPacket makes a packet of every body it accepts.                      *)
LEMMA UnpackType ==
  ASSUME NEW type \in Nat, NEW b \in Seq(Nat), Unpackable(type, b)
  PROVE  Unpack(type, b) \in PacketRead
<1>1. ASSUME NEW s \in Seq(Nat), Len(s) >= 2 PROVE decodeUint16(s) \in Nat
  <2>1. s[1] \in Nat /\ s[2] \in Nat /\ Digit \in Nat
    BY <1>1, FormatAssumption
  <2>2. s[1] * 2 \in Nat
    BY <2>1
  <2> DEFINE x == (s[1] * 2) * Digit
  <2>3. x \in Nat
    BY <2>1, <2>2
  <2> HIDE DEF x
  <2>4. x + s[2] \in Nat
    BY <2>1, <2>3
  <2> QED
    BY <2>4, Zenon DEF decodeUint16, x
<1>2. ASSUME NEW n \in 0 .. Len(b) PROVE Drop(b, n) \in Seq(Nat) /\ Len(Drop(b, n)) = Len(b) - n
  BY TakeAndDrop, Zenon
<1>3. ASSUME NEW kp \in Nat, NEW code \in Nat, NEW data \in Seq(Nat)
      PROVE  Packet(type, kp, code, data) \in PacketRead
  BY Zenon DEF Packet, PacketRead
<1>4. CASE type = Connect
  <2> DEFINE n == decodeUint16(Drop(b, 8))
  <2>1. Len(b) \in Nat /\ Len(b) >= 10 /\ Len(b) - 10 >= n
    BY <1>4, TypesDiffer DEF Unpackable
  <2>2. Drop(b, 6) \in Seq(Nat) /\ Len(Drop(b, 6)) >= 2 /\ Drop(b, 8) \in Seq(Nat) /\ Len(Drop(b, 8)) = Len(b) - 8
    <3> DEFINE six == 6
               eight == 8
    <3>1. six \in 0 .. Len(b) /\ eight \in 0 .. Len(b)
      BY <2>1
    <3> HIDE DEF six, eight
    <3>2. /\ Drop(b, six) \in Seq(Nat) /\ Len(Drop(b, six)) = Len(b) - six
          /\ Drop(b, eight) \in Seq(Nat) /\ Len(Drop(b, eight)) = Len(b) - eight
      BY <1>2, <3>1, Zenon
    <3> QED
      BY <2>1, <3>2 DEF six, eight
  <2>3. decodeUint16(Drop(b, 6)) \in Nat /\ n \in Nat
    <3>1. Len(Drop(b, 8)) >= 2
      BY <2>1, <2>2
    <3> QED
      BY <1>1, <2>2, <3>1, Zenon
  <2>4. decodeBytes(Drop(b, 8)) \in Seq(Nat)
    <3> DEFINE c == Drop(b, 8)
    <3>1. c \in Seq(Nat) /\ 2 \in 0 .. Len(c)
      BY <2>1, <2>2
    <3>2. Drop(c, 2) \in Seq(Nat) /\ Len(Drop(c, 2)) = Len(c) - 2
      <4> HIDE DEF c
      <4> QED
        BY <3>1, TakeAndDrop, Zenon
    <3>3. n \in 0 .. Len(Drop(c, 2))
      <4> HIDE DEF n
      <4> QED
        BY <2>1, <2>2, <2>3, <3>2
    <3>4. Take(Drop(c, 2), n) \in Seq(Nat)
      <4> HIDE DEF n, c
      <4> QED
        BY <3>2, <3>3, TakeAndDrop, Zenon
    <3> QED
      BY <3>4, Zenon DEF decodeBytes
  <2>5. Unpack(type, b) = ConnectUnpack(b)
    BY <1>4, TypesDiffer, Zenon DEF Unpack
  <2>6. 0 \in Nat
    BY Zenon
  <2> QED
    BY <1>3, <1>4, <2>3, <2>4, <2>5, <2>6, Zenon DEF ConnectUnpack
<1>5. CASE type = Connack
  <2>1. Len(b) \in Nat /\ Len(b) >= 3
    BY <1>5, TypesDiffer DEF Unpackable
  <2>2. Drop(b, 1) \in Seq(Nat) /\ Len(Drop(b, 1)) = Len(b) - 1
    <3>1. 1 \in 0 .. Len(b)
      BY <2>1
    <3> QED
      BY <1>2, <3>1, Zenon
  <2>3. decodeUint16(Drop(b, 1)) \in Nat /\ b[1] \in Nat /\ <<>> \in Seq(Nat)
    <3>1. Len(Drop(b, 1)) >= 2
      BY <2>1, <2>2
    <3>2. decodeUint16(Drop(b, 1)) \in Nat
      BY <1>1, <2>2, <3>1, Zenon
    <3> QED
      BY <2>1, <3>2
  <2>4. Unpack(type, b) = ConnackUnpack(b)
    BY <1>5, TypesDiffer, Zenon DEF Unpack
  <2> QED
    BY <1>3, <1>5, <2>3, <2>4, Zenon DEF ConnackUnpack
<1>6. CASE type = Push
  <2>1. Len(b) \in Nat /\ Len(b) >= 1
    BY <1>6, TypesDiffer DEF Unpackable
  <2>2. Drop(b, 1) \in Seq(Nat) /\ 0 \in Nat
    BY <1>2, <2>1
  <2>3. Unpack(type, b) = PushUnpack(b)
    BY <1>6, TypesDiffer, Zenon DEF Unpack
  <2> QED
    BY <1>3, <1>6, <2>2, <2>3, Zenon DEF PushUnpack
<1>7. CASE type = Disconnect
  <2>1. Len(b) \in Nat /\ Len(b) >= 1
    BY <1>7, TypesDiffer DEF Unpackable
  <2>2. b[1] \in Nat /\ 0 \in Nat /\ <<>> \in Seq(Nat)
    BY <2>1
  <2>3. Unpack(type, b) = DisconnectUnpack(b)
    BY <1>7, TypesDiffer, Zenon DEF Unpack
  <2> QED
    BY <1>3, <1>7, <2>2, <2>3, Zenon DEF DisconnectUnpack
<1>8. CASE type \notin {Connect, Connack, Push, Disconnect}
  <2>1. 0 \in Nat /\ <<>> \in Seq(Nat)
    OBVIOUS
  <2>2. Unpack(type, b) = Packet(type, 0, 0, <<>>)
    BY <1>8, Zenon DEF Unpack
  <2> QED
    BY <1>3, <2>1, <2>2, Zenon
<1> QED
  BY <1>4, <1>5, <1>6, <1>7, <1>8, Zenon

(* The packet a reader should see is a packet.                              *)
LEMMA AsReadType ==
  ASSUME NEW p \in Packets
  PROVE  AsRead(p) \in PacketRead
<1>1. p.type \in Nat /\ Body(p) \in Seq(Nat)
  BY PacketFields, BodyUnpacks, Zenon
<1> QED
  BY <1>1, BodyUnpacks, UnpackType, Zenon

(* Read returns at least one byte, and no more than are there or wanted.    *)
LEMMA ReadsSome ==
  ASSUME TypeOK, Reads, phase # "failed" => Len(got) <= Need
  PROVE  \E n \in 1 .. Len(buf) : Len(got) + n <= Need /\ Read(n)
<1>1. PICK n \in (IF transport = "ws" THEN {} ELSE {1}) \cup {Available} : Read(n)
  BY Zenon DEF Reads
<1>2. n = 1 \/ n = Available
  BY <1>1, Zenon
<1>3. phase # "failed" /\ Len(got) < Need
  BY <1>1, Zenon DEF Read, Wants
<1>4. Len(buf) \in Nat \ {0} /\ Len(got) \in Nat
  BY EmptySeq, LenProperties, Zenon DEF Reads, TypeOK
<1>5. Need \in Nat
  BY Zenon DEF TypeOK, Need
<1>6. n \in 1 .. Len(buf) /\ Len(got) + n <= Need
  BY <1>2, <1>3, <1>4, <1>5 DEF Available, Least
<1> QED
  BY <1>1, <1>6, Zenon

(* Every step keeps the variables in their sets.                            *)
LEMMA TypeStep ==
  ASSUME TypeOK, phase # "failed" => Len(got) <= Need, [Next]_vars
  PROVE  TypeOK'
<1>1. ASSUME NEW bytes \in Seq(Nat), Transmit(bytes), UNCHANGED transport
      PROVE  buf' \in Seq(Nat) /\ messages' \in Seq(Seq(Nat))
  <2>1. CASE transport = "stream"
    <3>1. buf \o bytes \in Seq(Nat)
      BY ConcatProperties, Zenon DEF TypeOK
    <3> QED
      BY <1>1, <2>1, <3>1, Zenon DEF Transmit, TypeOK
  <2>2. CASE transport # "stream"
    <3>1. Append(messages, bytes) \in Seq(Seq(Nat))
      BY Appended, Zenon DEF TypeOK
    <3> QED
      BY <1>1, <2>2, <3>1, Zenon DEF Transmit, TypeOK
  <2> QED
    BY <2>1, <2>2, Zenon
<1>2. ASSUME NEW p \in Packets, Write(p) PROVE TypeOK'
  <2>1. buf' \in Seq(Nat) /\ messages' \in Seq(Seq(Nat))
    BY <1>1, <1>2, EncodedFields, Zenon DEF Write
  <2>2. sent' \in Seq(PacketRead)
    <3>1. Append(sent, AsRead(p)) \in Seq(PacketRead)
      BY AsReadType, Appended, Zenon DEF TypeOK
    <3> QED
      BY <1>2, <3>1, Zenon DEF Write, TypeOK
  <2>3. intact' \in BOOLEAN
    BY <1>2, Zenon DEF Write, TypeOK
  <2> QED
    BY <1>2, <2>1, <2>2, <2>3, Zenon DEF Write, TypeOK, reader
<1>3. ASSUME NEW p \in Packets, NEW n \in {1, Len(Encoded(p)) - 1}, WriteCut(p, n) PROVE TypeOK'
  <2>1. n \in 0 .. Len(Encoded(p))
    <3> DEFINE l == Len(Encoded(p))
    <3>1. l \in Nat \ {0}
      BY EncodedFields, Zenon
    <3> HIDE DEF l
    <3>2. n \in {1, l - 1}
      BY Zenon DEF l
    <3>3. n \in 0 .. l
      BY <3>1, <3>2
    <3> QED
      BY <3>3, Zenon DEF l
  <2>2. Take(Encoded(p), n) \in Seq(Nat)
    BY <2>1, EncodedFields, TakeAndDrop, Zenon
  <2>3. buf' \in Seq(Nat) /\ messages' \in Seq(Seq(Nat))
    BY <1>1, <1>3, <2>2, Zenon DEF WriteCut
  <2> QED
    BY <1>3, <2>3, Zenon DEF WriteCut, TypeOK, reader
<1>4. CASE Close
  BY <1>4, Zenon DEF Close, TypeOK, reader
<1>5. CASE Receive
  <2>1. Head(messages) \in Seq(Nat) /\ Tail(messages) \in Seq(Seq(Nat))
    BY <1>5, HeadTailProperties, Zenon DEF Receive, TypeOK
  <2> QED
    BY <1>5, <2>1, Zenon DEF Receive, TypeOK, reader
<1>6. CASE Reads
  <2>1. PICK n \in 1 .. Len(buf) : Len(got) + n <= Need /\ Read(n)
    BY <1>6, ReadsSome, Zenon
  <2>2. n \in 0 .. Len(buf)
    OBVIOUS
  <2>3. Take(buf, n) \in Seq(Nat) /\ Drop(buf, n) \in Seq(Nat)
    BY <2>2, TakeAndDrop, Zenon DEF TypeOK
  <2>4. got \o Take(buf, n) \in Seq(Nat)
    BY <2>3, ConcatProperties, Zenon DEF TypeOK
  <2> QED
    BY <2>1, <2>3, <2>4, Zenon DEF Read, TypeOK, writer
<1>7. CASE ReadEnds
  BY <1>7, Zenon DEF ReadEnds, Fail, TypeOK, writer
<1>8. ASSUME phase \in {"type", "length"}, ~Wants PROVE got[1] \in Nat
  <2>1. Len(got) \in Nat /\ Len(got) >= 1
    BY <1>8, LenProperties DEF TypeOK, Wants, Need
  <2> QED
    BY <2>1 DEF TypeOK
<1>9. CASE ReadsType
  <2>1. CASE got[1] % Nibble # 0
    BY <1>9, <2>1, Zenon DEF ReadsType, Fail, TypeOK, writer
  <2>2. CASE ~(got[1] % Nibble # 0)
    <3>1. got[1] \div Nibble \in Nat
      <4>1. got[1] \in Nat /\ Nibble \in Nat \ {0}
        BY <1>8, <1>9, FormatAssumption, Zenon DEF ReadsType
      <4> QED
        BY <4>1, DivMod, Zenon
    <3>2. fh' \in [type : Nat, length : Nat, digits : Nat]
      BY <1>9, <2>2, <3>1 DEF ReadsType, NoHeader
    <3>3. got' \in Seq(Nat)
      BY <1>9, <2>2 DEF ReadsType
    <3> QED
      BY <1>9, <2>2, <3>2, <3>3, Zenon DEF ReadsType, TypeOK, writer
  <2> QED
    BY <2>1, <2>2, Zenon
<1>10. CASE ReadsLength
  <2> DEFINE length == fh.length + (got[1] % Digit) * Power[fh.digits]
             header == [fh EXCEPT !.length = length, !.digits = @ + 1]
  <2>1. CASE LastDigit(got[1]) /\ fh.type \notin Types
    BY <1>10, <2>1, Zenon DEF ReadsLength, Fail, TypeOK, writer
  <2>2. CASE ~(LastDigit(got[1]) /\ fh.type \notin Types)
    <3>1. length \in Nat
      <4> DEFINE x == got[1] % Digit
                 w == Power[fh.digits]
      <4>1. fh.length \in Nat /\ fh.digits \in Nat
        BY Zenon DEF TypeOK
      <4>2. x \in Nat
        <5>1. got[1] \in Nat
          BY <1>8, <1>10, Zenon DEF ReadsLength
        <5>2. x \in 0 .. Digit - 1
          BY <5>1, DigitValue, Zenon
        <5> QED
          BY <5>2, FormatAssumption
      <4>3. w \in Nat
        BY <4>1, Powers, Zenon
      <4> HIDE DEF x, w
      <4>4. x * w \in Nat
        BY <4>2, <4>3
      <4>5. fh.length + x * w \in Nat
        BY <4>1, <4>4
      <4> QED
        BY <4>5, Zenon DEF x, w
    <3> HIDE DEF length
    <3>2. header \in [type : Nat, length : Nat, digits : Nat]
      <4>1. fh \in [type : Nat, length : Nat, digits : Nat]
        BY Zenon DEF TypeOK
      <4>2. fh.digits + 1 \in Nat
        BY <4>1
      <4> QED
        BY <3>1, <4>1, <4>2, Zenon
    <3>3. fh' = header /\ phase' \in {"body", "length"} /\ got' = <<>>
          /\ UNCHANGED <<transport, buf, writer, received>>
      BY <1>10, <2>2, Zenon DEF ReadsLength, length
    <3>4. <<>> \in Seq(Nat)
      OBVIOUS
    <3> QED
      BY <3>2, <3>3, <3>4, Zenon DEF TypeOK, writer
  <2> QED
    BY <2>1, <2>2, Zenon
<1>11. CASE ReadsBody
  <2>1. CASE Unpackable(fh.type, got)
    <3>1. fh.type \in Nat
      BY Zenon DEF TypeOK
    <3>2. Unpack(fh.type, got) \in PacketRead
      BY <2>1, <3>1, UnpackType, Zenon DEF TypeOK
    <3>3. Append(received, Unpack(fh.type, got)) \in Seq(PacketRead)
      BY <3>2, Appended, Zenon DEF TypeOK
    <3>4. NoHeader \in [type : Nat, length : Nat, digits : Nat] /\ <<>> \in Seq(Nat)
      BY DEF NoHeader
    <3> QED
      BY <1>11, <2>1, <3>3, <3>4, Zenon DEF ReadsBody, TypeOK, writer
  <2>2. CASE ~Unpackable(fh.type, got)
    BY <1>11, <2>2, Zenon DEF ReadsBody, Fail, TypeOK, writer
  <2> QED
    BY <2>1, <2>2, Zenon
<1>12. CASE UNCHANGED vars
  BY <1>12, Zenon DEF vars, writer, reader, TypeOK
<1> QED
  BY <1>2, <1>3, <1>4, <1>5, <1>6, <1>7, <1>9, <1>10, <1>11, <1>12, Zenon DEF Next, ReadPacket

-----------------------------------------------------------------------------
(* ReadPacket goes through one packet *)

(* The encoding of a length has at least one digit.                         *)
LEMMA SomeDigits ==
  ASSUME NEW m \in Nat
  PROVE  encodeLength(m) \in Seq(Nat) /\ Len(encodeLength(m)) \in Nat \ {0}
<1>1. digits[m] \in Seq(Nat) /\ Len(digits[m]) \in Nat
  BY LengthDigits, LenProperties, Zenon
<1>2. digits[m] # <<>>
  <2>1. CASE m < Digit
    <3>1. digits[m] = <<m>>
      BY <2>1, LengthDigits, Zenon
    <3> QED
      BY <3>1
  <2>2. CASE m >= Digit
    <3> DEFINE a == Digit + (m % Digit)
               rest == digits[m \div Digit]
    <3>1. digits[m] = <<a>> \o rest
      BY <2>2, LengthDigits, Zenon
    <3>2. rest \in Seq(Nat)
      BY DigitValue, LengthDigits, Zenon
    <3>3. a \in Nat
      BY DigitValue, FormatAssumption
    <3>4. <<a>> \in Seq(Nat) /\ Len(<<a>>) = 1 /\ Len(rest) \in Nat
      BY <3>2, <3>3
    <3> HIDE DEF a, rest
    <3>5. Len(<<a>> \o rest) = Len(<<a>>) + Len(rest)
      BY <3>2, <3>4, ConcatProperties, Zenon
    <3>6. Len(<<a>> \o rest) # 0 /\ Len(<<>>) = 0
      BY <3>4, <3>5
    <3> QED
      BY <3>1, <3>6, Zenon
  <2> QED
    BY <2>1, <2>2, FormatAssumption
<1>3. Len(digits[m]) \in Nat \ {0}
  BY <1>1, <1>2, EmptySeq, Zenon
<1> QED
  BY <1>1, <1>3, Zenon DEF encodeLength

(* What is left of a packet is at least what ReadPacket asks for.           *)
LEMMA FieldNeeded ==
  ASSUME TypeOK, NEW p \in Packets, NEW field \in Seq(Nat), InField(p, field)
  PROVE  phase # "failed" /\ Need <= Len(field)
<1>1. CASE phase = "type" /\ field = Encoded(p)
  <2>1. Len(field) \in Nat \ {0}
    BY <1>1, EncodedFields, Zenon
  <2> QED
    BY <1>1, <2>1 DEF Need
<1>2. ASSUME phase = "length", NEW m \in Nat, field = encodeLength(m) \o Body(p)
      PROVE  phase # "failed" /\ Need <= Len(field)
  <2> DEFINE l == encodeLength(m)
             b == Body(p)
  <2>1. l \in Seq(Nat) /\ b \in Seq(Nat) /\ Len(l) \in Nat \ {0} /\ Len(b) \in Nat
    BY SomeDigits, BodyUnpacks, LenProperties, Zenon
  <2>2. field = l \o b
    BY <1>2, Zenon
  <2> HIDE DEF l, b
  <2>3. Len(field) = Len(l) + Len(b)
    BY <2>1, <2>2, ConcatProperties, Zenon
  <2> QED
    BY <1>2, <2>1, <2>3 DEF Need
<1>3. CASE phase = "body" /\ fh.length = Len(Body(p)) /\ field = Body(p)
  <2>1. Len(Body(p)) \in Nat
    BY EncodedFields, Zenon
  <2> QED
    BY <1>3, <2>1 DEF Need
<1> QED
  BY <1>1, <1>2, <1>3, Zenon DEF InField

(* As long as some of a packet is to be read, ReadPacket has not failed and *)
(* does not wait for more than there is.                                    *)
LEMMA ReadingNotShort ==
  ASSUME TypeOK, NEW p \in Packets, NEW rest \in Seq(Nat), Reading(p, rest)
  PROVE  phase # "failed" /\ (buf = <<>> => ~Wants)
<1>1. PICK field \in Seq(Nat) : InField(p, field) /\ got \o buf = field \o rest
  BY Zenon DEF Reading
<1>2. phase # "failed" /\ Need <= Len(field)
  BY <1>1, FieldNeeded, Zenon
<1>3. ASSUME buf = <<>> PROVE ~Wants
  <2>1. got = field \o rest
    <3>1. got \o buf = got
      BY <1>3, ConcatEmptySeq, Zenon DEF TypeOK
    <3> QED
      BY <1>1, <3>1, Zenon
  <2>2. Len(got) = Len(field) + Len(rest) /\ Len(field) \in Nat /\ Len(rest) \in Nat
    BY <2>1, ConcatProperties, LenProperties, Zenon
  <2>3. Need \in Nat
    BY Zenon DEF TypeOK, Need
  <2> QED
    BY <1>2, <2>2, <2>3 DEF Wants
<1> QED
  BY <1>2, <1>3, Zenon

(* A field that needs no more bytes has been read whole.                    *)
LEMMA FieldWhole ==
  ASSUME TypeOK, phase # "failed", ~Wants, Len(got) <= Need
  PROVE  Len(got) = Need
<1> DEFINE n == Need
           l == Len(got)
<1>1. n \in Nat /\ l \in Nat
  BY LenProperties, Zenon DEF TypeOK, Need
<1>2. ~(l < n) /\ l <= n
  BY Zenon DEF Wants
<1> HIDE DEF n, l
<1>3. l = n
  BY <1>1, <1>2
<1> QED
  BY <1>3, Zenon DEF l, n

(* The bytes of a field that has been read whole.                           *)
LEMMA FieldRead ==
  ASSUME TypeOK, NEW h \in Seq(Nat), NEW more \in Seq(Nat), NEW rest \in Seq(Nat),
         got \o buf = (h \o more) \o rest, Len(got) = Len(h)
  PROVE  got = h /\ buf = more \o rest
<1>1. more \o rest \in Seq(Nat)
  BY ConcatProperties, Zenon
<1>2. got \o buf = h \o (more \o rest)
  BY Regroup, Zenon
<1>3. got \in Seq(Nat) /\ buf \in Seq(Nat)
  BY Zenon DEF TypeOK
<1> QED
  BY <1>1, <1>2, <1>3, SameCut, Zenon

(* The first byte of a packet takes ReadPacket to its length.               *)
LEMMA TypeRead ==
  ASSUME TypeOK, NEW p \in Packets, NEW rest \in Seq(Nat), Reading(p, rest),
         Len(got) <= Need, ReadsType
  PROVE  Reading(p, rest)'
<1> DEFINE h == <<p.type * Nibble>>
           b == encodeLength(Len(Body(p))) \o Body(p)
<1>1. phase = "type" /\ ~Wants
  BY Zenon DEF ReadsType
<1>2. got \o buf = Encoded(p) \o rest
  BY <1>1, Zenon DEF Reading, InField
<1>3. h \in Seq(Nat) /\ b \in Seq(Nat) /\ Encoded(p) = h \o b /\ Len(h) = 1 /\ Len(Body(p)) \in Nat
  BY EncodedFields, Zenon
<1>4. Len(got) = 1
  <2>1. phase # "failed" /\ Need = 1
    BY <1>1, Zenon DEF Need
  <2> QED
    BY <1>1, <2>1, FieldWhole, Zenon
<1>5. h[1] = p.type * Nibble
  BY Zenon
<1> HIDE DEF h, b
<1>6. got = h /\ buf = b \o rest
  <2>1. got \o buf = (h \o b) \o rest /\ Len(got) = Len(h)
    BY <1>2, <1>3, <1>4, Zenon
  <2>2. h \in Seq(Nat) /\ b \in Seq(Nat)
    BY <1>3, Zenon
  <2> QED
    BY <2>1, <2>2, FieldRead, Zenon
<1>7. got[1] % Nibble = 0 /\ got[1] \div Nibble = p.type
  BY <1>5, <1>6, TypeByte, Zenon
<1>8. /\ phase' = "length" /\ fh' = [NoHeader EXCEPT !.type = p.type]
      /\ got' = <<>> /\ buf' = buf
  BY <1>7, Zenon DEF ReadsType
<1>9. fh'.type = p.type /\ fh'.length = 0 /\ fh'.digits = 0
  BY <1>8, Zenon DEF NoHeader
<1>10. 0 < Digits /\ 0 + Len(Body(p)) * Power[0] = Len(Body(p))
  BY <1>3, Powers, FormatAssumption
<1>11. (got \o buf)' = b \o rest
  <2>1. b \o rest \in Seq(Nat)
    BY <1>3, ConcatProperties, Zenon
  <2> QED
    BY <1>6, <1>8, <2>1, ConcatEmptySeq, Zenon
<1>12. InField(p, b)'
  BY <1>3, <1>8, <1>9, <1>10, Zenon DEF InField, b
<1> QED
  BY <1>3, <1>11, <1>12, Zenon DEF Reading

(* A digit of its length takes ReadPacket to the next digit or, when it was *)
(* the last, to the body, with the length that was written.                 *)
LEMMA LengthRead ==
  ASSUME TypeOK, NEW p \in Packets, Fits(p), NEW rest \in Seq(Nat), Reading(p, rest),
         Len(got) <= Need, ReadsLength
  PROVE  Reading(p, rest)'
<1> DEFINE b == Body(p)
           w == Power[fh.digits]
           length == fh.length + (got[1] % Digit) * w
           header == [fh EXCEPT !.length = length, !.digits = @ + 1]
<1>1. phase = "length" /\ ~Wants
  BY Zenon DEF ReadsLength
<1>2. PICK m \in Nat : /\ fh.length + m * w = Len(b)
                       /\ got \o buf = (encodeLength(m) \o b) \o rest
                       /\ fh.type = p.type /\ fh.digits < Digits
  BY <1>1, Zenon DEF Reading, InField
<1>3. b \in Seq(Nat) /\ Len(b) \in Nat /\ Len(b) < Power[Digits] /\ p.type \in Types
  BY BodyUnpacks, EncodedFields, PacketFields, Zenon DEF Fits
<1>4. Len(got) = 1
  <2>1. phase # "failed" /\ Need = 1
    BY <1>1, Zenon DEF Need
  <2> QED
    BY <1>1, <2>1, FieldWhole, Zenon
<1>5. fh \in [type : Nat, length : Nat, digits : Nat] /\ fh.length \in Nat /\ fh.digits \in Nat
  BY Zenon DEF TypeOK
<1>6. w \in Nat \ {0}
  BY <1>5, Powers, Zenon
<1>7. /\ phase' = IF LastDigit(got[1]) THEN "body" ELSE "length"
      /\ fh' = header /\ got' = <<>> /\ buf' = buf
  BY <1>2, <1>3, Zenon DEF ReadsLength
<1>8. fh'.type = p.type /\ fh'.length = length /\ fh'.digits = fh.digits + 1
  <2> HIDE DEF length
  <2> QED
    BY <1>2, <1>5, <1>7, Zenon
<1> HIDE DEF b, w, header, length
<1>9. CASE m < Digit
  <2>1. encodeLength(m) = <<m>> /\ <<m>> \in Seq(Nat) /\ Len(<<m>>) = 1
    BY <1>9, LengthDigits, Zenon DEF encodeLength
  <2>2. got = <<m>> /\ buf = b \o rest
    BY <1>2, <1>3, <1>4, <2>1, FieldRead, ZenonT(60)
  <2>3. got[1] = m
    BY <2>2, Zenon
  <2>4. LastDigit(got[1]) /\ got[1] % Digit = m
    BY <1>9, <2>3, DigitValue, Zenon DEF LastDigit
  <2>5. phase' = "body" /\ fh'.length = Len(b)
    BY <1>2, <1>7, <1>8, <2>4, Zenon DEF length
  <2>6. (got \o buf)' = b \o rest
    <3>1. b \o rest \in Seq(Nat)
      BY <1>3, ConcatProperties, Zenon
    <3> QED
      BY <1>7, <2>2, <3>1, ConcatEmptySeq, Zenon
  <2>7. InField(p, b)'
    BY <1>8, <2>5, Zenon DEF InField, b
  <2> QED
    BY <1>3, <2>6, <2>7, Zenon DEF Reading
<1>10. CASE m >= Digit
  <2> DEFINE a == Digit + (m % Digit)
             k == m \div Digit
             more == encodeLength(k)
  <2>1. a \in Nat /\ a >= Digit /\ k \in Nat /\ a % Digit = m % Digit
    <3> DEFINE r == m % Digit
    <3>1. r \in 0 .. Digit - 1 /\ k \in Nat /\ a % Digit = m % Digit
      BY DigitValue, Zenon
    <3> HIDE DEF r, k
    <3>2. Digit + r \in Nat /\ Digit + r >= Digit
      BY <3>1, FormatAssumption
    <3> QED
      BY <3>1, <3>2, Zenon DEF r
  <2>2. encodeLength(m) = <<a>> \o more
    BY <1>10, LengthDigits, Zenon DEF encodeLength
  <2> HIDE DEF a, k, more
  <2>3. more \in Seq(Nat) /\ <<a>> \in Seq(Nat) /\ Len(<<a>>) = 1
    <3>1. more \in Seq(Nat)
      BY <2>1, SomeDigits, Zenon DEF more
    <3> QED
      BY <2>1, <3>1
  <2>4. more \o b \in Seq(Nat)
    BY <1>3, <2>3, ConcatProperties, Zenon
  <2>5. got = <<a>> /\ buf = (more \o b) \o rest
    <3>1. (<<a>> \o more) \o b = <<a>> \o (more \o b)
      BY <1>3, <2>3, Regroup, ZenonT(60)
    <3>2. got \o buf = (<<a>> \o (more \o b)) \o rest
      BY <1>2, <2>2, <3>1, Zenon
    <3> QED
      BY <1>4, <2>3, <2>4, <3>2, FieldRead, Zenon
  <2>6. got[1] = a
    BY <2>5, Zenon
  <2>7. Power[fh.digits + 1] = Digit * w
    BY <1>5, Powers, Zenon DEF w
  <2>8. fh.digits + 1 # Digits
    <3>1. ~(fh.length + m * w < Digit * w)
      BY <1>5, <1>6, <1>10, LengthValue, Zenon
    <3> QED
      BY <1>2, <1>3, <2>7, <3>1, Zenon
  <2>9. ~LastDigit(got[1])
    <3>1. ~(a < Digit)
      BY <2>1, FormatAssumption
    <3> QED
      BY <2>6, <2>8, <3>1, Zenon DEF LastDigit
  <2>10. fh'.digits < Digits
    <3>1. Digits \in Nat
      BY FormatAssumption, Zenon
    <3> QED
      BY <1>2, <1>5, <1>8, <2>8, <3>1
  <2>11. fh'.length + k * Power[fh'.digits] = Len(b)
    <3>1. (fh.length + (m % Digit) * w) + k * (Digit * w) = fh.length + m * w
      BY <1>5, <1>6, <1>10, LengthValue, Zenon DEF k
    <3>2. fh'.length = fh.length + (m % Digit) * w
      BY <1>8, <2>1, <2>6, Zenon DEF length
    <3> QED
      BY <1>2, <1>8, <2>7, <3>1, <3>2, Zenon
  <2>12. (got \o buf)' = (more \o b) \o rest
    <3>1. (more \o b) \o rest \in Seq(Nat)
      BY <2>4, ConcatProperties, Zenon
    <3> QED
      BY <1>7, <2>5, <3>1, ConcatEmptySeq, Zenon
  <2>13. InField(p, more \o b)'
    BY <1>7, <1>8, <2>1, <2>9, <2>10, <2>11, Zenon DEF InField, more, b
  <2> QED
    BY <2>4, <2>12, <2>13, Zenon DEF Reading
<1> QED
  BY <1>9, <1>10, FormatAssumption

(* At the end of the body ReadPacket has read the packet, and nothing of    *)
(* what follows it.                                                         *)
LEMMA BodyRead ==
  ASSUME TypeOK, NEW p \in Packets, NEW rest \in Seq(Nat), Reading(p, rest),
         Len(got) <= Need, phase = "body", ~Wants
  PROVE  got = Body(p) /\ buf = rest /\ fh.type = p.type
<1> DEFINE b == Body(p)
<1>1. fh.type = p.type /\ fh.length = Len(b) /\ got \o buf = b \o rest
  BY Zenon DEF Reading, InField
<1>2. b \in Seq(Nat) /\ got \in Seq(Nat) /\ buf \in Seq(Nat) /\ Len(b) \in Nat
  BY BodyUnpacks, LenProperties, Zenon DEF TypeOK
<1> HIDE DEF b
<1>3. Len(got) = Len(b)
  <2>1. phase # "failed" /\ Need = Len(b)
    BY <1>1, Zenon DEF Need
  <2> QED
    BY <2>1, FieldWhole, Zenon
<1> QED
  BY <1>1, <1>2, <1>3, SameCut, Zenon DEF b

-----------------------------------------------------------------------------
(* The steps of the reader and the writer *)

(* A Read moves bytes of the packet, and changes none.                      *)
LEMMA ReadMoves ==
  ASSUME TypeOK, NEW n \in 0 .. Len(buf), Read(n),
         NEW p \in Packets, NEW rest \in Seq(Nat), Reading(p, rest)
  PROVE  Reading(p, rest)'
<1> DEFINE a == Take(buf, n)
           b == Drop(buf, n)
<1>1. a \in Seq(Nat) /\ b \in Seq(Nat) /\ a \o b = buf /\ got \in Seq(Nat)
  BY TakeAndDrop, Zenon DEF TypeOK
<1>2. got' = got \o a /\ buf' = b /\ phase' = phase /\ fh' = fh
  BY Zenon DEF Read
<1> HIDE DEF a, b
<1>3. (got \o buf)' = got \o buf
  <2>1. (got \o a) \o b = got \o (a \o b)
    BY <1>1, Regroup, ZenonT(60)
  <2> QED
    BY <1>1, <1>2, <2>1, Zenon
<1>4. \A field : InField(p, field) => InField(p, field)'
  BY <1>2, Zenon DEF InField
<1> QED
  BY <1>3, <1>4, Zenon DEF Reading

(* A step that only takes ReadPacket further within a packet.               *)
LEMMA WithinPacket ==
  ASSUME TypeOK, Follows, ~(phase = "type" /\ got = <<>> /\ buf = <<>>),
         UNCHANGED <<transport, sent, received, intact, messages>>,
         \A p \in Packets : \A rest \in Seq(Nat) : Fits(p) /\ Reading(p, rest) => Reading(p, rest)'
  PROVE  Follows'
<1> DEFINE r == Len(received) + 1
<1>1. PICK q \in [1 .. Len(sent) -> Packets] :
        Written(q) /\ (Len(received) < Len(sent) => Pending(q))
  BY Zenon DEF Follows
<1>2. Written(q)'
  BY <1>1, Zenon DEF Written
<1>3. ASSUME Len(received) < Len(sent) PROVE Pending(q)'
  <2>1. r \in 1 .. Len(sent)
    BY <1>3, LenProperties DEF TypeOK
  <2>2. q[r] \in Packets /\ Fits(q[r])
    BY <1>1, <2>1, Zenon DEF Written
  <2>3. CASE transport = "stream"
    <3>1. PICK t \in [Nat -> Seq(Nat)] :
            /\ Reading(q[r], t[r])
            /\ \A j \in Len(received) + 2 .. Len(sent) : t[j - 1] = Encoded(q[j]) \o t[j]
            /\ intact => t[Len(sent)] = <<>>
      BY <1>1, <1>3, <2>3, Zenon DEF Pending, OnStream
    <3>2. t[r] \in Seq(Nat)
      BY <2>1
    <3>3. Reading(q[r], t[r])'
      <4> DEFINE p == q[r]
                 rest == t[r]
      <4>1. p \in Packets /\ rest \in Seq(Nat) /\ Fits(p) /\ Reading(p, rest)
        BY <2>2, <3>1, <3>2, Zenon
      <4>2. r' = r
        BY Zenon
      <4> HIDE DEF r
      <4> QED
        BY <4>1, <4>2, Zenon
    <3> QED
      BY <2>3, <3>1, <3>3, Zenon DEF Pending, OnStream
  <2>4. CASE transport # "stream"
    <3>1. Reading(q[r], <<>>) /\ Queued(q, r)
      BY <1>1, <1>3, <2>4, Zenon DEF Pending, InMessages
    <3>2. <<>> \in Seq(Nat)
      OBVIOUS
    <3>3. Reading(q[r], <<>>)'
      BY <2>2, <3>1, <3>2, Zenon
    <3>4. Queued(q, r)'
      BY <3>1, Zenon DEF Queued
    <3> QED
      BY <2>4, <3>3, <3>4, Zenon DEF Pending, InMessages
  <2> QED
    BY <2>3, <2>4, Zenon
<1> QED
  BY <1>1, <1>2, <1>3, Zenon DEF Follows

(* What is written to a stream comes after what is being read.              *)
LEMMA ReadingGrows ==
  ASSUME TypeOK, NEW p \in Packets, NEW rest \in Seq(Nat), NEW bytes \in Seq(Nat),
         Reading(p, rest)
  PROVE  buf' = buf \o bytes /\ UNCHANGED reader => Reading(p, rest \o bytes)'
<1>1. PICK field \in Seq(Nat) : InField(p, field) /\ got \o buf = field \o rest
  BY Zenon DEF Reading
<1>2. got \o (buf \o bytes) = field \o (rest \o bytes)
  <2>1. got \in Seq(Nat) /\ buf \in Seq(Nat)
    BY Zenon DEF TypeOK
  <2>2. got \o buf = field \o rest
    BY <1>1, Zenon
  <2>3. ASSUME NEW a \in Seq(Nat), NEW b \in Seq(Nat), a \o b = field \o rest
        PROVE  a \o (b \o bytes) = field \o (rest \o bytes)
    <3>1. (a \o b) \o bytes = a \o (b \o bytes)
      BY Regroup, ZenonT(60)
    <3>2. (field \o rest) \o bytes = field \o (rest \o bytes)
      BY Regroup, ZenonT(60)
    <3> QED
      BY <2>3, <3>1, <3>2, Zenon
  <2> QED
    BY <2>1, <2>2, <2>3, Zenon
<1>3. HAVE buf' = buf \o bytes /\ UNCHANGED reader
<1>4. InField(p, field)'
  BY <1>1, <1>3, Zenon DEF InField, reader
<1>5. (got \o buf)' = field \o (rest \o bytes)
  BY <1>2, <1>3, Zenon DEF reader
<1> QED
  BY <1>4, <1>5, Zenon DEF Reading

(* Bytes that are not a packet come after the packets written before.       *)
LEMMA BrokenWrite ==
  ASSUME TypeOK, Follows, NEW bytes \in Seq(Nat), Transmit(bytes),
         UNCHANGED <<transport, sent, reader>>, intact' = FALSE
  PROVE  Follows'
<1> DEFINE r == Len(received) + 1
<1>0. UNCHANGED <<phase, got, fh, received>>
  BY Zenon DEF reader
<1>1. PICK q \in [1 .. Len(sent) -> Packets] :
        Written(q) /\ (Len(received) < Len(sent) => Pending(q))
  BY Zenon DEF Follows
<1>2. Written(q)'
  BY <1>1, Zenon DEF Written
<1>3. ASSUME Len(received) < Len(sent) PROVE Pending(q)'
  <2>1. r \in 1 .. Len(sent)
    BY <1>3, LenProperties DEF TypeOK
  <2>2. q[r] \in Packets
    BY <2>1, Zenon
  <2>3. CASE transport = "stream"
    <3>1. PICK t \in [Nat -> Seq(Nat)] :
            /\ Reading(q[r], t[r])
            /\ \A j \in Len(received) + 2 .. Len(sent) : t[j - 1] = Encoded(q[j]) \o t[j]
      BY <1>1, <1>3, <2>3, Zenon DEF Pending, OnStream
    <3> DEFINE u == [j \in Nat |-> t[j] \o bytes]
    <3>2. u \in [Nat -> Seq(Nat)]
      <4>1. \A j \in Nat : t[j] \o bytes \in Seq(Nat)
        BY ConcatProperties, Zenon
      <4> QED
        BY <4>1, Zenon
    <3>3. Reading(q[r], u[r])'
      <4> DEFINE p == q[r]
                 rest == t[r]
      <4>1. r \in Nat
        BY <2>1
      <4>2. rest \in Seq(Nat) /\ u[r] = rest \o bytes /\ p \in Packets
        BY <2>2, <4>1, Zenon
      <4>3. buf' = buf \o bytes
        BY <2>3, Zenon DEF Transmit
      <4>4. Reading(p, rest)
        BY <3>1, Zenon
      <4>5. r' = r
        BY <1>0, Zenon
      <4> HIDE DEF r, u
      <4>6. ASSUME NEW x \in Packets, NEW y \in Seq(Nat), Reading(x, y) PROVE Reading(x, y \o bytes)'
        BY <4>3, <4>6, ReadingGrows, Zenon
      <4>7. (q[r])' = p /\ (u[r])' = rest \o bytes
        BY <4>2, <4>5, Zenon
      <4> QED
        BY <4>2, <4>4, <4>6, <4>7, Zenon
    <3>4. ASSUME NEW j \in Len(received) + 2 .. Len(sent)
          PROVE  u[j - 1] = Encoded(q[j]) \o u[j]
      <4>1. j \in Nat /\ j - 1 \in Nat /\ j \in 1 .. Len(sent)
        BY LenProperties DEF TypeOK
      <4>2. u[j - 1] = t[j - 1] \o bytes /\ u[j] = t[j] \o bytes /\ t[j] \in Seq(Nat)
        BY <4>1, Zenon
      <4>3. Encoded(q[j]) \in Seq(Nat)
        BY <4>1, EncodedFields, Zenon
      <4>4. (Encoded(q[j]) \o t[j]) \o bytes = Encoded(q[j]) \o (t[j] \o bytes)
        BY <4>2, <4>3, Regroup, Zenon
      <4> QED
        BY <3>1, <4>2, <4>4, Zenon
    <3> HIDE DEF u
    <3> QED
      BY <1>0, <2>3, <3>2, <3>3, <3>4, Zenon DEF Pending, OnStream
  <2>4. CASE transport # "stream"
    <3>1. messages' = Append(messages, bytes) /\ buf' = buf
      BY <2>4, Zenon DEF Transmit
    <3>2. ASSUME NEW k \in Nat, Queued(q, k) PROVE Queued(q, k)'
      <4>1. ASSUME NEW j \in k + 1 .. Len(sent)
            PROVE  j - k <= Len(messages') /\ messages'[j - k] = Encoded(q[j])
        <5> DEFINE i == j - k
        <5>1. i <= Len(messages) /\ messages[i] = Encoded(q[j])
          BY <3>2, Zenon DEF Queued
        <5>2. i \in Nat /\ i >= 1
          BY LenProperties DEF TypeOK
        <5> HIDE DEF i
        <5>3. Len(messages) \in Nat /\ messages \in Seq(Seq(Nat))
          BY LenProperties, Zenon DEF TypeOK
        <5>4. i \in 1 .. Len(messages) /\ i <= Len(messages) + 1
          BY <5>1, <5>2, <5>3
        <5>5. Len(messages') = Len(messages) + 1 /\ messages'[i] = messages[i]
          <6> DEFINE S == Seq(Nat)
          <6>1. messages \in Seq(S) /\ bytes \in S
            BY <5>3, Zenon
          <6> HIDE DEF S
          <6>2. /\ Len(Append(messages, bytes)) = Len(messages) + 1
                /\ \A x \in 1 .. Len(messages) : Append(messages, bytes)[x] = messages[x]
            BY <6>1, Appended
          <6> QED
            BY <3>1, <5>4, <6>2, Zenon
        <5>6. i <= Len(messages') /\ messages'[i] = Encoded(q[j])
          BY <5>1, <5>4, <5>5, Zenon
        <5> QED
          BY <5>6, Zenon DEF i
      <4> QED
        BY <4>1, Zenon DEF Queued
    <3>3. Len(received) \in Nat /\ r \in Nat
      BY LenProperties DEF TypeOK
    <3>4. Reading(q[r], <<>>) => Reading(q[r], <<>>)'
      BY <1>0, <3>1, Zenon DEF Reading, InField
    <3> QED
      BY <1>0, <1>1, <1>3, <2>4, <3>1, <3>2, <3>3, <3>4, Zenon DEF Pending, InMessages
  <2> QED
    BY <2>3, <2>4, Zenon
<1> QED
  BY <1>0, <1>1, <1>2, <1>3, Zenon DEF Follows

(* A packet that is written whole, while no write was broken, comes after   *)
(* the packets written before.                                              *)
LEMMA WholeWrite ==
  ASSUME IInv, NEW p \in Packets, Write(p), intact, Fits(p)
  PROVE  Follows'
<1> DEFINE r == Len(received) + 1
           l == Len(sent)
           e == Encoded(p)
<1>0. TypeOK /\ UNCHANGED <<transport, phase, got, fh, received>> /\ Transmit(e) /\ ~closed
  BY Zenon DEF IInv, Write, CanWrite, reader
<1>1. sent' = Append(sent, AsRead(p)) /\ intact'
  BY Zenon DEF Write
<1>2. PICK q \in [1 .. l -> Packets] : Written(q) /\ (Len(received) < l => Pending(q))
  BY Zenon DEF IInv, Follows
<1>3. l \in Nat /\ Len(received) \in Nat /\ Len(received) <= l /\ e \in Seq(Nat)
  BY <1>0, LenProperties, EncodedFields, Zenon DEF IInv, TypeOK
<1>4. Len(sent') = l + 1 /\ sent'[l + 1] = AsRead(p) /\ \A j \in 1 .. l : sent'[j] = sent[j]
  <2>1. sent \in Seq(PacketRead) /\ AsRead(p) \in PacketRead
    BY <1>0, AsReadType, Zenon DEF TypeOK
  <2> QED
    BY <1>1, <2>1, Appended
<1>5. PICK v \in [1 .. l + 1 -> Packets] : v[l + 1] = p /\ \A j \in 1 .. l : v[j] = q[j]
  <2> DEFINE v == [j \in 1 .. l + 1 |-> IF j = l + 1 THEN p ELSE q[j]]
  <2> HIDE DEF l
  <2>1. \A j \in 1 .. l + 1 : (IF j = l + 1 THEN p ELSE q[j]) \in Packets
    BY <1>3
  <2>2. l + 1 \in 1 .. l + 1 /\ \A j \in 1 .. l : j \in 1 .. l + 1 /\ j # l + 1
    BY <1>3
  <2>3. v \in [1 .. l + 1 -> Packets] /\ v[l + 1] = p /\ \A j \in 1 .. l : v[j] = q[j]
    BY <2>1, <2>2, Zenon
  <2> HIDE DEF v
  <2> QED
    BY <2>3, Zenon
<1>6. Written(v)'
  <2>1. ASSUME NEW j \in 1 .. l + 1 PROVE Fits(v[j]) /\ AsRead(v[j]) = sent'[j]
    <3>1. CASE j = l + 1
      BY <1>4, <1>5, <3>1, Zenon
    <3>2. CASE j # l + 1
      <4>1. j \in 1 .. l
        <5> HIDE DEF l
        <5> QED
          BY <1>3, <3>2
      <4> QED
        BY <1>2, <1>4, <1>5, <4>1, Zenon DEF Written
    <3> QED
      BY <3>1, <3>2, Zenon
  <2> QED
    BY <1>4, <2>1, Zenon DEF Written
<1>7. ASSUME transport # "stream", NEW k \in Nat, k <= l, Queued(q, k)
      PROVE  Queued(v, k)'
  <2>1. messages' = Append(messages, e) /\ messages \in Seq(Seq(Nat)) /\ Len(messages) \in Nat
    BY <1>0, <1>7, LenProperties, Zenon DEF Transmit, TypeOK
  <2>2. /\ Len(messages') = Len(messages) + 1 /\ messages'[Len(messages) + 1] = e
        /\ \A i \in 1 .. Len(messages) : messages'[i] = messages[i]
    <3> DEFINE S == Seq(Nat)
    <3>1. messages \in Seq(S) /\ e \in S
      BY <1>3, <2>1, Zenon
    <3> HIDE DEF S, e
    <3>2. /\ Len(Append(messages, e)) = Len(messages) + 1
          /\ Append(messages, e)[Len(messages) + 1] = e
          /\ \A i \in 1 .. Len(messages) : Append(messages, e)[i] = messages[i]
      BY <3>1, Appended
    <3> QED
      BY <2>1, <3>2, Zenon
  <2>3. Len(messages) = l - k
    BY <1>7, Zenon DEF Queued
  <2>4. Len(messages') = (l + 1) - k
    <3> HIDE DEF l
    <3> QED
      BY <1>3, <2>1, <2>2, <2>3
  <2>5. ASSUME NEW j \in k + 1 .. l + 1
        PROVE  j - k <= Len(messages') /\ messages'[j - k] = Encoded(v[j])
    <3>1. CASE j = l + 1
      <4>1. j - k = Len(messages) + 1 /\ j - k <= Len(messages')
        <5> HIDE DEF l
        <5> QED
          BY <1>3, <2>1, <2>2, <2>3, <3>1
      <4> QED
        BY <1>5, <2>2, <3>1, <4>1, Zenon
    <3>2. CASE j # l + 1
      <4>1. j \in k + 1 .. l /\ j \in 1 .. l /\ j - k \in 1 .. Len(messages) /\ j - k <= Len(messages')
        <5> HIDE DEF l
        <5> QED
          BY <1>3, <2>1, <2>3, <2>4, <3>2
      <4>2. messages[j - k] = Encoded(q[j])
        BY <1>7, <4>1, Zenon DEF Queued
      <4> QED
        BY <1>5, <2>2, <4>1, <4>2, Zenon
    <3> QED
      BY <3>1, <3>2, Zenon
  <2> QED
    BY <1>4, <2>4, <2>5, Zenon DEF Queued
<1>8. ASSUME Len(received) = l PROVE Pending(v)'
  <2>1. buf = <<>> /\ messages = <<>> /\ got = <<>> /\ phase = "type"
    BY <1>0, <1>8, Zenon DEF IInv, Drained
  <2>2. r = l + 1 /\ v[r] = p
    BY <1>5, <1>8, Zenon
  <2>3. CASE transport = "stream"
    <3> DEFINE t == [j \in Nat |-> <<>>]
    <3>1. t \in [Nat -> Seq(Nat)] /\ t[r] = <<>> /\ t[l + 1] = <<>>
      <4>1. r \in Nat /\ l + 1 \in Nat /\ <<>> \in Seq(Nat)
        BY <1>3
      <4> QED
        BY <4>1, Zenon
    <3>2. buf' = e
      BY <1>0, <1>3, <2>1, <2>3, ConcatEmptySeq, Zenon DEF Transmit
    <3>3. (got \o buf)' = e \o <<>>
      BY <1>0, <1>3, <2>1, <3>2, ConcatEmptySeq, Zenon
    <3>4. Reading(p, <<>>)'
      BY <1>0, <1>3, <2>1, <3>3, Zenon DEF Reading, InField
    <3>5. \A j \in Len(received) + 2 .. l + 1 : FALSE
      BY <1>3, <1>8
    <3> HIDE DEF t
    <3>6. Reading(v[r], t[r])'
      BY <1>0, <2>2, <3>1, <3>4, Zenon
    <3> QED
      BY <1>0, <1>4, <2>3, <3>1, <3>5, <3>6, Zenon DEF Pending, OnStream
  <2>4. CASE transport # "stream"
    <3>1. Queued(q, Len(received))
      <4>1. Len(<<>>) = l - Len(received) /\ \A j \in Len(received) + 1 .. l : FALSE
        BY <1>3, <1>8
      <4> QED
        BY <2>1, <4>1, Zenon DEF Queued
    <3>2. Queued(v, Len(received))'
      BY <1>0, <1>3, <1>7, <2>4, <3>1, Zenon
    <3>3. buf' = buf
      BY <1>0, <2>4, Zenon DEF Transmit
    <3> QED
      BY <1>0, <2>1, <2>4, <3>2, <3>3, Zenon DEF Pending, InMessages
  <2> QED
    BY <2>3, <2>4, Zenon
<1>9. ASSUME Len(received) < l PROVE Pending(v)'
  <2>1. r \in Nat /\ r \in 1 .. l /\ r <= l
    BY <1>3, <1>9
  <2>2. v[r] = q[r] /\ q[r] \in Packets
    BY <1>5, <2>1, Zenon
  <2>3. CASE transport = "stream"
    <3>1. PICK t \in [Nat -> Seq(Nat)] :
            /\ Reading(q[r], t[r])
            /\ \A j \in Len(received) + 2 .. l : t[j - 1] = Encoded(q[j]) \o t[j]
            /\ t[l] = <<>>
      BY <1>2, <1>9, <2>3, Zenon DEF Pending, OnStream
    <3>2. PICK u \in [Nat -> Seq(Nat)] : u[l + 1] = <<>> /\ \A j \in Nat : j <= l => u[j] = t[j] \o e
      <4> DEFINE u == [j \in Nat |-> IF j <= l THEN t[j] \o e ELSE <<>>]
      <4>1. \A j \in Nat : t[j] \o e \in Seq(Nat)
        BY <1>3, ConcatProperties, Zenon
      <4> HIDE DEF l, e
      <4>2. <<>> \in Seq(Nat) /\ l + 1 \in Nat /\ ~(l + 1 <= l)
        BY <1>3
      <4>3. u \in [Nat -> Seq(Nat)] /\ u[l + 1] = <<>> /\ \A j \in Nat : j <= l => u[j] = t[j] \o e
        BY <4>1, <4>2, Zenon
      <4> HIDE DEF u
      <4> QED
        BY <4>3, Zenon
    <3>3. Reading(v[r], u[r])'
      <4> DEFINE x == q[r]
                 rest == t[r]
      <4>1. rest \in Seq(Nat) /\ u[r] = rest \o e /\ x \in Packets /\ Reading(x, rest) /\ v[r] = x
        BY <2>1, <2>2, <3>1, <3>2, Zenon
      <4>2. buf' = buf \o e /\ UNCHANGED reader
        BY <1>0, <2>3, Zenon DEF Transmit, reader
      <4>3. r' = r
        BY <1>0, Zenon
      <4> HIDE DEF r, e
      <4>4. ASSUME NEW a \in Packets, NEW y \in Seq(Nat), Reading(a, y) PROVE Reading(a, y \o Encoded(p))'
        BY <1>0, <1>3, <4>2, <4>4, ReadingGrows, Zenon DEF e
      <4>5. (v[r])' = x /\ (u[r])' = rest \o Encoded(p)
        BY <4>1, <4>3, Zenon DEF e
      <4> QED
        BY <4>1, <4>4, <4>5, Zenon
    <3>4. ASSUME NEW j \in Len(received) + 2 .. l + 1
          PROVE  u[j - 1] = Encoded(v[j]) \o u[j]
      <4>1. j \in Nat /\ j - 1 \in Nat /\ j - 1 <= l /\ (j <= l => j \in 1 .. l)
        BY <1>3
      <4>2. CASE j = l + 1
        <5>1. j - 1 = l
          BY <1>3, <4>2
        <5>2. u[l] = <<>> \o e
          BY <3>1, <3>2, <4>1, <5>1, Zenon
        <5>3. <<>> \o e = e /\ e \o <<>> = e
          BY <1>3, ConcatEmptySeq, Zenon
        <5> QED
          BY <1>5, <3>2, <4>2, <5>1, <5>2, <5>3, Zenon
      <4>3. CASE j # l + 1
        <5>1. j <= l /\ j \in 1 .. l /\ j \in Len(received) + 2 .. l
          <6> HIDE DEF l
          <6> QED
            BY <1>3, <4>3
        <5>2. u[j - 1] = t[j - 1] \o e /\ u[j] = t[j] \o e /\ t[j] \in Seq(Nat) /\ v[j] = q[j]
          BY <1>5, <3>2, <4>1, <5>1, Zenon
        <5>3. Encoded(q[j]) \in Seq(Nat)
          BY <5>1, EncodedFields, Zenon
        <5>4. (Encoded(q[j]) \o t[j]) \o e = Encoded(q[j]) \o (t[j] \o e)
          BY <1>3, <5>2, <5>3, Regroup, Zenon
        <5>5. t[j - 1] = Encoded(q[j]) \o t[j]
          BY <3>1, <5>1, Zenon
        <5> QED
          BY <5>2, <5>4, <5>5, Zenon
      <4> QED
        BY <4>2, <4>3, Zenon
    <3> QED
      BY <1>0, <1>4, <2>3, <3>2, <3>3, <3>4, Zenon DEF Pending, OnStream
  <2>4. CASE transport # "stream"
    <3>1. buf' = buf
      BY <1>0, <2>4, Zenon DEF Transmit
    <3>2. ASSUME NEW k \in Nat, k <= l, Queued(q, k) PROVE Queued(v, k)'
      BY <1>7, <2>4, <3>2, Zenon
    <3>3. InMessages(q)
      BY <1>2, <1>9, <2>4, Zenon DEF Pending
    <3>4. CASE phase = "type" /\ got = <<>> /\ buf = <<>> /\ Queued(q, Len(received))
      <4>1. Queued(v, Len(received))'
        BY <1>0, <1>3, <3>2, <3>4, Zenon
      <4> QED
        BY <1>0, <2>4, <3>1, <3>4, <4>1, Zenon DEF Pending, InMessages
    <3>5. CASE Reading(q[r], <<>>) /\ Queued(q, r)
      <4>1. Reading(v[r], <<>>)'
        <5>1. Reading(q[r], <<>>)'
          BY <1>0, <3>1, <3>5, Zenon DEF Reading, InField
        <5> QED
          BY <1>0, <2>2, <5>1, Zenon
      <4>2. Queued(v, r)'
        BY <1>0, <2>1, <3>2, <3>5, Zenon
      <4> QED
        BY <1>0, <2>4, <4>1, <4>2, Zenon DEF Pending, InMessages
    <3> QED
      BY <3>3, <3>4, <3>5, Zenon DEF InMessages
  <2> QED
    BY <2>3, <2>4, Zenon
<1>10. Pending(v)'
  <2>1. Len(received) = l \/ Len(received) < l
    <3> HIDE DEF l
    <3> QED
      BY <1>3
  <2> QED
    BY <1>8, <1>9, <2>1, Zenon
<1> QED
  BY <1>4, <1>5, <1>6, <1>10, Zenon DEF Follows

(* The packet that ends is the next one that was written; then comes the    *)
(* one after it, or nothing.                                                *)
LEMMA PacketEnds ==
  ASSUME IInv, ReadsBody, Len(received) < Len(sent)
  PROVE  /\ received' = Append(received, sent[Len(received) + 1])
         /\ phase' = "type" /\ got' = <<>> /\ UNCHANGED <<transport, buf, writer>>
         /\ Follows'
         /\ intact /\ Len(received) + 1 = Len(sent) => buf = <<>> /\ messages = <<>>
<1> DEFINE r == Len(received) + 1
           l == Len(sent)
<1>1. /\ TypeOK /\ phase = "body" /\ ~Wants /\ UNCHANGED <<transport, buf, writer>>
      /\ transport = "stream" => messages = <<>>
  BY Zenon DEF IInv, ReadsBody
<1>2. Len(got) <= Need
  <2>1. phase # "failed"
    BY <1>1, Zenon
  <2> QED
    BY <2>1, Zenon DEF IInv
<1>3. /\ l \in Nat /\ Len(received) \in Nat /\ r \in 1 .. l /\ r \in Nat
      /\ r < l => r + 1 \in r + 1 .. l /\ r + 1 \in Len(received) + 2 .. l /\ r + 1 \in 1 .. l
      /\ r + 1 \in Nat /\ (r + 1) - 1 = r
      /\ \A j \in r + 2 .. l : j \in Len(received) + 2 .. l
  <2> DEFINE n == Len(received)
  <2>1. l \in Nat /\ n \in Nat /\ n < l /\ r = n + 1
    BY <1>1, LenProperties, Zenon DEF TypeOK
  <2> HIDE DEF l, n, r
  <2>2. /\ r \in 1 .. l /\ r \in Nat /\ r + 1 \in Nat /\ (r + 1) - 1 = r
        /\ r < l => r + 1 \in r + 1 .. l /\ r + 1 \in n + 2 .. l /\ r + 1 \in 1 .. l
        /\ \A j \in r + 2 .. l : j \in n + 2 .. l
    BY <2>1
  <2> QED
    BY <2>1, <2>2, Zenon DEF n
<1>4. PICK q \in [1 .. l -> Packets] : Written(q) /\ Pending(q)
  BY Zenon DEF IInv, Follows
<1>5. q[r] \in Packets /\ AsRead(q[r]) = sent[r]
  BY <1>4, <1>3, Zenon DEF Written
<1>6. ASSUME NEW rest \in Seq(Nat), Reading(q[r], rest)
      PROVE  /\ buf = rest /\ received' = Append(received, sent[r])
             /\ phase' = "type" /\ got' = <<>>
  <2> DEFINE p == q[r]
  <2>1. p \in Packets /\ Reading(p, rest) /\ AsRead(p) = sent[r]
    BY <1>5, <1>6, Zenon
  <2> HIDE DEF p
  <2>2. got = Body(p) /\ buf = rest /\ fh.type = p.type
    BY <1>1, <1>2, <2>1, BodyRead, Zenon
  <2>3. Unpackable(fh.type, got) /\ Unpack(fh.type, got) = sent[r]
    BY <2>1, <2>2, BodyUnpacks, Zenon
  <2> QED
    BY <2>2, <2>3, Zenon DEF ReadsBody
<1>7. ASSUME received' = Append(received, sent[r]) PROVE Len(received') = r
  <2>1. received \in Seq(PacketRead) /\ sent[r] \in PacketRead
    BY <1>1, <1>3, ElementOfSeq, Zenon DEF TypeOK
  <2> QED
    BY <1>7, <2>1, Appended, Zenon
<1>8. sent' = sent /\ intact' = intact /\ messages' = messages
  BY <1>1, Zenon DEF writer
<1>9. Written(q)'
  BY <1>4, <1>8, Zenon DEF Written
<1>10. CASE transport = "stream"
  <2>1. PICK t \in [Nat -> Seq(Nat)] :
          /\ Reading(q[r], t[r])
          /\ \A j \in Len(received) + 2 .. l : t[j - 1] = Encoded(q[j]) \o t[j]
          /\ intact => t[l] = <<>>
    BY <1>4, <1>10, Zenon DEF Pending, OnStream
  <2>2. t[r] \in Seq(Nat)
    BY <1>3, Zenon
  <2>3. buf = t[r] /\ received' = Append(received, sent[r]) /\ phase' = "type" /\ got' = <<>>
    BY <1>6, <2>1, <2>2, Zenon
  <2>4. Len(received') = r
    BY <1>7, <2>3, Zenon
  <2>5. ASSUME r < l PROVE Pending(q)'
    <3>1. r + 1 \in Len(received) + 2 .. l /\ (r + 1) - 1 = r /\ r + 1 \in 1 .. l /\ r + 1 \in Nat
      BY <1>3, <2>5, Zenon
    <3>2. t[r] = Encoded(q[r + 1]) \o t[r + 1] /\ q[r + 1] \in Packets /\ t[r + 1] \in Seq(Nat)
      BY <2>1, <3>1, Zenon
    <3>3. PICK a \in Packets, rest \in Seq(Nat) : a = q[r + 1] /\ rest = t[r + 1]
      BY <3>2, Zenon
    <3>4. Encoded(a) \in Seq(Nat)
      BY EncodedFields, Zenon
    <3>5. (got \o buf)' = Encoded(a) \o rest
      <4>1. <<>> \o t[r] = t[r]
        BY <2>2, ConcatEmptySeq, Zenon
      <4> QED
        BY <1>1, <2>3, <3>2, <3>3, <4>1, Zenon
    <3>6. Reading(q[Len(received) + 1], t[Len(received) + 1])'
      <4>1. InField(a, Encoded(a))'
        BY <2>3, Zenon DEF InField
      <4>2. Reading(a, rest)'
        BY <3>4, <3>5, <4>1, Zenon DEF Reading
      <4> QED
        BY <2>4, <3>3, <4>2, Zenon
    <3>7. \A j \in Len(received') + 2 .. l : t[j - 1] = Encoded(q[j]) \o t[j]
      BY <1>3, <2>1, <2>4, Zenon
    <3> QED
      BY <1>1, <1>8, <1>10, <2>1, <3>6, <3>7, Zenon DEF Pending, OnStream
  <2>6. Follows'
    BY <1>8, <1>9, <2>4, <2>5, Zenon DEF Follows
  <2> QED
    BY <1>1, <2>1, <2>3, <2>6, <1>10, Zenon
<1>11. CASE transport # "stream"
  <2>1. Reading(q[r], <<>>) /\ Queued(q, r)
    <3>1. phase # "type"
      BY <1>1, Zenon
    <3> QED
      BY <1>4, <1>11, <3>1, Zenon DEF Pending, InMessages
  <2>2. <<>> \in Seq(Nat)
    OBVIOUS
  <2>3. buf = <<>> /\ received' = Append(received, sent[r]) /\ phase' = "type" /\ got' = <<>>
    BY <1>6, <2>1, <2>2, Zenon
  <2>4. Len(received') = r
    BY <1>7, <2>3, Zenon
  <2>5. Queued(q, Len(received))'
    BY <1>8, <2>1, <2>4, Zenon DEF Queued
  <2>6. Pending(q)'
    BY <1>1, <1>11, <2>3, <2>5, Zenon DEF Pending, InMessages
  <2>7. Follows'
    BY <1>8, <1>9, <2>6, Zenon DEF Follows
  <2>8. ASSUME intact, r = l PROVE messages = <<>>
    <3>1. Len(messages) = l - r
      BY <2>1, <2>8, Zenon DEF Queued
    <3>2. l - r = 0
      <4> HIDE DEF l
      <4> QED
        BY <1>3, <2>8
    <3>3. messages \in Seq(Seq(Nat))
      BY <1>1, Zenon DEF TypeOK
    <3> QED
      BY <3>1, <3>2, <3>3, EmptySeq, Zenon
  <2> QED
    BY <1>1, <2>3, <2>7, <2>8, Zenon
<1> QED
  BY <1>10, <1>11, Zenon

(* The next WebSocket message is the next packet.                           *)
LEMMA NextMessage ==
  ASSUME TypeOK, Follows, transport # "stream", Receive
  PROVE  Follows'
<1> DEFINE n == Len(received)
           l == Len(sent)
<1>1. /\ Wants /\ buf = <<>> /\ messages # <<>>
      /\ buf' = Head(messages) /\ messages' = Tail(messages)
      /\ UNCHANGED <<transport, sent, intact, phase, got, fh, received>>
  BY Zenon DEF Receive, reader
<1>2. n \in Nat /\ l \in Nat /\ messages \in Seq(Seq(Nat)) /\ Len(messages) \in Nat
  BY LenProperties, Zenon DEF TypeOK
<1>3. /\ Len(messages') = Len(messages) - 1 /\ buf' = messages[1]
      /\ \A i \in 1 .. Len(messages) - 1 : messages'[i] = messages[i + 1]
  BY <1>1, <1>2, HeadTailProperties
<1>4. PICK q \in [1 .. l -> Packets] : Written(q) /\ (n < l => Pending(q))
  BY Zenon DEF Follows
<1>5. Written(q)'
  BY <1>1, <1>4, Zenon DEF Written
<1>6. ASSUME n < l PROVE Pending(q)'
  <2>1. /\ n + 1 \in 1 .. l /\ n + 1 \in n + 1 .. l /\ (n + 1) - n = 1
    <3> HIDE DEF n, l
    <3> QED
      BY <1>2, <1>6
  <2>2. PICK p \in Packets : p = q[n + 1]
    BY <2>1, Zenon
  <2>3. <<>> \in Seq(Nat)
    OBVIOUS
  <2>4. ~Reading(p, <<>>)
    BY <1>1, <2>3, ReadingNotShort, Zenon
  <2>5. phase = "type" /\ got = <<>> /\ Queued(q, n)
    BY <1>4, <1>6, <2>2, <2>4, Zenon DEF Pending, InMessages
  <2>6. 1 <= Len(messages) /\ messages[1] = Encoded(p)
    BY <2>1, <2>2, <2>5, Zenon DEF Queued
  <2>7. Reading(p, <<>>)'
    <3>1. Encoded(p) \in Seq(Nat)
      BY EncodedFields, Zenon
    <3>2. (got \o buf)' = Encoded(p) \o <<>>
      BY <1>1, <1>3, <2>5, <2>6, <3>1, ConcatEmptySeq, Zenon
    <3>3. InField(p, Encoded(p))'
      BY <1>1, <2>5, Zenon DEF InField
    <3> QED
      BY <3>1, <3>2, <3>3, Zenon DEF Reading
  <2>8. Queued(q, n + 1)'
    <3>1. ASSUME NEW j \in (n + 1) + 1 .. l
          PROVE  j - (n + 1) <= Len(messages') /\ messages'[j - (n + 1)] = Encoded(q[j])
      <4>1. j \in n + 1 .. l
        <5> HIDE DEF n, l
        <5> QED
          BY <1>2
      <4>2. j - n <= Len(messages) /\ messages[j - n] = Encoded(q[j])
        BY <2>5, <4>1, Zenon DEF Queued
      <4> DEFINE k == Len(messages)
                 i == j - (n + 1)
      <4>3. i \in 1 .. k - 1 /\ i <= k - 1 /\ i + 1 = j - n
        <5> HIDE DEF n, l, k
        <5>1. j - n <= k /\ k \in Nat
          BY <1>2, <4>2, Zenon DEF k
        <5> QED
          BY <1>2, <5>1
      <4> QED
        BY <1>3, <4>2, <4>3, Zenon
    <3>2. ASSUME intact PROVE Len(messages') = l - (n + 1)
      <4> DEFINE k == Len(messages)
      <4>1. k = l - n /\ k \in Nat /\ Len(messages') = k - 1
        BY <1>2, <1>3, <2>5, <3>2, Zenon DEF Queued
      <4>2. k - 1 = l - (n + 1)
        <5> HIDE DEF n, l, k
        <5> QED
          BY <1>2, <4>1
      <4> QED
        BY <4>1, <4>2, Zenon
    <3> QED
      BY <1>1, <3>1, <3>2, Zenon DEF Queued
  <2> QED
    BY <1>1, <2>2, <2>7, <2>8, Zenon DEF Pending, InMessages
<1> QED
  BY <1>1, <1>4, <1>5, <1>6, Zenon DEF Follows

(* Nothing is claimed of what is read when all that was sent has been.      *)
LEMMA NothingPending ==
  ASSUME Follows, UNCHANGED sent, ~(Len(received') < Len(sent))
  PROVE  Follows'
  BY Zenon DEF Follows, Written

(* Follows says nothing of the counter of writes and of the end.            *)
LEMMA FollowsKept ==
  ASSUME Follows,
         UNCHANGED <<transport, buf, messages, sent, intact, phase, got, fh, received>>
  PROVE  Follows'
<1>1. PICK q \in [1 .. Len(sent) -> Packets] :
        Written(q) /\ (Len(received) < Len(sent) => Pending(q))
  BY Zenon DEF Follows
<1>2. \A p, rest : Reading(p, rest) => Reading(p, rest)'
  BY Zenon DEF Reading, InField
<1>3. OnStream(q) => OnStream(q)'
  BY <1>2, Zenon DEF OnStream
<1>4. InMessages(q) => InMessages(q)'
  BY <1>2, Zenon DEF InMessages, Queued
<1>5. Pending(q) => Pending(q)'
  BY <1>3, <1>4, Zenon DEF Pending
<1>6. Written(q)'
  BY <1>1, Zenon DEF Written
<1> QED
  BY <1>1, <1>5, <1>6, Zenon DEF Follows

(* The end of the connection is not met within a packet that was sent.      *)
LEMMA EndNotWithin ==
  ASSUME TypeOK, Follows, ReadEnds
  PROVE  ~(Len(received) < Len(sent))
<1> DEFINE n == Len(received)
           l == Len(sent)
<1> SUFFICES ASSUME n < l PROVE FALSE
  BY Zenon
<1>1. Wants /\ buf = <<>> /\ messages = <<>>
  BY Zenon DEF ReadEnds
<1>2. n \in Nat /\ l \in Nat
  BY LenProperties, Zenon DEF TypeOK
<1>3. PICK q \in [1 .. l -> Packets] : Pending(q)
  BY Zenon DEF Follows
<1>4. n + 1 \in Nat /\ n + 1 \in 1 .. l /\ n + 1 \in n + 1 .. l /\ (n + 1) - n = 1
  <2>1. n < l
    BY Zenon
  <2> HIDE DEF n, l
  <2> QED
    BY <1>2, <2>1
<1>5. q[n + 1] \in Packets
  BY <1>4, Zenon
<1>6. \A rest \in Seq(Nat) : ~Reading(q[n + 1], rest)
  BY <1>1, <1>5, ReadingNotShort, Zenon
<1>7. CASE transport = "stream"
  BY <1>3, <1>4, <1>6, <1>7, Zenon DEF Pending, OnStream
<1>8. CASE transport # "stream"
  <2>1. <<>> \in Seq(Nat) /\ ~(1 <= Len(<<>>))
    OBVIOUS
  <2>2. Queued(q, n)
    BY <1>3, <1>6, <1>8, <2>1, Zenon DEF Pending, InMessages
  <2> QED
    BY <1>1, <1>4, <2>1, <2>2, Zenon DEF Queued
<1> QED
  BY <1>7, <1>8, Zenon

-----------------------------------------------------------------------------
(* The invariant holds at first and is kept by every step.                  *)
LEMMA InvInit ==
  ASSUME Init
  PROVE  IInv
<1>1. TypeOK /\ Len(<<>>) = 0
  <2>1. /\ <<>> \in Seq(Nat) /\ <<>> \in Seq(Seq(Nat)) /\ <<>> \in Seq(PacketRead)
        /\ Len(<<>>) = 0 /\ "type" \in {"type", "length", "body", "failed"}
    BY EmptySeq, Zenon
  <2>2. NoHeader \in [type : Nat, length : Nat, digits : Nat]
    BY Zenon DEF NoHeader
  <2> QED
    BY <2>1, <2>2, Zenon DEF Init, TypeOK
<1>2. Len(received) = 0 /\ Len(sent) = 0 /\ Len(got) = 0 /\ 0 <= Need /\ 0 <= 0 /\ ~(0 < 0)
  BY <1>1 DEF Init, Need
<1>3. Follows
  <2> DEFINE q == [j \in 1 .. 0 |-> CHOOSE p \in Packets : TRUE]
  <2>1. \A j \in 1 .. 0 : FALSE
    OBVIOUS
  <2>2. q \in [1 .. 0 -> Packets]
    BY <2>1, Zenon
  <2> HIDE DEF q
  <2> QED
    BY <1>2, <2>1, <2>2, Zenon DEF Follows, Written
<1> QED
  <2>1. Len(received) <= Len(sent) /\ Len(got) <= Need
    BY <1>2, Zenon
  <2> QED
    BY <1>1, <1>3, <2>1, Zenon DEF Init, IInv, Drained

(* No write, no delivery and no step of ReadPacket breaks the invariant.    *)
LEMMA InvStep ==
  ASSUME IInv, [Next]_vars
  PROVE  IInv'
<1> DEFINE n == Len(received)
           l == Len(sent)
<1>1. /\ TypeOK /\ Follows /\ n \in Nat /\ l \in Nat
      /\ intact => n <= l
      /\ transport = "stream" => messages = <<>>
      /\ phase # "failed" => Len(got) <= Need
      /\ intact /\ n = l => Drained
  BY LenProperties, Zenon DEF IInv, TypeOK
<1>2. TypeOK'
  BY <1>1, TypeStep, Zenon
<1>3. ASSUME NEW bytes \in Seq(Nat), Transmit(bytes), UNCHANGED <<transport, sent, reader>>, intact' = FALSE
      PROVE  IInv'
  <2>1. Follows'
    BY <1>1, <1>3, BrokenWrite, Zenon
  <2>2. UNCHANGED <<phase, got, fh, received>>
    BY <1>3, Zenon DEF reader
  <2>3. Need' = Need
    BY <2>2, Zenon DEF Need
  <2>4. transport' = "stream" => messages' = <<>>
    BY <1>1, <1>3, Zenon DEF Transmit
  <2> QED
    BY <1>1, <1>2, <1>3, <2>1, <2>2, <2>3, <2>4, Zenon DEF IInv
<1>4. ASSUME NEW p \in Packets, Write(p) PROVE IInv'
  <2>1. CASE intact /\ Fits(p)
    <3>1. Follows'
      BY <1>4, <2>1, WholeWrite, Zenon
    <3>2. /\ UNCHANGED <<transport, phase, got, fh, received>> /\ Transmit(Encoded(p))
          /\ sent' = Append(sent, AsRead(p))
      BY <1>4, <2>1, Zenon DEF Write, reader
    <3>3. Len(sent') = l + 1
      <4>1. sent \in Seq(PacketRead) /\ AsRead(p) \in PacketRead
        BY <1>1, AsReadType, Zenon DEF TypeOK
      <4> QED
        BY <3>2, <4>1, Appended, Zenon
    <3>4. n <= l + 1 /\ n # l + 1
      <4> HIDE DEF n, l
      <4> QED
        BY <1>1, <2>1
    <3>5. Need' = Need
      BY <3>2, Zenon DEF Need
    <3>6. transport' = "stream" => messages' = <<>>
      BY <1>1, <3>2, Zenon DEF Transmit
    <3> QED
      BY <1>1, <1>2, <3>1, <3>2, <3>3, <3>4, <3>5, <3>6, Zenon DEF IInv
  <2>2. CASE ~(intact /\ Fits(p))
    <3>1. Encoded(p) \in Seq(Nat)
      BY EncodedFields, Zenon
    <3>2. Transmit(Encoded(p)) /\ UNCHANGED <<transport, sent, reader>> /\ intact' = FALSE
      BY <1>1, <1>4, <2>2, Zenon DEF Write, TypeOK
    <3> QED
      BY <1>3, <3>1, <3>2, Zenon
  <2> QED
    BY <2>1, <2>2, Zenon
<1>5. ASSUME NEW p \in Packets, NEW i \in {1, Len(Encoded(p)) - 1}, WriteCut(p, i) PROVE IInv'
  <2>1. i \in 0 .. Len(Encoded(p))
    <3> DEFINE k == Len(Encoded(p))
    <3>1. k \in Nat \ {0}
      BY EncodedFields, Zenon
    <3> HIDE DEF k
    <3>2. i \in {1, k - 1}
      BY Zenon DEF k
    <3>3. i \in 0 .. k
      BY <3>1, <3>2
    <3> QED
      BY <3>3, Zenon DEF k
  <2>2. Take(Encoded(p), i) \in Seq(Nat)
    BY <2>1, EncodedFields, TakeAndDrop, Zenon
  <2>3. Transmit(Take(Encoded(p), i)) /\ UNCHANGED <<transport, sent, reader>> /\ intact' = FALSE
    BY <1>5, Zenon DEF WriteCut
  <2> QED
    BY <1>3, <2>2, <2>3, Zenon
<1>6. CASE Close
  <2>1. UNCHANGED <<transport, buf, messages, sent, intact, phase, got, fh, received>> /\ closed' = TRUE
    BY <1>6, Zenon DEF Close, reader
  <2>2. Follows'
    BY <1>1, <2>1, FollowsKept, Zenon
  <2>3. Drained => Drained'
    BY <2>1, Zenon DEF Drained
  <2>4. Need' = Need
    BY <2>1, Zenon DEF Need
  <2> QED
    BY <1>1, <1>2, <2>1, <2>2, <2>3, <2>4, Zenon DEF IInv
<1>7. CASE Receive
  <2>1. /\ messages # <<>> /\ UNCHANGED <<transport, sent, intact, phase, got, fh, received>>
    BY <1>7, Zenon DEF Receive, reader
  <2>2. transport # "stream"
    BY <1>1, <2>1, Zenon
  <2>3. Follows'
    BY <1>1, <1>7, <2>2, NextMessage, Zenon
  <2>4. ~(intact /\ n = l)
    BY <1>1, <2>1, Zenon DEF Drained
  <2>5. Need' = Need
    BY <2>1, Zenon DEF Need
  <2> QED
    BY <1>1, <1>2, <2>1, <2>2, <2>3, <2>4, <2>5, Zenon DEF IInv
<1>8. CASE Reads
  <2>1. buf # <<>>
    BY <1>8, Zenon DEF Reads
  <2>2. PICK i \in 1 .. Len(buf) : Len(got) + i <= Need /\ Read(i)
    BY <1>1, <1>8, ReadsSome, Zenon
  <2>3. i \in 0 .. Len(buf)
    OBVIOUS
  <2>4. UNCHANGED <<transport, sent, received, intact, messages, phase, fh>> /\ got' = got \o Take(buf, i)
    BY <2>2, Zenon DEF Read, writer
  <2>5. Follows'
    BY <1>1, <2>1, <2>2, <2>3, <2>4, ReadMoves, WithinPacket, Zenon
  <2>6. Len(got') <= Need'
    <3>1. Need' = Need
      BY <2>4, Zenon DEF Need
    <3>2. Take(buf, i) \in Seq(Nat) /\ Len(Take(buf, i)) = i /\ got \in Seq(Nat)
      BY <1>1, <2>3, TakeAndDrop, Zenon DEF TypeOK
    <3>3. Len(got') = Len(got) + i
      BY <2>4, <3>2, ConcatProperties, Zenon
    <3> QED
      BY <2>2, <3>1, <3>3, Zenon
  <2>7. ~(intact /\ n = l)
    BY <1>1, <2>1, Zenon DEF Drained
  <2> QED
    BY <1>1, <1>2, <2>4, <2>5, <2>6, <2>7, Zenon DEF IInv
<1>9. CASE ReadEnds
  <2>1. /\ phase' = "failed" /\ closed /\ buf = <<>> /\ messages = <<>>
        /\ UNCHANGED <<transport, buf, messages, closed, sent, intact, got, fh, received>>
    BY <1>9, Zenon DEF ReadEnds, Fail, writer
  <2>2. Follows'
    BY <1>1, <1>9, <2>1, EndNotWithin, NothingPending, Zenon
  <2>3. Drained => Drained'
    BY <2>1, Zenon DEF Drained
  <2> QED
    BY <1>1, <1>2, <2>1, <2>2, <2>3, Zenon DEF IInv
<1>10. ASSUME phase \in {"type", "length"}, ~Wants,
              UNCHANGED <<transport, sent, received, intact, messages>>,
              phase' = "failed" \/ (got' = <<>> /\ phase' \in {"length", "body"}),
              \A p \in Packets : \A rest \in Seq(Nat) : Fits(p) /\ Reading(p, rest) => Reading(p, rest)'
       PROVE  IInv'
  <2>1. got # <<>>
    <3>1. phase # "failed" /\ Need = 1 /\ Len(<<>>) < 1
      BY <1>10 DEF Need
    <3> QED
      BY <1>10, <3>1, Zenon DEF Wants
  <2>2. Follows'
    BY <1>1, <1>10, <2>1, WithinPacket, Zenon
  <2>3. ~(intact /\ n = l)
    BY <1>1, <2>1, Zenon DEF Drained
  <2>4. phase' # "failed" => Len(got') <= Need'
    <3>1. Len(<<>>) <= Need'
      BY <1>2 DEF TypeOK, Need
    <3> QED
      BY <1>10, <3>1, Zenon
  <2> QED
    BY <1>1, <1>2, <1>10, <2>2, <2>3, <2>4, Zenon DEF IInv
<1>11. CASE ReadsType
  <2>1. /\ phase = "type" /\ ~Wants /\ UNCHANGED <<transport, sent, received, intact, messages>>
        /\ phase' = "failed" \/ (got' = <<>> /\ phase' = "length")
    BY <1>11, Zenon DEF ReadsType, Fail, writer
  <2>2. phase # "failed" /\ phase \in {"type", "length"}
        /\ (phase' = "failed" \/ (got' = <<>> /\ phase' \in {"length", "body"}))
    BY <2>1, Zenon
  <2>3. \A p \in Packets : \A rest \in Seq(Nat) : Reading(p, rest) => Reading(p, rest)'
    BY <1>1, <1>11, <2>2, TypeRead, Zenon
  <2> QED
    BY <1>10, <2>1, <2>2, <2>3, Zenon
<1>12. CASE ReadsLength
  <2>1. /\ phase = "length" /\ ~Wants /\ UNCHANGED <<transport, sent, received, intact, messages>>
        /\ phase' = "failed" \/ (got' = <<>> /\ phase' \in {"length", "body"})
    BY <1>12, Zenon DEF ReadsLength, Fail, writer
  <2>2. phase # "failed" /\ phase \in {"type", "length"}
    BY <2>1, Zenon
  <2>3. \A p \in Packets : \A rest \in Seq(Nat) : Fits(p) /\ Reading(p, rest) => Reading(p, rest)'
    BY <1>1, <1>12, <2>2, LengthRead, Zenon
  <2> QED
    BY <1>10, <2>1, <2>2, <2>3, Zenon
<1>13. CASE ReadsBody
  <2>1. /\ phase = "body" /\ UNCHANGED <<transport, sent, intact, messages, buf, closed>>
        /\ \/ phase' = "failed" /\ received' = received
           \/ phase' = "type" /\ got' = <<>> /\ received' = Append(received, Unpack(fh.type, got))
    BY <1>13, Zenon DEF ReadsBody, Fail, writer
  <2>2. phase' # "failed" => Len(got') <= Need'
    <3>1. Len(<<>>) <= Need'
      BY <1>2 DEF TypeOK, Need
    <3> QED
      BY <2>1, <3>1, Zenon
  <2>3. CASE n < l
    <3>1. /\ received' = Append(received, sent[n + 1]) /\ phase' = "type" /\ got' = <<>> /\ Follows'
          /\ intact /\ n + 1 = l => buf = <<>> /\ messages = <<>>
      BY <1>13, <2>3, PacketEnds, Zenon
    <3>2. Len(received') = n + 1 /\ n + 1 <= l
      <4>1. n + 1 \in 1 .. l /\ n + 1 <= l
        <5> HIDE DEF n, l
        <5> QED
          BY <1>1, <2>3
      <4>2. received \in Seq(PacketRead) /\ sent[n + 1] \in PacketRead
        BY <1>1, <4>1, ElementOfSeq, Zenon DEF TypeOK
      <4> QED
        BY <3>1, <4>1, <4>2, Appended, Zenon
    <3>3. intact' /\ Len(received') = Len(sent') => Drained'
      <4> SUFFICES ASSUME intact', Len(received') = Len(sent') PROVE Drained'
        BY Zenon
      <4>1. intact /\ n + 1 = l
        BY <2>1, <3>2, Zenon
      <4>2. buf' = <<>> /\ messages' = <<>>
        BY <2>1, <3>1, <4>1, Zenon
      <4> QED
        BY <3>1, <4>2, Zenon DEF Drained
    <3> QED
      BY <1>1, <1>2, <2>1, <2>2, <3>1, <3>2, <3>3, Zenon DEF IInv
  <2>4. CASE ~(n < l)
    <3>1. ~intact
      <4>1. n <= l => n = l
        <5> HIDE DEF n, l
        <5> QED
          BY <1>1, <2>4
      <4>2. phase # "type" /\ phase # "failed"
        BY <2>1, Zenon
      <4> QED
        BY <1>1, <4>1, <4>2, Zenon DEF Drained
    <3>2. ~(Len(received') < l)
      <4>1. received \in Seq(PacketRead) /\ received' \in Seq(PacketRead)
        BY <1>1, <1>2, Zenon DEF TypeOK
      <4>2. Len(received') = n \/ Len(received') = n + 1
        BY <2>1, <4>1
      <4> HIDE DEF n, l
      <4> QED
        BY <1>1, <2>4, <4>2
    <3>3. Follows'
      BY <1>1, <2>1, <3>2, NothingPending, Zenon
    <3> QED
      BY <1>1, <1>2, <2>1, <2>2, <3>1, <3>3, Zenon DEF IInv
  <2> QED
    BY <2>3, <2>4, Zenon
<1>14. CASE UNCHANGED vars
  <2>1. UNCHANGED <<transport, buf, messages, closed, sent, intact, phase, got, fh, received>>
    BY <1>14, Zenon DEF vars, writer, reader
  <2>2. Follows'
    BY <1>1, <2>1, FollowsKept, Zenon
  <2>3. (Drained => Drained') /\ Need' = Need
    BY <2>1, Zenon DEF Drained, Need
  <2> QED
    BY <1>1, <1>2, <2>1, <2>2, <2>3, Zenon DEF IInv
<1> QED
  BY <1>4, <1>5, <1>6, <1>7, <1>8, <1>9, <1>11, <1>12, <1>13, <1>14, Zenon DEF Next, ReadPacket

(* IInv holds in every reachable state.                                     *)
LEMMA Invariant == Spec => []IInv
<1>1. Init => IInv
  BY InvInit, Zenon
<1>2. IInv /\ [Next]_vars => IInv'
  BY InvStep, Zenon
<1> QED
  BY <1>1, <1>2, PTL DEF Spec

(* ReadPacket fails only at the end of the connection and between two       *)
(* packets, as long as every write was whole: it reads neither too much nor *)
(* too little of any packet.                                                *)
THEOREM InStepHolds == Spec => []InStep
<1>1. IInv => InStep
  <2> SUFFICES ASSUME IInv, intact, phase = "failed"
               PROVE  closed /\ Len(received) = Len(sent) /\ got = <<>>
    BY Zenon DEF InStep
  <2> DEFINE n == Len(received)
             l == Len(sent)
  <2>1. TypeOK /\ Follows /\ n \in Nat /\ l \in Nat /\ n <= l /\ (n = l => Drained)
    BY LenProperties, Zenon DEF IInv, TypeOK
  <2>2. ~(n < l)
    <3> SUFFICES ASSUME n < l PROVE FALSE
      BY Zenon
    <3>1. PICK q \in [1 .. l -> Packets] : Pending(q)
      BY <2>1, Zenon DEF Follows
    <3>2. n + 1 \in Nat /\ n + 1 \in 1 .. l
      <4>1. n < l
        BY Zenon
      <4> HIDE DEF n, l
      <4> QED
        BY <2>1, <4>1
    <3>3. q[n + 1] \in Packets /\ <<>> \in Seq(Nat)
      BY <3>2
    <3>4. \A rest \in Seq(Nat) : ~Reading(q[n + 1], rest)
      BY <2>1, <3>3, ReadingNotShort, Zenon
    <3>5. phase # "type"
      BY Zenon
    <3> QED
      BY <3>1, <3>2, <3>3, <3>4, <3>5, Zenon DEF Pending, OnStream, InMessages
  <2>3. n = l
    <3> HIDE DEF n, l
    <3> QED
      BY <2>1, <2>2
  <2>4. phase # "type"
    BY Zenon
  <2> QED
    BY <2>1, <2>3, <2>4, Zenon DEF Drained
<1> QED
  BY <1>1, Invariant, PTL

(* Appending is one more in the sense of the channel.                       *)
LEMMA OneMoreAppended ==
  ASSUME NEW S, NEW s \in Seq(S), NEW x \in S
  PROVE  Channel!OneMore(s, Append(s, x))
<1> DEFINE t == Append(s, x)
<1>1. /\ t \in Seq(S) /\ Len(t) = Len(s) + 1 /\ \A i \in 1 .. Len(s) : t[i] = s[i]
  BY Appended
<1>2. Len(s) \in Nat
  BY LenProperties, Zenon
<1> HIDE DEF t
<1>3. SubSeq(t, 1, Len(s)) \in Seq(S) /\ Len(SubSeq(t, 1, Len(s))) = Len(s)
      /\ \A i \in 1 .. Len(s) : SubSeq(t, 1, Len(s))[i] = t[i]
  BY <1>1, <1>2
<1>4. SubSeq(t, 1, Len(s)) = s
  BY <1>1, <1>3, SeqEqual, Zenon
<1> QED
  BY <1>1, <1>4, Zenon DEF Channel!OneMore, t

(* codec over a transport is the channel of whole packets that PacketChannel *)
(* promises, for every format, every set of packets and every number of      *)
(* writes: what was written before the first broken write is read in order   *)
(* and with its fields, and nothing else is.                                 *)
THEOREM StreamImplementsChannel == Spec => ImplementsChannel
<1>1. Init => Channel!Init
  BY Zenon DEF Init, Channel!Init
<1>2. ASSUME IInv, [Next]_vars PROVE [Channel!Next]_<<sent, received, intact>>
  <2> DEFINE n == Len(received)
             l == Len(sent)
  <2>1. TypeOK /\ n \in Nat /\ l \in Nat /\ (intact => n <= l) /\ (intact /\ n = l => Drained)
    BY <1>2, LenProperties, Zenon DEF IInv, TypeOK
  <2>2. ASSUME NEW p \in Packets, Write(p) PROVE Channel!Next
    <3>1. UNCHANGED received
      BY <2>2, Zenon DEF Write, reader
    <3>2. CASE intact /\ Fits(p)
      <4>1. sent \in Seq(PacketRead) /\ AsRead(p) \in PacketRead
        BY <2>1, AsReadType, Zenon DEF TypeOK
      <4>2. Channel!OneMore(sent, sent')
        BY <2>2, <3>2, <4>1, OneMoreAppended, Zenon DEF Write
      <4>3. intact' = intact
        BY <2>1, <2>2, <3>2, Zenon DEF Write, TypeOK
      <4> QED
        BY <3>1, <3>2, <4>2, <4>3, Zenon DEF Channel!Next, Channel!Send
    <3>3. CASE ~(intact /\ Fits(p))
      <4>1. sent' = sent /\ intact' = FALSE
        BY <2>2, <3>3, Zenon DEF Write
      <4> QED
        BY <3>1, <4>1, Zenon DEF Channel!Next, Channel!Break
    <3> QED
      BY <3>2, <3>3, Zenon
  <2>3. ASSUME NEW p, NEW i, WriteCut(p, i) PROVE Channel!Next
    BY <2>3, Zenon DEF WriteCut, reader, Channel!Next, Channel!Break
  <2>4. CASE Close \/ Receive \/ Reads \/ ReadEnds \/ ReadsType \/ ReadsLength
    <3>1. UNCHANGED <<sent, received, intact>>
      BY <2>4, Zenon DEF Close, Receive, Reads, Read, ReadEnds, ReadsType, ReadsLength, Fail, writer, reader
    <3> QED
      BY <3>1, Zenon
  <2>5. CASE ReadsBody
    <3>1. UNCHANGED <<sent, intact>>
      BY <2>5, Zenon DEF ReadsBody, writer
    <3>2. CASE n < l
      <4>1. received' = Append(received, sent[n + 1])
        BY <1>2, <2>5, <3>2, PacketEnds, Zenon
      <4>2. n + 1 \in 1 .. l
        <5> HIDE DEF n, l
        <5> QED
          BY <2>1, <3>2
      <4>3. received \in Seq(PacketRead) /\ sent[n + 1] \in PacketRead
        BY <2>1, <4>2, ElementOfSeq, Zenon DEF TypeOK
      <4>4. Channel!OneMore(received, received')
        BY <4>1, <4>3, OneMoreAppended, Zenon
      <4>5. received'[n + 1] = sent[n + 1]
        BY <4>1, <4>3, Appended
      <4> QED
        BY <3>1, <3>2, <4>4, <4>5, Zenon DEF Channel!Next, Channel!Receive
    <3>3. CASE ~(n < l)
      <4>1. ~intact
        <5>1. n <= l => n = l
          <6> HIDE DEF n, l
          <6> QED
            BY <2>1, <3>3
        <5>2. phase # "type" /\ phase # "failed"
          <6>1. phase = "body"
            BY <2>5, Zenon DEF ReadsBody
          <6> QED
            BY <6>1, Zenon
        <5> QED
          BY <2>1, <5>1, <5>2, Zenon DEF Drained
      <4>2. CASE Unpackable(fh.type, got)
        <5>1. fh.type \in Nat
          BY <2>1, Zenon DEF TypeOK
        <5>2. received \in Seq(PacketRead) /\ Unpack(fh.type, got) \in PacketRead
          BY <2>1, <4>2, <5>1, UnpackType, Zenon DEF TypeOK
        <5>3. Channel!OneMore(received, received')
          BY <2>5, <4>2, <5>2, OneMoreAppended, Zenon DEF ReadsBody
        <5> QED
          BY <3>1, <3>3, <4>1, <5>3, Zenon DEF Channel!Next, Channel!Receive
      <4>3. CASE ~Unpackable(fh.type, got)
        BY <2>5, <3>1, <4>3, Zenon DEF ReadsBody, Fail
      <4> QED
        BY <4>2, <4>3, Zenon
    <3> QED
      BY <3>2, <3>3, Zenon
  <2>6. CASE UNCHANGED vars
    BY <2>6, Zenon DEF vars, writer, reader
  <2> QED
    BY <1>2, <2>2, <2>3, <2>4, <2>5, <2>6, Zenon DEF Next, ReadPacket
<1> QED
  BY <1>1, <1>2, Invariant, PTL DEF Spec, ImplementsChannel, Channel!Spec
====
