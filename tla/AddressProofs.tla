---------------------------- MODULE AddressProofs ----------------------------
(***************************************************************************)
(* Addresses, for programs and texts of any length: what the code encodes  *)
(* is read as the program it was made of, a text that is taken is the one  *)
(* that its script encodes, and one mistake in the data is never taken     *)
(* with the constant that the address was made with.                       *)
(*                                                                         *)
(* Groups of 5 and of 8 bits are compared bit by bit (BitAt).  The         *)
(* accumulator wraps, but a group is made of its last 12 bits at most, and *)
(* those are the last bits of the values, whatever was lost above them     *)
(* (AccumulatedBits).                                                      *)
(***************************************************************************)
EXTENDS ChecksumProofs

-----------------------------------------------------------------------------
(* Quotients. *)

\* A number is its quotient and its remainder.
LEMMA DivParts ==
    ASSUME NEW m \in Nat, m > 0, NEW y \in Nat
    PROVE  y \div m \in Nat /\ y % m \in 0 .. m - 1 /\ y = m * (y \div m) + (y % m)
OBVIOUS

\* A product grows with its factor.
LEMMA MulMono ==
    ASSUME NEW m \in Nat, NEW a \in Nat, NEW b \in Nat, a + 1 <= b
    PROVE  m * a + m <= m * b
<1>1. PICK d \in Nat : b = a + 1 + d
  <2>1. b - a - 1 \in Nat /\ b = a + 1 + (b - a - 1)
    OBVIOUS
  <2> QED BY <2>1
<1>2. m * b = m * a + m + m * d
  BY <1>1
<1>3. m * d \in Nat /\ m * a \in Nat
  OBVIOUS
<1> QED BY <1>2, <1>3

\* Quotient and remainder are the only numbers that make it up.
LEMMA DivUnique ==
    ASSUME NEW m \in Nat, m > 0, NEW c \in Nat, NEW t \in 0 .. m - 1, NEW y, y = m * c + t
    PROVE  y \div m = c /\ y % m = t
<1> DEFINE e == y \div m
           u == y % m
<1>1. y \in Nat
  OBVIOUS
<1>2. e \in Nat /\ u \in 0 .. m - 1 /\ y = m * e + u
  BY <1>1, DivParts
<1> HIDE DEF e, u
<1>3. m * c \in Nat /\ m * e \in Nat
  BY <1>2
<1>4. ~(c + 1 <= e)
  <2>1. SUFFICES ASSUME c + 1 <= e PROVE FALSE
    OBVIOUS
  <2>2. m * c + m <= m * e
    BY <2>1, <1>2, MulMono
  <2> QED BY <1>2, <1>3, <2>2
<1>5. ~(e + 1 <= c)
  <2>1. SUFFICES ASSUME e + 1 <= c PROVE FALSE
    OBVIOUS
  <2>2. m * e + m <= m * c
    BY <2>1, <1>2, MulMono
  <2> QED BY <1>2, <1>3, <2>2
<1>6. c = e
  BY <1>2, <1>4, <1>5
<1>7. u = t
  BY <1>2, <1>3, <1>6
<1> QED BY <1>6, <1>7 DEF e, u

\* What is used of products.
LEMMA MulFacts ==
    /\ \A a, b, c \in Nat : (a * b) * c = a * (b * c)
    /\ \A a, b, c \in Nat : a * (b + c) = a * b + a * c
    /\ \A a, b \in Nat : a * b = b * a /\ a * b \in Nat
OBVIOUS

\* Two divisions in a row, and the division of a remainder.
LEMMA DivTwice ==
    ASSUME NEW a \in Nat, NEW p \in Nat, p > 0, NEW q \in Nat, q > 0
    PROVE  /\ p * q \in Nat /\ p * q > 0
           /\ (a \div p) \div q = a \div (p * q)
           /\ (a % (p * q)) \div p = (a \div p) % q
<1> DEFINE b == a \div p
           r == a % p
           c == b \div q
           s == b % q
           t == p * s + r
<1>1. b \in Nat /\ r \in 0 .. p - 1 /\ a = p * b + r
  BY DivParts
<1> HIDE DEF b, r
<1>2. c \in Nat /\ s \in 0 .. q - 1 /\ b = q * c + s
  BY <1>1, DivParts
<1> HIDE DEF c, s
<1>3. p * q \in Nat /\ p * q > 0
  BY SMT
<1>4. t \in 0 .. p * q - 1
  <2>1. p * s + p <= p * q
    BY <1>2, MulMono
  <2>2. p * s \in Nat
    BY <1>2, MulFacts
  <2> QED BY <1>1, <1>3, <2>1, <2>2
<1>5. a = (p * q) * c + t
  <2>1. a = p * (q * c + s) + r
    BY <1>1, <1>2
  <2>2. q * c \in Nat /\ p * (q * c) \in Nat /\ p * s \in Nat
    BY <1>2, MulFacts
  <2>3. p * (q * c + s) = p * (q * c) + p * s
    BY <1>2, <2>2, MulFacts
  <2>4. p * (q * c) = (p * q) * c
    BY <1>2, MulFacts
  <2> QED BY <1>1, <1>2, <2>1, <2>2, <2>3, <2>4
<1>6. a \div (p * q) = c /\ a % (p * q) = t
  <2> HIDE DEF t
  <2> QED BY <1>2, <1>3, <1>4, <1>5, DivUnique
<1>7. t \div p = s
  BY <1>1, <1>2, DivUnique
<1> QED BY <1>3, <1>6, <1>7 DEF b, c, s

\* The powers of two up to the width that the model asks of the accumulator.
TwoTo == [k \in 0 .. 16 |-> 2^k]

\* The powers of two that occur, as numbers.
LEMMA Powers ==
    /\ TwoTo[0] = 1 /\ TwoTo[1] = 2 /\ TwoTo[2] = 4 /\ TwoTo[3] = 8 /\ TwoTo[4] = 16
    /\ TwoTo[5] = 32 /\ TwoTo[6] = 64 /\ TwoTo[7] = 128 /\ TwoTo[8] = 256
    /\ TwoTo[9] = 512 /\ TwoTo[10] = 1024 /\ TwoTo[11] = 2048 /\ TwoTo[12] = 4096
    /\ TwoTo[13] = 8192 /\ TwoTo[14] = 16384 /\ TwoTo[15] = 32768 /\ TwoTo[16] = 65536
BY SMT DEF TwoTo

\* Each power is twice the one before.
LEMMA PowerStep ==
    ASSUME NEW k \in 0 .. 15
    PROVE  TwoTo[k + 1] = 2 * TwoTo[k]
<1>1. \/ k = 0 \/ k = 1 \/ k = 2 \/ k = 3 \/ k = 4 \/ k = 5 \/ k = 6 \/ k = 7
      \/ k = 8 \/ k = 9 \/ k = 10 \/ k = 11 \/ k = 12 \/ k = 13 \/ k = 14 \/ k = 15
  OBVIOUS
<1> QED BY <1>1, Powers, SMT

\* Powers of two are positive.
LEMMA PowerType ==
    ASSUME NEW k \in 0 .. 16
    PROVE  TwoTo[k] \in Nat /\ TwoTo[k] > 0
<1> DEFINE S == {i \in 0 .. 16 : TwoTo[i] \in Nat /\ TwoTo[i] > 0}
<1>1. 0 \in S
  BY Powers
<1>2. \A i \in 1 .. 16 : i - 1 \in S => i \in S
  <2>1. ASSUME NEW i \in 1 .. 16, i - 1 \in S PROVE i \in S
    <3>1. i - 1 \in 0 .. 15 /\ (i - 1) + 1 = i
      OBVIOUS
    <3>2. TwoTo[i] = 2 * TwoTo[i - 1]
      BY <3>1, PowerStep
    <3> QED BY <2>1, <3>2
  <2> QED BY <2>1
<1>3. 0 .. 16 \subseteq S
  <2> HIDE DEF S
  <2>1. ASSUME NEW n \in Nat, n = 16 PROVE 0 .. n \subseteq S
    <3>1. \A i \in 1 .. n : i - 1 \in S => i \in S
      BY <1>2, <2>1
    <3> QED BY <1>1, <3>1, RangeInduction
  <2> QED BY <2>1
<1> QED BY <1>3

\* The product of two powers is a power.
LEMMA PowerSum ==
    ASSUME NEW e \in 0 .. 16, NEW n \in Nat, e + n <= 16
    PROVE  TwoTo[e + n] = TwoTo[e] * TwoTo[n]
<1> DEFINE S == {i \in 0 .. n : TwoTo[e + i] = TwoTo[e] * TwoTo[i]}
<1>1. 0 \in S
  <2>1. TwoTo[e] * 1 = TwoTo[e] /\ e + 0 = e
    BY PowerType
  <2> QED BY <2>1, Powers
<1>2. ASSUME NEW i \in 1 .. n, i - 1 \in S PROVE i \in S
  <2> DEFINE j == i - 1
  <2>1. j \in 0 .. 15 /\ e + j \in 0 .. 15 /\ j + 1 = i /\ (e + j) + 1 = e + i
    OBVIOUS
  <2> HIDE DEF j
  <2>2. TwoTo[i] = 2 * TwoTo[j] /\ TwoTo[e + i] = 2 * TwoTo[e + j]
    <3>1. TwoTo[j + 1] = 2 * TwoTo[j]
      BY <2>1, PowerStep
    <3>2. TwoTo[(e + j) + 1] = 2 * TwoTo[e + j]
      BY <2>1, PowerStep
    <3> QED BY <2>1, <3>1, <3>2
  <2>3. TwoTo[e + j] = TwoTo[e] * TwoTo[j]
    BY <1>2 DEF j
  <2>4. TwoTo[e] \in Nat /\ TwoTo[j] \in Nat
    BY <2>1, PowerType
  <2>5. 2 * (TwoTo[e] * TwoTo[j]) = TwoTo[e] * (2 * TwoTo[j])
    BY <2>4
  <2>6. TwoTo[e + i] = TwoTo[e] * TwoTo[i]
    BY <2>2, <2>3, <2>5
  <2> QED BY <2>6
<1>3. \A i \in 1 .. n : i - 1 \in S => i \in S
  BY <1>2
<1>4. 0 .. n \subseteq S
  <2> HIDE DEF S
  <2> QED BY <1>1, <1>3, RangeInduction
<1> QED BY <1>4

-----------------------------------------------------------------------------
(* Bits. *)

\* A bit, with the table of the powers; it is 0 or 1.
LEMMA BitIs ==
    ASSUME NEW b \in Nat, NEW k \in 0 .. 16
    PROVE  Bit(b, k) = (b \div TwoTo[k]) % 2 /\ Bit(b, k) \in 0 .. 1
<1>1. Bit(b, k) = (b \div TwoTo[k]) % 2
  <2>1. TwoTo[k] = 2^k
    BY Zenon DEF TwoTo
  <2> QED BY <2>1, Zenon DEF Bit
<1>2. b \div TwoTo[k] \in Nat
  BY PowerType, DivParts
<1> QED BY <1>1, <1>2

\* A quotient by a power of two has the bits above it.
LEMMA BitShift ==
    ASSUME NEW a \in Nat, NEW e \in 0 .. 16, NEW k \in 0 .. 16, e + k <= 16
    PROVE  Bit(a \div TwoTo[e], k) = Bit(a, e + k)
<1>1. TwoTo[e + k] = TwoTo[e] * TwoTo[k]
  BY PowerSum
<1>2. /\ TwoTo[e] \in Nat /\ TwoTo[e] > 0 /\ TwoTo[k] \in Nat /\ TwoTo[k] > 0
      /\ a \div TwoTo[e] \in Nat
  BY PowerType, DivParts
<1>3. (a \div TwoTo[e]) \div TwoTo[k] = a \div TwoTo[e + k]
  <2> DEFINE p == TwoTo[e]
             q == TwoTo[k]
  <2>1. p \in Nat /\ p > 0 /\ q \in Nat /\ q > 0
    BY <1>2
  <2> HIDE DEF p, q
  <2>2. (a \div p) \div q = a \div (p * q)
    BY <2>1, DivTwice
  <2> QED BY <1>1, <2>2, Zenon DEF p, q
<1>4. Bit(a \div TwoTo[e], k) = ((a \div TwoTo[e]) \div TwoTo[k]) % 2
  BY <1>2, BitIs
<1>5. e + k \in 0 .. 16
  OBVIOUS
<1>6. Bit(a, e + k) = (a \div TwoTo[e + k]) % 2
  BY <1>5, BitIs
<1> QED BY <1>3, <1>4, <1>6, Zenon

\* A remainder modulo an even number is odd when the number is.
LEMMA EvenMod ==
    ASSUME NEW x \in Nat, NEW r \in Nat, r > 0
    PROVE  (x % (2 * r)) % 2 = x % 2
<1> DEFINE c == x \div (2 * r)
           t == x % (2 * r)
<1>1. c \in Nat /\ t \in Nat /\ x = (2 * r) * c + t
  BY DivParts
<1>2. (2 * r) * c = 2 * (r * c) /\ r * c \in Nat
  BY <1>1, MulFacts
<1> HIDE DEF c, t
<1>3. x % 2 = t % 2
  BY <1>1, <1>2
<1> QED BY <1>3 DEF t

\* The low bits of a remainder.
LEMMA BitMod ==
    ASSUME NEW a \in Nat, NEW w \in 1 .. 16, NEW k \in 0 .. w - 1, NEW v \in Nat, v > 0
    PROVE  Bit(a % (TwoTo[w] * v), k) = Bit(a, k)
<1> DEFINE p == TwoTo[k]
           r == TwoTo[w - k - 1] * v
           q == 2 * r
           m == TwoTo[w] * v
<1>1. /\ k \in 0 .. 15 /\ w - k - 1 \in 0 .. 15 /\ w - k \in 0 .. 16
      /\ (w - k - 1) + 1 = w - k /\ k + (w - k) = w /\ k + (w - k) <= 16
  OBVIOUS
<1>2. /\ p \in Nat /\ p > 0 /\ TwoTo[w - k - 1] \in Nat /\ TwoTo[w - k - 1] > 0
      /\ TwoTo[w - k] \in Nat /\ TwoTo[w] \in Nat /\ TwoTo[w] > 0
  BY <1>1, PowerType
<1>3. r \in Nat /\ r > 0 /\ m \in Nat /\ m > 0
  BY <1>2, DivTwice
<1>4. TwoTo[w - k] = 2 * TwoTo[w - k - 1]
  BY <1>1, PowerStep
<1>5. TwoTo[w] = p * TwoTo[w - k]
  BY <1>1, PowerSum
<1>6. m = p * q
  <2>1. q = TwoTo[w - k] * v
    BY <1>2, <1>4, MulFacts
  <2> HIDE DEF q, p
  <2> QED BY <1>2, <1>5, <2>1, MulFacts
<1> HIDE DEF m, r, p
<1>7. (a % m) \div p = (a \div p) % q
  <2>1. q \in Nat /\ q > 0
    BY <1>3
  <2> HIDE DEF q
  <2>2. p \in Nat /\ p > 0
    BY <1>2
  <2>3. (a % (p * q)) \div p = (a \div p) % q
    BY <2>1, <2>2, DivTwice, Zenon
  <2> QED BY <1>6, <2>3, Zenon
<1>8. a \div p \in Nat /\ a % m \in Nat
  BY <1>2, <1>3, DivParts
<1>9. ((a % m) \div p) % 2 = (a \div p) % 2
  BY <1>3, <1>7, <1>8, EvenMod
<1> QED BY <1>1, <1>8, <1>9, BitIs DEF m, p

\* A number that is moved up by h bits, with another one of h bits under it.
LEMMA BitOfPair ==
    ASSUME NEW a \in Nat, NEW h \in 0 .. 8, NEW d \in 0 .. TwoTo[h] - 1, NEW k \in 0 .. 15
    PROVE  /\ a * TwoTo[h] + d \in Nat
           /\ Bit(a * TwoTo[h] + d, k) = IF k < h THEN Bit(d, k) ELSE Bit(a, k - h)
<1> DEFINE y == a * TwoTo[h] + d
<1>1. TwoTo[h] \in Nat /\ TwoTo[h] > 0 /\ d \in Nat
  BY PowerType
<1>2. a * TwoTo[h] = TwoTo[h] * a /\ a * TwoTo[h] \in Nat
  BY <1>1, MulFacts
<1>3. y \in Nat /\ y \div TwoTo[h] = a /\ y % TwoTo[h] = d
  <2>1. y = TwoTo[h] * a + d /\ y \in Nat
    BY <1>1, <1>2
  <2> HIDE DEF y
  <2> QED BY <1>1, <2>1, DivUnique, Zenon
<1> HIDE DEF y
<1>4. CASE k < h
  <2>1. Bit(y % (TwoTo[h] * 1), k) = Bit(y, k)
    BY <1>3, <1>4, BitMod
  <2>2. TwoTo[h] * 1 = TwoTo[h]
    BY <1>1
  <2> QED BY <1>3, <1>4, <2>1, <2>2 DEF y
<1>5. CASE ~(k < h)
  <2>1. k - h \in 0 .. 16 /\ h \in 0 .. 16 /\ h + (k - h) <= 16 /\ h + (k - h) = k
    BY <1>5
  <2>2. Bit(y \div TwoTo[h], k - h) = Bit(y, h + (k - h))
    BY <1>3, <2>1, BitShift
  <2> QED BY <1>3, <1>5, <2>1, <2>2 DEF y
<1> QED BY <1>4, <1>5

-----------------------------------------------------------------------------
(* Groups of bits. *)

Group(w) == 0 .. TwoTo[w] - 1

\* Bit n of a sequence of groups of w bits, counted from the first.
BitAt(data, w, n) == Bit(data[n \div w + 1], w - 1 - (n % w))

\* The powers of the model are those of the table.
LEMMA PowerIs == ASSUME NEW k \in 0 .. 16 PROVE 2^k = TwoTo[k]
BY Zenon DEF TwoTo

\* Accumulated is what the loop over the values returns, and all it passes are
\* numbers.
LEMMA AccumulatedLoop ==
    ASSUME NEW data \in Seq(Nat), NEW from \in {5, 8}
    PROVE  LET acc == Accumulated(data, from)
           IN  /\ acc[0] = 0
               /\ \A i \in 0 .. Len(data) : acc[i] \in Nat
               /\ \A i \in 1 .. Len(data) :
                     acc[i] = (acc[i - 1] * TwoTo[from] + data[i]) % Wrap
<1> DEFINE n == Len(data)
           F == [i \in 1 .. n |-> [a \in Nat |-> (a * TwoTo[from] + data[i]) % Wrap]]
           P(acc) == acc = [i \in 0 .. Len(data) |->
                              IF i = 0 THEN 0 ELSE (acc[i - 1] * 2^from + data[i]) % Wrap]
           acc == Accumulated(data, from)
<1>1. n \in Nat /\ \A i \in 1 .. n : data[i] \in Nat
  OBVIOUS
<1>2. 2^from = TwoTo[from] /\ TwoTo[from] \in Nat
  <2>1. from \in 0 .. 16
    OBVIOUS
  <2>2. 2^from = TwoTo[from]
    BY <2>1, PowerIs, Zenon
  <2> QED BY <2>1, <2>2, PowerType, Zenon
<1>3. \A a \in Nat : \A d \in Nat : (a * TwoTo[from] + d) % Wrap \in Nat
  BY <1>2, MulFacts, DivParts, AddressAssumption
<1>4. F \in [1 .. n -> [Nat -> Nat]]
  BY <1>1, <1>3
<1>5. PICK f \in LoopRuns(n, Nat, 0, F) : TRUE
  <2> HIDE DEF F, n
  <2>1. 0 \in Nat
    OBVIOUS
  <2>2. LoopRuns(n, Nat, 0, F) # {}
    BY <1>1, <1>4, <2>1, LoopHasRun, Zenon
  <2> QED BY <2>2
<1>6. P(f)
  <2>1. f \in [0 .. n -> Nat] /\ f[0] = 0
    BY <1>5 DEF LoopRuns
  <2>2. ASSUME NEW i \in 1 .. n PROVE f[i] = (f[i - 1] * 2^from + data[i]) % Wrap
    <3>1. i - 1 \in 0 .. n
      BY <1>1
    <3>2. f[i - 1] \in Nat
      BY <2>1, <3>1
    <3>3. f[i] = F[i][f[i - 1]]
      <4> HIDE DEF F, n
      <4> QED BY <1>5 DEF LoopRuns
    <3>4. f[i] = (f[i - 1] * TwoTo[from] + data[i]) % Wrap
      BY <3>2, <3>3, Zenon
    <3> QED BY <1>2, <3>4, Zenon
  <2> QED BY <1>1, <2>1, <2>2
<1>7. P(acc)
  <2>1. acc = CHOOSE x : P(x)
    BY Zenon DEF Accumulated
  <2> HIDE DEF P, acc
  <2> QED BY <1>6, <2>1, Zenon
<1> HIDE DEF acc
<1>8. acc[0] = 0
  BY <1>1, <1>7
<1>9. ASSUME NEW i \in 1 .. n
      PROVE  acc[i] = (acc[i - 1] * TwoTo[from] + data[i]) % Wrap
  <2>1. i \in 0 .. Len(data) /\ i # 0
    BY <1>1
  <2>2. acc[i] = (acc[i - 1] * 2^from + data[i]) % Wrap
    BY <1>7, <2>1, Zenon
  <2> QED BY <1>2, <2>2, Zenon
<1> HIDE DEF P
<1>10. 0 .. n \subseteq {i \in 0 .. n : acc[i] \in Nat}
  <2> DEFINE S == {i \in 0 .. n : acc[i] \in Nat}
  <2>1. 0 \in S
    BY <1>1, <1>8
  <2>2. ASSUME NEW i \in 1 .. n, i - 1 \in S PROVE i \in S
    <3>1. (acc[i - 1] * TwoTo[from] + data[i]) % Wrap \in Nat
      BY <1>1, <1>3, <2>2
    <3> QED BY <1>9, <3>1
  <2>3. \A i \in 1 .. n : i - 1 \in S => i \in S
    BY <2>2
  <2> HIDE DEF S, n
  <2>4. 0 .. n \subseteq S
    BY <1>1, <2>1, <2>3, RangeInduction
  <2> QED BY <2>4 DEF S
<1>11. \A i \in 0 .. n : acc[i] \in Nat
  BY <1>10
<1> QED BY <1>8, <1>9, <1>11 DEF acc

\* The low bits of the accumulator are the last bits of the values that went in.
LEMMA AccumulatedBits ==
    ASSUME NEW from \in {5, 8}, NEW data \in Seq(Group(from)),
           NEW i \in 0 .. Len(data), NEW k \in 0 .. 15, k < from * i
    PROVE  /\ Accumulated(data, from)[i] \in Nat
           /\ Bit(Accumulated(data, from)[i], k) = BitAt(data, from, from * i - 1 - k)
<1> DEFINE n == Len(data)
           acc == Accumulated(data, from)
           Right(j) == \A b \in 0 .. 15 :
                          b < from * j => Bit(acc[j], b) = BitAt(data, from, from * j - 1 - b)
           S == {j \in 0 .. n : Right(j)}
<1>1. /\ from \in 0 .. 8 /\ TwoTo[from] \in Nat /\ TwoTo[from] > 0
      /\ n \in Nat /\ data \in Seq(Nat) /\ \A j \in 1 .. n : data[j] \in Group(from)
  <2>1. TwoTo[from] \in Nat /\ TwoTo[from] > 0
    <3>1. from \in 0 .. 16
      OBVIOUS
    <3> QED BY <3>1, PowerType
  <2>2. Group(from) \subseteq Nat
    BY <2>1 DEF Group
  <2>3. data \in Seq(Nat)
    BY <2>2
  <2> QED BY <2>1, <2>3
<1>2. /\ acc[0] = 0
      /\ \A j \in 0 .. n : acc[j] \in Nat
      /\ \A j \in 1 .. n : acc[j] = (acc[j - 1] * TwoTo[from] + data[j]) % Wrap
  BY <1>1, AccumulatedLoop
<1>3. PICK v \in Nat : v > 0 /\ Wrap = TwoTo[16] * v
  <2>1. Wrap = 65536 * (Wrap \div 65536) /\ Wrap \div 65536 \in Nat /\ Wrap \div 65536 > 0
    BY AddressAssumption, 2^16 = 65536, SMT
  <2> QED BY <2>1, Powers
<1> HIDE DEF acc, n
<1>4. 0 \in S
  <2>1. from * 0 = 0
    BY <1>1
  <2> QED BY <1>1, <2>1
<1>5. ASSUME NEW j \in 1 .. n, j - 1 \in S PROVE j \in S
  <2>1. ASSUME NEW b \in 0 .. 15, b < from * j
        PROVE  Bit(acc[j], b) = BitAt(data, from, from * j - 1 - b)
    <3> DEFINE a == acc[j - 1]
               d == data[j]
               y == a * TwoTo[from] + d
    <3>1. j - 1 \in 0 .. n /\ a \in Nat /\ d \in Group(from)
      BY <1>1, <1>2
    <3>2. acc[j] = y % Wrap
      BY <1>2
    <3> HIDE DEF a, d
    <3>3. y \in Nat /\ Bit(y, b) = IF b < from THEN Bit(d, b) ELSE Bit(a, b - from)
      BY <1>1, <3>1, BitOfPair DEF Group
    <3> HIDE DEF y
    <3>4. Bit(y % (TwoTo[16] * v), b) = Bit(y, b)
      <4>1. 16 \in 1 .. 16 /\ b \in 0 .. 16 - 1
        OBVIOUS
      <4> QED BY <1>3, <3>3, <4>1, BitMod
    <3>5. Bit(acc[j], b) = Bit(y, b)
      BY <1>3, <3>2, <3>4, Zenon
    <3>6. CASE b < from
      <4>1. b \in 0 .. from - 1 /\ j \in Nat /\ j > 0
        BY <1>1, <3>6
      <4> DEFINE m == from * j - 1 - b
      <4>2. m = from * j - 1 - b
        OBVIOUS
      <4> HIDE DEF m
      <4>3. m \div from + 1 = j /\ from - 1 - (m % from) = b
        <5>1. CASE from = 5
          BY <4>1, <4>2, <5>1
        <5>2. CASE from = 8
          BY <4>1, <4>2, <5>2
        <5> QED BY <5>1, <5>2
      <4>4. BitAt(data, from, m) = Bit(d, b)
        BY <4>3, Zenon DEF BitAt, d
      <4> QED BY <3>3, <3>5, <3>6, <4>4 DEF m
    <3>7. CASE ~(b < from)
      <4>1. b - from \in 0 .. 15 /\ b - from < from * (j - 1)
              /\ from * (j - 1) - 1 - (b - from) = from * j - 1 - b
        <5>1. from * (j - 1) = from * j - from
          <6>1. CASE from = 5
            BY <6>1
          <6>2. CASE from = 8
            BY <6>2
          <6> QED BY <6>1, <6>2
        <5>2. from * j \in Nat
          BY <1>1
        <5> QED BY <1>1, <2>1, <3>7, <5>1, <5>2
      <4>2. Bit(a, b - from) = BitAt(data, from, from * (j - 1) - 1 - (b - from))
        BY <1>5, <4>1 DEF a
      <4> QED BY <3>3, <3>5, <3>7, <4>1, <4>2
    <3> QED BY <3>6, <3>7
  <2> QED BY <2>1
<1>6. \A j \in 1 .. n : j - 1 \in S => j \in S
  BY <1>5
<1>7. 0 .. n \subseteq S
  <2> HIDE DEF S
  <2> QED BY <1>1, <1>4, <1>6, RangeInduction
<1>8. i \in S
  BY <1>7 DEF n
<1> QED BY <1>2, <1>8 DEF acc, n

\* The groups are numbers.
LEMMA GroupType ==
    ASSUME NEW w \in {5, 8}
    PROVE  /\ w \in 0 .. 16 /\ TwoTo[w] \in Nat /\ TwoTo[w] > 0
           /\ Group(w) \subseteq Nat /\ 2^w = TwoTo[w]
<1>1. w \in 0 .. 16
  OBVIOUS
<1>2. TwoTo[w] \in Nat /\ TwoTo[w] > 0
  BY <1>1, PowerType
<1>3. 2^w = TwoTo[w]
  BY <1>1, PowerIs, Zenon
<1> QED BY <1>1, <1>2, <1>3 DEF Group

\* Bits cut out of a number are its bits.
LEMMA BitOfSlice ==
    ASSUME NEW a \in Nat, NEW e \in 0 .. 8, NEW w \in {5, 8}
    PROVE  /\ (a \div TwoTo[e]) % TwoTo[w] \in Group(w)
           /\ \A k \in 0 .. w - 1 : Bit((a \div TwoTo[e]) % TwoTo[w], k) = Bit(a, e + k)
<1> DEFINE b == a \div TwoTo[e]
           t == TwoTo[w]
<1>1. e \in 0 .. 16 /\ TwoTo[e] \in Nat /\ TwoTo[e] > 0
  BY PowerType
<1>2. t \in Nat /\ t > 0 /\ t * 1 = t
  BY GroupType
<1>3. b \in Nat
  BY <1>1, DivParts
<1> HIDE DEF b, t
<1>4. b % t \in 0 .. t - 1
  BY <1>2, <1>3, DivParts
<1>5. ASSUME NEW k \in 0 .. w - 1 PROVE Bit(b % t, k) = Bit(a, e + k)
  <2>1. w \in 1 .. 16 /\ k \in 0 .. 16 /\ e + k <= 16
    OBVIOUS
  <2>2. Bit(b % (t * 1), k) = Bit(b, k)
    BY <1>3, <2>1, BitMod DEF t
  <2>3. Bit(b, k) = Bit(a, e + k)
    BY <1>1, <2>1, BitShift DEF b
  <2> QED BY <1>2, <2>2, <2>3
<1> QED BY <1>4, <1>5 DEF b, t, Group

\* The full groups have the bits of the values, in order.
LEMMA FullGroupsBits ==
    ASSUME NEW from \in {5, 8}, NEW to \in {5, 8}, from + to = 13,
           NEW data \in Seq(Group(from))
    PROVE  LET G == FullGroups(data, from, to)
               N == (Len(data) * from) \div to
           IN  /\ N \in Nat /\ G \in Seq(Group(to)) /\ Len(G) = N
               /\ \A n \in 0 .. to * N - 1 : BitAt(G, to, n) = BitAt(data, from, n)
<1> DEFINE L == Len(data)
           N == (L * from) \div to
           acc == Accumulated(data, from)
           I(m) == (m * to + from - 1) \div from
           E(m) == I(m) * from - m * to
           G == FullGroups(data, from, to)
<1>1. L \in Nat
  OBVIOUS
<1> HIDE DEF L
<1>2. N \in Nat
  <2>1. L * from \in Nat
    BY <1>1
  <2> QED BY <2>1, DivParts
<1>3. ASSUME NEW m \in 1 .. N
      PROVE  I(m) \in 1 .. L /\ E(m) \in 0 .. 8 /\ E(m) < from
  <2>1. CASE from = 5
    BY <1>1, <2>1
  <2>2. CASE from = 8
    BY <1>1, <2>2
  <2> QED BY <2>1, <2>2
<1>4. \A i \in 1 .. L : acc[i] \in Nat
  <2>1. data \in Seq(Nat)
    BY GroupType
  <2> QED BY <2>1, AccumulatedLoop DEF L
<1> HIDE DEF acc
<1>5. G = [m \in 1 .. N |-> (acc[I(m)] \div 2^E(m)) % 2^to]
  BY Zenon DEF FullGroups, acc, L
<1> HIDE DEF G, I, E, N
<1>6. ASSUME NEW m \in 1 .. N
      PROVE  /\ G[m] \in Group(to)
             /\ \A k \in 0 .. to - 1 : Bit(G[m], k) = Bit(acc[I(m)], E(m) + k)
  <2>1. G[m] = (acc[I(m)] \div 2^E(m)) % 2^to
    BY <1>5, Zenon
  <2>2. 2^E(m) = TwoTo[E(m)]
    <3>1. E(m) \in 0 .. 16
      BY <1>3
    <3> QED BY <3>1, PowerIs, Zenon
  <2>3. 2^to = TwoTo[to]
    BY GroupType
  <2>4. G[m] = (acc[I(m)] \div TwoTo[E(m)]) % TwoTo[to]
    BY <2>1, <2>2, <2>3, Zenon
  <2>5. acc[I(m)] \in Nat /\ E(m) \in 0 .. 8
    BY <1>3, <1>4
  <2> DEFINE x == acc[I(m)]
             e == E(m)
  <2> HIDE DEF x, e
  <2>6. /\ (x \div TwoTo[e]) % TwoTo[to] \in Group(to)
        /\ \A k \in 0 .. to - 1 : Bit((x \div TwoTo[e]) % TwoTo[to], k) = Bit(x, e + k)
    BY <2>5, BitOfSlice, Zenon DEF x, e
  <2> QED BY <2>4, <2>6, Zenon DEF x, e
<1>7. G \in Seq(Group(to)) /\ Len(G) = N
  <2>1. G \in [1 .. N -> Group(to)]
    BY <1>5, <1>6
  <2> QED BY <1>2, <2>1
<1>8. ASSUME NEW n \in 0 .. to * N - 1 PROVE BitAt(G, to, n) = BitAt(data, from, n)
  <2> DEFINE m == n \div to + 1
             k == to - 1 - (n % to)
             i == I(m)
             b == E(m) + k
  <2>1. m \in 1 .. N /\ k \in 0 .. to - 1 /\ n = to * m - 1 - k
    <3>1. CASE to = 5
      BY <1>2, <3>1
    <3>2. CASE to = 8
      BY <1>2, <3>2
    <3> QED BY <3>1, <3>2
  <2> HIDE DEF m, k
  <2>2. i \in 1 .. L /\ E(m) \in 0 .. 8 /\ E(m) < from
    BY <1>3, <2>1
  <2>3. E(m) = i * from - m * to
    BY DEF E
  <2> HIDE DEF i
  <2>4. b \in 0 .. 15 /\ b < from * i /\ from * i - 1 - b = n
    <3>1. CASE from = 5 /\ to = 8
      BY <1>1, <2>1, <2>2, <2>3, <3>1
    <3>2. CASE from = 8 /\ to = 5
      BY <1>1, <2>1, <2>2, <2>3, <3>2
    <3> QED BY <3>1, <3>2
  <2>5. Bit(G[m], k) = Bit(acc[i], b)
    BY <1>6, <2>1 DEF i
  <2> HIDE DEF b
  <2>6. i \in 0 .. Len(data)
    BY <1>1, <2>2 DEF L
  <2>7. Bit(acc[i], b) = BitAt(data, from, from * i - 1 - b)
    BY <2>4, <2>6, AccumulatedBits DEF acc
  <2>8. BitAt(G, to, n) = Bit(G[m], k)
    BY Zenon DEF BitAt, m, k
  <2> QED BY <2>4, <2>5, <2>7, <2>8
<1> QED BY <1>2, <1>7, <1>8 DEF G, N, L

\* Zero has no bits.
LEMMA NoBits ==
    ASSUME NEW k \in 0 .. 16 PROVE Bit(0, k) = 0
<1>1. TwoTo[k] \in Nat /\ TwoTo[k] > 0
  BY PowerType
<1>2. 0 = TwoTo[k] * 0 + 0 /\ 0 \in 0 .. TwoTo[k] - 1
  BY <1>1
<1>3. 0 \div TwoTo[k] = 0
  BY <1>1, <1>2, DivUnique
<1>4. Bit(0, k) = (0 \div TwoTo[k]) % 2
  BY BitIs
<1> QED BY <1>3, <1>4

\* The last group has the bits that are left over, and zeros after them.
LEMMA LastGroupBits ==
    ASSUME NEW from \in {5, 8}, NEW to \in {5, 8}, from + to = 13,
           NEW data \in Seq(Group(from))
    PROVE  LET r == BitsLeft(data, from, to)
               g == LastGroup(data, from, to)
           IN  /\ r \in 0 .. to - 1 /\ g \in Group(to)
               /\ \A j \in 0 .. r - 1 :
                     Bit(g, to - 1 - j) = BitAt(data, from, from * Len(data) - r + j)
               /\ \A j \in r .. to - 1 : Bit(g, to - 1 - j) = 0
<1> DEFINE L == Len(data)
           r == BitsLeft(data, from, to)
           a == Accumulated(data, from)[L]
           h == to - r
           g == LastGroup(data, from, to)
           t == TwoTo[to]
<1>1. L \in Nat
  OBVIOUS
<1>2. r = (L * from) % to
  BY DEF BitsLeft
<1> HIDE DEF L, r
<1>3. r \in 0 .. to - 1 /\ r <= from * L
  <2>1. CASE from = 5 /\ to = 8
    BY <1>1, <1>2, <2>1
  <2>2. CASE from = 8 /\ to = 5
    BY <1>1, <1>2, <2>2
  <2> QED BY <2>1, <2>2
<1>4. a \in Nat
  <2>1. data \in Seq(Nat)
    BY GroupType
  <2>2. L \in 0 .. Len(data)
    BY <1>1 DEF L
  <2> QED BY <2>1, <2>2, AccumulatedLoop
<1>5. h \in 0 .. 8 /\ h \in 0 .. 16 /\ h <= to
  BY <1>3
<1>6. g = (a * TwoTo[h]) % t
  <2>1. g = (a * 2^h) % 2^to
    BY Zenon DEF LastGroup, L, r
  <2>2. 2^to = t
    BY GroupType
  <2>3. 2^h = TwoTo[h]
    BY <1>5, PowerIs, Zenon
  <2> QED BY <2>1, <2>2, <2>3, Zenon
<1> HIDE DEF a, g
<1>7. t \in Nat /\ t > 0 /\ t * 1 = t
  BY GroupType
<1> HIDE DEF t
<1>8. TwoTo[h] \in Nat /\ TwoTo[h] > 0
  BY <1>5, PowerType
<1> HIDE DEF h
<1> DEFINE y == a * TwoTo[h]
<1>9. y \in Nat
  BY <1>4, <1>8, MulFacts
<1>10. ASSUME NEW k \in 0 .. to - 1
       PROVE  Bit(g, k) = IF k < h THEN 0 ELSE Bit(a, k - h)
  <2>1. k \in 0 .. 15 /\ k \in 0 .. 16
    OBVIOUS
  <2>2. 0 \in 0 .. TwoTo[h] - 1
    BY <1>8
  <2>3. Bit(y + 0, k) = IF k < h THEN Bit(0, k) ELSE Bit(a, k - h)
    BY <1>4, <1>5, <2>1, <2>2, BitOfPair
  <2>4. y + 0 = y
    BY <1>9
  <2> HIDE DEF y
  <2>5. Bit(y % (t * 1), k) = Bit(y, k)
    <3>1. to \in 1 .. 16
      OBVIOUS
    <3> QED BY <1>9, <3>1, BitMod DEF t
  <2>6. Bit(0, k) = 0
    BY <2>1, NoBits
  <2> QED BY <1>6, <1>7, <2>3, <2>4, <2>5, <2>6 DEF y
<1>11. g \in Group(to)
  <2> HIDE DEF y
  <2>1. y % t \in 0 .. t - 1
    BY <1>7, <1>9, DivParts
  <2> QED BY <1>6, <2>1 DEF y, t, Group
<1>12. ASSUME NEW j \in r .. to - 1 PROVE Bit(g, to - 1 - j) = 0
  <2>1. to - 1 - j \in 0 .. to - 1 /\ to - 1 - j < h
    BY <1>3 DEF h
  <2> QED BY <1>10, <2>1
<1>13. ASSUME NEW j \in 0 .. r - 1
       PROVE  Bit(g, to - 1 - j) = BitAt(data, from, from * Len(data) - r + j)
  <2> DEFINE b == r - 1 - j
  <2>1. to - 1 - j \in 0 .. to - 1 /\ ~(to - 1 - j < h) /\ (to - 1 - j) - h = b
    BY <1>3 DEF h
  <2>2. b \in 0 .. 15 /\ b < from * L
    BY <1>1, <1>3
  <2>3. Bit(g, to - 1 - j) = Bit(a, b)
    BY <1>10, <2>1
  <2>4. from * L \in Nat
    BY <1>1
  <2>5. from * L - 1 - b = from * L - r + j
    BY <1>3, <2>4
  <2> HIDE DEF b
  <2>6. L \in 0 .. Len(data)
    BY <1>1 DEF L
  <2>7. Bit(a, b) = BitAt(data, from, from * L - 1 - b)
    BY <2>2, <2>6, AccumulatedBits DEF a
  <2> QED BY <2>3, <2>5, <2>7 DEF L
<1> QED BY <1>3, <1>11, <1>12, <1>13 DEF r, g

\* Groups with the same bits are the same.
LEMMA SameGroup ==
    ASSUME NEW w \in {5, 8}, NEW a \in Group(w), NEW b \in Group(w),
           \A k \in 0 .. w - 1 : Bit(a, k) = Bit(b, k)
    PROVE  a = b
<1>1. CASE w = 5
  <2>1. a \in Five /\ b \in Five
    BY <1>1, Powers DEF Group, Five
  <2> QED BY <1>1, <2>1, SameBits
<1>2. CASE w = 8
  <2>1. a \in 0 .. 255 /\ b \in 0 .. 255
    BY <1>2, Powers DEF Group
  <2>2. /\ Bit(a, 0) = Bit(b, 0) /\ Bit(a, 1) = Bit(b, 1) /\ Bit(a, 2) = Bit(b, 2)
        /\ Bit(a, 3) = Bit(b, 3) /\ Bit(a, 4) = Bit(b, 4) /\ Bit(a, 5) = Bit(b, 5)
        /\ Bit(a, 6) = Bit(b, 6) /\ Bit(a, 7) = Bit(b, 7)
    BY <1>2
  <2>3. ASSUME NEW x \in 0 .. 255
        PROVE  x = Bit(x, 0) + 2 * Bit(x, 1) + 4 * Bit(x, 2) + 8 * Bit(x, 3)
                     + 16 * Bit(x, 4) + 32 * Bit(x, 5) + 64 * Bit(x, 6) + 128 * Bit(x, 7)
    BY SMT DEF Bit
  <2> QED BY <2>1, <2>2, <2>3
<1> QED BY <1>1, <1>2

\* Sequences of groups with the same bits are the same.
LEMMA SameGroups ==
    ASSUME NEW w \in {5, 8}, NEW s \in Seq(Group(w)), NEW t \in Seq(Group(w)),
           Len(s) = Len(t),
           \A n \in 0 .. w * Len(s) - 1 : BitAt(s, w, n) = BitAt(t, w, n)
    PROVE  s = t
<1>1. ASSUME NEW i \in 1 .. Len(s) PROVE s[i] = t[i]
  <2>1. s[i] \in Group(w) /\ t[i] \in Group(w) /\ Len(s) \in Nat
    OBVIOUS
  <2> DEFINE l == Len(s)
  <2> HIDE DEF l
  <2>2. l \in Nat /\ i \in 1 .. l
    BY <2>1 DEF l
  <2>3. ASSUME NEW k \in 0 .. w - 1 PROVE Bit(s[i], k) = Bit(t[i], k)
    <3> DEFINE n == w * i - 1 - k
    <3>1. n \in 0 .. w * l - 1 /\ n \div w + 1 = i /\ w - 1 - (n % w) = k
      <4>1. CASE w = 5
        BY <2>2, <4>1
      <4>2. CASE w = 8
        BY <2>2, <4>2
      <4> QED BY <4>1, <4>2
    <3> HIDE DEF n
    <3>2. BitAt(s, w, n) = Bit(s[i], k) /\ BitAt(t, w, n) = Bit(t[i], k)
      BY <3>1, Zenon DEF BitAt
    <3> QED BY <3>1, <3>2 DEF l
  <2> QED BY <2>1, <2>3, SameGroup
<1> QED BY <1>1

\* The values of 5 and of 8 bits are the groups of those widths.
LEMMA Sets == Five = Group(5) /\ Byte = Group(8)
BY Powers DEF Five, Byte, Group

\* A bit of a program is a bit of one of its bytes, or 0 after the last one.
LEMMA BitOfIs ==
    ASSUME NEW p \in Seq(Byte), NEW n \in Nat
    PROVE  BitOf(p, n) = IF n < 8 * Len(p) THEN BitAt(p, 8, n) ELSE 0
<1>1. 8 - 1 - (n % 8) = 7 - (n % 8)
  OBVIOUS
<1> QED BY <1>1, Zenon DEF BitOf, BitAt, Bit

\* It is 0 or 1.
LEMMA BitOfType ==
    ASSUME NEW p \in Seq(Byte), NEW n \in Nat
    PROVE  BitOf(p, n) \in 0 .. 1
<1>1. CASE n < 8 * Len(p)
  <2>1. n \div 8 + 1 \in 1 .. Len(p) /\ 8 - 1 - (n % 8) \in 0 .. 16
    BY <1>1
  <2> DEFINE k == 8 - 1 - (n % 8)
             b == p[n \div 8 + 1]
  <2>2. b \in Nat
    <3>1. b \in Byte
      BY <2>1, ElementOfSeq
    <3> HIDE DEF b
    <3> QED BY <3>1 DEF Byte
  <2> HIDE DEF k, b
  <2>3. Bit(b, k) \in 0 .. 1
    BY <2>1, <2>2, BitIs DEF k
  <2> QED BY <1>1, <2>3, BitOfIs DEF BitAt, k, b
<1>2. CASE ~(n < 8 * Len(p))
  BY <1>2, BitOfIs
<1> QED BY <1>1, <1>2

\* ConvertBits makes groups of 5 bits that have the bits of the program, in
\* order, and zeros at the end.
LEMMA ProgramBits ==
    ASSUME NEW p \in Seq(Byte)
    PROVE  LET g == ConvertBits(p, 8, 5, TRUE)
           IN  /\ g \in Seq(Five) /\ Len(g) = (8 * Len(p) + 4) \div 5
               /\ \A n \in 0 .. 5 * Len(g) - 1 : BitAt(g, 5, n) = BitOf(p, n)
<1> DEFINE L == Len(p)
           N == (L * 8) \div 5
           G == FullGroups(p, 8, 5)
           r == BitsLeft(p, 8, 5)
           l == LastGroup(p, 8, 5)
           g == ConvertBits(p, 8, 5, TRUE)
<1>1. L \in Nat /\ p \in Seq(Group(8))
  BY Sets
<1>2. /\ N \in Nat /\ G \in Seq(Five) /\ Len(G) = N
      /\ \A n \in 0 .. 5 * N - 1 : BitAt(G, 5, n) = BitAt(p, 8, n)
  BY <1>1, Sets, FullGroupsBits
<1>3. /\ r \in 0 .. 4 /\ l \in Five
      /\ \A j \in 0 .. r - 1 : Bit(l, 4 - j) = BitAt(p, 8, 8 * L - r + j)
      /\ \A j \in r .. 4 : Bit(l, 4 - j) = 0
  BY <1>1, Sets, LastGroupBits
<1>4. r = (L * 8) % 5
  BY DEF BitsLeft
<1>5. g = IF r > 0 THEN Append(G, l) ELSE G
  BY DEF ConvertBits
<1> HIDE DEF G, r, l, g, L
<1>6. 8 * L - r = 5 * N
  BY <1>1, <1>4
<1> HIDE DEF N
<1>7. CASE r = 0
  <2>1. g = G /\ N = (8 * L + 4) \div 5
    BY <1>1, <1>2, <1>5, <1>6, <1>7
  <2>2. ASSUME NEW n \in 0 .. 5 * N - 1 PROVE BitAt(g, 5, n) = BitOf(p, n)
    <3>1. n \in Nat /\ n < 8 * L
      BY <1>1, <1>2, <1>6, <1>7
    <3> QED BY <1>2, <2>1, <3>1, BitOfIs DEF L
  <2> QED BY <1>2, <2>1, <2>2 DEF g, L
<1>8. CASE r # 0
  <2>1. g = Append(G, l) /\ N + 1 = (8 * L + 4) \div 5
    BY <1>1, <1>2, <1>3, <1>5, <1>6, <1>8
  <2>2. /\ g \in Seq(Five) /\ Len(g) = N + 1 /\ g[N + 1] = l
        /\ \A i \in 1 .. N : g[i] = G[i]
    <3>1. /\ Append(G, l) \in Seq(Five) /\ Len(Append(G, l)) = Len(G) + 1
          /\ Append(G, l)[Len(G) + 1] = l
          /\ \A i \in 1 .. Len(G) : Append(G, l)[i] = G[i]
      BY <1>2, <1>3, AppendProperties
    <3> QED BY <1>2, <2>1, <3>1
  <2>3. ASSUME NEW n \in 0 .. 5 * (N + 1) - 1 PROVE BitAt(g, 5, n) = BitOf(p, n)
    <3>1. n \in Nat
      BY <1>2
    <3>2. CASE n < 5 * N
      <4>1. n \div 5 + 1 \in 1 .. N /\ n < 8 * L /\ n \in 0 .. 5 * N - 1
        BY <1>1, <1>2, <1>3, <1>6, <3>2
      <4>2. g[n \div 5 + 1] = G[n \div 5 + 1]
        BY <2>2, <4>1
      <4>3. BitAt(g, 5, n) = BitAt(G, 5, n)
        BY <4>2, Zenon DEF BitAt
      <4> QED BY <1>2, <3>1, <4>1, <4>3, BitOfIs DEF L
    <3>3. CASE ~(n < 5 * N)
      <4> DEFINE j == n - 5 * N
      <4>1. n \div 5 + 1 = N + 1 /\ 5 - 1 - (n % 5) = 4 - j /\ j \in 0 .. 4 /\ n = 5 * N + j
        BY <1>2, <3>3
      <4> HIDE DEF j
      <4>2. BitAt(g, 5, n) = Bit(l, 4 - j)
        BY <2>2, <4>1, Zenon DEF BitAt
      <4>3. CASE j < r
        <5>1. n < 8 * L /\ j \in 0 .. r - 1 /\ 8 * L - r + j = n
          BY <1>1, <1>2, <1>3, <1>6, <4>1, <4>3
        <5> QED BY <1>3, <3>1, <4>2, <5>1, BitOfIs DEF L
      <4>4. CASE ~(j < r)
        <5>1. ~(n < 8 * L) /\ j \in r .. 4
          BY <1>1, <1>2, <1>3, <1>6, <4>1, <4>4
        <5> QED BY <1>3, <3>1, <4>2, <5>1, BitOfIs DEF L
      <4> QED BY <4>3, <4>4
    <3> QED BY <3>2, <3>3
  <2> QED BY <2>1, <2>2, <2>3 DEF g, L
<1> QED BY <1>7, <1>8

\* The groups that ConvertBits makes of a program are those of BIP 173.
LEMMA ProgramGroups ==
    ASSUME NEW p \in Seq(Byte)
    PROVE  ConvertBits(p, 8, 5, TRUE) = GroupsOf(p)
<1> DEFINE M == (8 * Len(p) + 4) \div 5
           b(m, j) == BitOf(p, 5 * (m - 1) + j)
           g == ConvertBits(p, 8, 5, TRUE)
           h == GroupsOf(p)
<1>1. M \in Nat
  OBVIOUS
<1>2. h = [m \in 1 .. M |-> 16 * b(m, 0) + 8 * b(m, 1) + 4 * b(m, 2) + 2 * b(m, 3) + b(m, 4)]
  BY DEF GroupsOf
<1> HIDE DEF M, h
<1>3. ASSUME NEW m \in 1 .. M
      PROVE  /\ h[m] \in Five
             /\ Bit(h[m], 0) = b(m, 4) /\ Bit(h[m], 1) = b(m, 3) /\ Bit(h[m], 2) = b(m, 2)
             /\ Bit(h[m], 3) = b(m, 1) /\ Bit(h[m], 4) = b(m, 0)
  <2>1. \A j \in 0 .. 4 : 5 * (m - 1) + j \in Nat
    BY <1>1
  <2>2. \A j \in 0 .. 4 : b(m, j) \in 0 .. 1
    BY <2>1, BitOfType
  <2>3. b(m, 0) \in 0 .. 1 /\ b(m, 1) \in 0 .. 1 /\ b(m, 2) \in 0 .. 1
          /\ b(m, 3) \in 0 .. 1 /\ b(m, 4) \in 0 .. 1
    BY <2>2
  <2> DEFINE b0 == b(m, 0)
             b1 == b(m, 1)
             b2 == b(m, 2)
             b3 == b(m, 3)
             b4 == b(m, 4)
             c  == h[m]
  <2>4. c = 16 * b0 + 8 * b1 + 4 * b2 + 2 * b3 + b4
    BY <1>2, Zenon
  <2> HIDE DEF b, b0, b1, b2, b3, b4, c
  <2>5. b0 \in 0 .. 1 /\ b1 \in 0 .. 1 /\ b2 \in 0 .. 1 /\ b3 \in 0 .. 1 /\ b4 \in 0 .. 1
    BY <2>3 DEF b0, b1, b2, b3, b4
  <2>6. c = b4 + 2 * b3 + 4 * b2 + 8 * b1 + 16 * b0
    BY <2>4, <2>5
  <2>7. /\ c \in Five
        /\ Bit(c, 0) = b4 /\ Bit(c, 1) = b3 /\ Bit(c, 2) = b2 /\ Bit(c, 3) = b1
        /\ Bit(c, 4) = b0
    BY <2>5, <2>6, SMT DEF Bit, Five
  <2> QED BY <2>7 DEF b0, b1, b2, b3, b4, c
<1>4. h \in Seq(Five) /\ Len(h) = M
  <2>1. h \in [1 .. M -> Five]
    BY <1>2, <1>3
  <2> QED BY <1>1, <2>1
<1>5. /\ g \in Seq(Five) /\ Len(g) = M
      /\ \A n \in 0 .. 5 * M - 1 : BitAt(g, 5, n) = BitOf(p, n)
  BY ProgramBits DEF M
<1> HIDE DEF g
<1>6. ASSUME NEW n \in 0 .. 5 * M - 1 PROVE BitAt(h, 5, n) = BitOf(p, n)
  <2> DEFINE m == n \div 5 + 1
             j == n % 5
  <2>1. m \in 1 .. M /\ j \in 0 .. 4 /\ 5 * (m - 1) + j = n
    BY <1>1
  <2>2. BitAt(h, 5, n) = Bit(h[m], 5 - 1 - j)
    BY Zenon DEF BitAt
  <2> HIDE DEF m, j
  <2>3. b(m, j) = BitOf(p, n)
    BY <2>1, Zenon
  <2> HIDE DEF b
  <2>4. \/ (j = 0 /\ 5 - 1 - j = 4)
        \/ (j = 1 /\ 5 - 1 - j = 3)
        \/ (j = 2 /\ 5 - 1 - j = 2)
        \/ (j = 3 /\ 5 - 1 - j = 1)
        \/ (j = 4 /\ 5 - 1 - j = 0)
    BY <2>1
  <2> QED BY <1>3, <2>1, <2>2, <2>3, <2>4
<1>7. g = h
  BY <1>4, <1>5, <1>6, Sets, SameGroups
<1> QED BY <1>7 DEF g, h

\* Bytes are told from what ConvertBits returns for an error.
LEMMA BytesAreValid ==
    ASSUME NEW f \in Seq(Byte) PROVE f # Invalid /\ f # Nothing
<1>1. ASSUME NEW n \in Int, f = <<n>> PROVE n \in Byte
  <2>1. Len(f) = 1 /\ f[1] = n
    BY <1>1
  <2>2. f[1] \in Byte
    BY <2>1, ElementOfSeq
  <2> QED BY <2>1, <2>2
<1>2. -1 \in Int /\ -2 \in Int /\ ~(-1 \in Byte) /\ ~(-2 \in Byte)
  BY DEF Byte
<1> QED BY <1>1, <1>2 DEF Invalid, Nothing

\* What ConvertBits reads from groups of 5 bits.
LEMMA GroupsAreRead ==
    ASSUME NEW g \in Seq(Five)
    PROVE  LET q == ConvertBits(g, 5, 8, FALSE)
               N == (5 * Len(g)) \div 8
               k == (5 * Len(g)) % 8
           IN  /\ k <= 4 /\ (\A n \in 8 * N .. 5 * Len(g) - 1 : BitAt(g, 5, n) = 0)
                     => q # Invalid
               /\ q # Invalid =>
                    /\ q \in Seq(Byte) /\ Len(q) = N /\ k <= 4
                    /\ \A n \in 0 .. 8 * N - 1 : BitAt(q, 8, n) = BitAt(g, 5, n)
                    /\ \A n \in 8 * N .. 5 * Len(g) - 1 : BitAt(g, 5, n) = 0
<1> DEFINE L == Len(g)
           q == ConvertBits(g, 5, 8, FALSE)
           N == (5 * L) \div 8
           k == (5 * L) % 8
           F == FullGroups(g, 5, 8)
           l == LastGroup(g, 5, 8)
<1>1. L \in Nat /\ g \in Seq(Group(5))
  BY Sets
<1>2. L * 5 = 5 * L
  BY <1>1
<1>3. BitsLeft(g, 5, 8) = k
  BY <1>2 DEF BitsLeft
<1>4. /\ F \in Seq(Byte) /\ Len(F) = N
      /\ \A n \in 0 .. 8 * N - 1 : BitAt(F, 8, n) = BitAt(g, 5, n)
  BY <1>1, <1>2, Sets, FullGroupsBits
<1>5. /\ l \in Byte
      /\ \A j \in 0 .. k - 1 : Bit(l, 7 - j) = BitAt(g, 5, 5 * L - k + j)
      /\ \A j \in k .. 7 : Bit(l, 7 - j) = 0
  <2> DEFINE r == BitsLeft(g, 5, 8)
  <2>1. /\ l \in Byte
        /\ \A j \in 0 .. r - 1 : Bit(l, 8 - 1 - j) = BitAt(g, 5, 5 * L - r + j)
        /\ \A j \in r .. 8 - 1 : Bit(l, 8 - 1 - j) = 0
    BY <1>1, Sets, LastGroupBits
  <2>2. r = k /\ k \in 0 .. 7
    BY <1>1, <1>3
  <2> HIDE DEF l, r, k, L
  <2>3. \A j \in 0 .. 7 : 8 - 1 - j = 7 - j
    OBVIOUS
  <2> QED BY <2>1, <2>2, <2>3
<1>6. q = IF k >= 5 \/ l # 0 THEN Invalid ELSE F
  BY <1>3 DEF ConvertBits
<1> HIDE DEF F
<1>7. F # Invalid
  BY <1>4, BytesAreValid
<1> HIDE DEF l, q, L, N, k
<1>8. 5 * L = 8 * N + k /\ k \in 0 .. 7 /\ N \in Nat
  BY <1>1 DEF N, k
<1>9. l = 0 <=> \A n \in 8 * N .. 5 * L - 1 : BitAt(g, 5, n) = 0
  <2>1. ASSUME l = 0, NEW n \in 8 * N .. 5 * L - 1 PROVE BitAt(g, 5, n) = 0
    <3> DEFINE j == n - 8 * N
    <3>1. j \in 0 .. k - 1 /\ 5 * L - k + j = n /\ 7 - j \in 0 .. 16
      BY <1>8
    <3> HIDE DEF j
    <3> QED BY <1>5, <2>1, <3>1, NoBits
  <2>2. ASSUME \A n \in 8 * N .. 5 * L - 1 : BitAt(g, 5, n) = 0 PROVE l = 0
    <3>1. ASSUME NEW i \in 0 .. 7 PROVE Bit(l, i) = Bit(0, i)
      <4> DEFINE j == 7 - i
      <4>1. j \in 0 .. 7 /\ 7 - j = i /\ i \in 0 .. 16
        OBVIOUS
      <4> HIDE DEF j
      <4>2. CASE j < k
        <5>1. j \in 0 .. k - 1 /\ 5 * L - k + j \in 8 * N .. 5 * L - 1
          BY <1>8, <4>1, <4>2
        <5> QED BY <1>5, <2>2, <4>1, <5>1, NoBits
      <4>3. CASE ~(j < k)
        <5>1. j \in k .. 7
          BY <1>8, <4>1, <4>3
        <5> QED BY <1>5, <4>1, <5>1, NoBits
      <4> QED BY <4>2, <4>3
    <3>2. 0 \in Byte
      BY DEF Byte
    <3> QED BY <1>5, <3>1, <3>2, Sets, SameGroup
  <2> QED BY <2>1, <2>2
<1>10. k >= 5 <=> ~(k <= 4)
  BY <1>8
<1>11. k <= 4 /\ (\A n \in 8 * N .. 5 * L - 1 : BitAt(g, 5, n) = 0) => q # Invalid
  BY <1>6, <1>7, <1>9, <1>10
<1>12. q # Invalid => q = F /\ k <= 4 /\ l = 0
  BY <1>6, <1>10
<1> QED BY <1>4, <1>9, <1>11, <1>12 DEF q, L, N, k

\* What was read is what the groups encode, and nothing else.
LEMMA ReadGroups ==
    ASSUME NEW g \in Seq(Five), ConvertBits(g, 5, 8, FALSE) # Invalid
    PROVE  /\ ConvertBits(g, 5, 8, FALSE) \in Seq(Byte)
           /\ ConvertBits(ConvertBits(g, 5, 8, FALSE), 8, 5, TRUE) = g
<1> DEFINE L == Len(g)
           q == ConvertBits(g, 5, 8, FALSE)
           N == (5 * L) \div 8
           k == (5 * L) % 8
           h == ConvertBits(q, 8, 5, TRUE)
<1>1. /\ q \in Seq(Byte) /\ Len(q) = N /\ k <= 4
      /\ \A n \in 0 .. 8 * N - 1 : BitAt(q, 8, n) = BitAt(g, 5, n)
      /\ \A n \in 8 * N .. 5 * L - 1 : BitAt(g, 5, n) = 0
  BY GroupsAreRead
<1>2. L \in Nat
  OBVIOUS
<1> HIDE DEF L, q
<1>3. /\ h \in Seq(Five) /\ Len(h) = (8 * Len(q) + 4) \div 5
      /\ \A n \in 0 .. 5 * Len(h) - 1 : BitAt(h, 5, n) = BitOf(q, n)
  BY <1>1, ProgramBits
<1>4. 5 * L = 8 * N + k /\ k \in 0 .. 4 /\ N \in Nat
  BY <1>1, <1>2
<1> HIDE DEF N, k, h
<1>5. Len(h) = L
  <2>1. (8 * N + 4) \div 5 = L
    BY <1>2, <1>4
  <2> QED BY <1>1, <1>3, <2>1
<1>6. ASSUME NEW n \in 0 .. 5 * L - 1 PROVE BitAt(h, 5, n) = BitAt(g, 5, n)
  <2>1. n \in Nat /\ BitAt(h, 5, n) = BitOf(q, n)
    BY <1>2, <1>3, <1>5
  <2>2. CASE n < 8 * N
    <3>1. n \in 0 .. 8 * N - 1
      BY <1>4, <2>1, <2>2
    <3> QED BY <1>1, <2>1, <2>2, <3>1, BitOfIs
  <2>3. CASE ~(n < 8 * N)
    <3>1. n \in 8 * N .. 5 * L - 1
      BY <1>2, <1>4, <2>1, <2>3
    <3> QED BY <1>1, <2>1, <2>3, <3>1, BitOfIs
  <2> QED BY <2>2, <2>3
<1>7. h = g
  BY <1>3, <1>5, <1>6, Sets, SameGroups DEF L
<1> QED BY <1>1, <1>7 DEF h, q

\* A program is read back from its groups.
LEMMA ProgramIsRead ==
    ASSUME NEW p \in Seq(Byte)
    PROVE  ConvertBits(ConvertBits(p, 8, 5, TRUE), 5, 8, FALSE) = p
<1> DEFINE P == Len(p)
           g == ConvertBits(p, 8, 5, TRUE)
           L == Len(g)
           q == ConvertBits(g, 5, 8, FALSE)
           N == (5 * L) \div 8
           k == (5 * L) % 8
<1>1. /\ g \in Seq(Five) /\ L = (8 * P + 4) \div 5
      /\ \A n \in 0 .. 5 * L - 1 : BitAt(g, 5, n) = BitOf(p, n)
  BY ProgramBits
<1>2. P \in Nat
  OBVIOUS
<1> HIDE DEF g, P
<1>3. /\ k <= 4 /\ (\A n \in 8 * N .. 5 * L - 1 : BitAt(g, 5, n) = 0) => q # Invalid
      /\ q # Invalid =>
            /\ q \in Seq(Byte) /\ Len(q) = N
            /\ \A n \in 0 .. 8 * N - 1 : BitAt(q, 8, n) = BitAt(g, 5, n)
  BY <1>1, GroupsAreRead
<1>4. L \in Nat /\ N = P /\ k \in 0 .. 4 /\ k <= 4 /\ 5 * L = 8 * P + k
  <2>1. L \in Nat
    BY <1>1
  <2> HIDE DEF L
  <2>2. 8 * P + 4 = 5 * L + ((8 * P + 4) % 5)
    BY <1>1, <1>2, <2>1
  <2>3. 5 * L - 8 * P \in 0 .. 4
    BY <1>2, <2>1, <2>2
  <2> QED BY <1>2, <2>1, <2>3
<1> HIDE DEF q, L, N, k
<1>5. ASSUME NEW n \in 8 * P .. 5 * L - 1 PROVE BitAt(g, 5, n) = 0
  <2>1. n \in 0 .. 5 * L - 1 /\ n \in Nat /\ ~(n < 8 * P)
    BY <1>2, <1>4
  <2> QED BY <1>1, <2>1, BitOfIs DEF P
<1>6. /\ q \in Seq(Byte) /\ Len(q) = P
      /\ \A n \in 0 .. 8 * P - 1 : BitAt(q, 8, n) = BitAt(g, 5, n)
  BY <1>3, <1>4, <1>5
<1>7. ASSUME NEW n \in 0 .. 8 * P - 1 PROVE BitAt(q, 8, n) = BitAt(p, 8, n)
  <2>1. n \in 0 .. 5 * L - 1 /\ n \in Nat /\ n < 8 * P
    BY <1>2, <1>4
  <2> QED BY <1>1, <1>6, <2>1, BitOfIs DEF P
<1>8. q = p
  BY <1>6, <1>7, Sets, SameGroups DEF P
<1> QED BY <1>8 DEF q, g

-----------------------------------------------------------------------------
(* Texts. *)

\* The characters of the charset stand for different values, none is the
\* separator.
LEMMA Charset ==
    /\ \A d \in Five : /\ CharOf(d) \in Code /\ CharOf(d) # Separator
                       /\ IsData(CharOf(d)) /\ ValueOf(CharOf(d)) = d
    /\ \A c : IsData(c) => ValueOf(c) \in Five /\ CharOf(ValueOf(c)) = c
<1>1. ASSUME NEW c, IsData(c) PROVE ValueOf(c) \in Five /\ CharOf(ValueOf(c)) = c
  BY <1>1 DEF IsData, ValueOf, Five
<1>2. ASSUME NEW d \in Five PROVE CharOf(d) \in Code /\ CharOf(d) # Separator
  BY SMT DEF CharOf, bech32Charset, Separator, Five, Code
<1>3. ASSUME NEW d \in Five, NEW e \in Five, CharOf(d) = CharOf(e) PROVE d = e
  BY <1>3, SMT DEF CharOf, bech32Charset, Five
<1>4. ASSUME NEW d \in Five PROVE IsData(CharOf(d)) /\ ValueOf(CharOf(d)) = d
  <2>1. IsData(CharOf(d))
    BY DEF IsData, Five
  <2>2. ValueOf(CharOf(d)) \in Five /\ CharOf(ValueOf(CharOf(d))) = CharOf(d)
    BY <1>1, <2>1
  <2> HIDE DEF Five
  <2> QED BY <1>3, <2>1, <2>2
<1> QED BY <1>1, <1>2, <1>4

\* A set of positions has a last one.
LEMMA LastOf ==
    ASSUME NEW n \in Nat, NEW S, S \subseteq 1 .. n, S # {}
    PROVE  \E i \in S : \A j \in S : j <= i
<1> DEFINE U == {m \in 0 .. n : (\E i \in S : i >= n - m) => \E i \in S : \A j \in S : j <= i}
<1>1. 0 \in U
  BY SMT
<1>2. ASSUME NEW m \in 1 .. n, m - 1 \in U PROVE m \in U
  <2>1. CASE \E i \in S : i >= n - (m - 1)
    BY <1>2, <2>1
  <2>2. CASE ~ \E i \in S : i >= n - (m - 1)
    <3>1. \A i \in S : i <= n - m
      BY <2>2
    <3>2. ASSUME NEW i \in S, i >= n - m PROVE \A j \in S : j <= i
      BY <3>1, <3>2
    <3> QED BY <3>2
  <2> QED BY <2>1, <2>2
<1>3. 0 .. n \subseteq U
  <2>1. \A m \in 1 .. n : m - 1 \in U => m \in U
    BY <1>2
  <2> HIDE DEF U
  <2> QED BY <1>1, <2>1, RangeInduction
<1>4. n \in U
  BY <1>3
<1>5. \E i \in S : i >= n - n
  <2>1. PICK i \in S : TRUE
    OBVIOUS
  <2>2. i \in 1 .. n /\ n - n = 0
    OBVIOUS
  <2>3. i >= n - n
    BY <2>2
  <2> QED BY <2>3
<1> QED BY <1>4, <1>5

\* A human-readable part, the separator, and characters of the charset are
\* read as they were put together.
LEMMA PartsOfText ==
    ASSUME NEW hrp \in Seq(Code), NEW v \in Seq(Five), NEW chars,
           chars = [i \in 1 .. Len(v) |-> CharOf(v[i])]
    PROVE  LET t == hrp \o <<Separator>> \o chars
           IN  /\ t \in Seq(Code) /\ Separators(t) # {}
               /\ HrpPart(t) = hrp /\ Values(t) = v /\ Len(DataPart(t)) = Len(v)
               /\ \A i \in 1 .. Len(DataPart(t)) : IsData(DataPart(t)[i])
<1> DEFINE h == Len(hrp)
           n == Len(v)
           t == hrp \o <<Separator>> \o chars
<1>1. h \in Nat /\ n \in Nat /\ \A i \in 1 .. n : v[i] \in Five
  OBVIOUS
<1>2. chars \in Seq(Code) /\ Len(chars) = n
  <2>1. chars \in [1 .. n -> Code]
    BY <1>1, Charset
  <2> QED BY <1>1, <2>1
<1>3. \A i \in 1 .. n : chars[i] = CharOf(v[i])
  OBVIOUS
<1>4. <<Separator>> \in Seq(Code) /\ Len(<<Separator>>) = 1 /\ <<Separator>>[1] = Separator
  BY DEF Separator, Code
<1>5. /\ t \in Seq(Code) /\ Len(t) = h + 1 + n
      /\ \A i \in 1 .. h : t[i] = hrp[i]
      /\ t[h + 1] = Separator
      /\ \A i \in 1 .. n : t[h + 1 + i] = chars[i]
  <2> DEFINE u == hrp \o <<Separator>>
  <2>1. /\ u \in Seq(Code) /\ Len(u) = h + 1
        /\ \A i \in 1 .. h + 1 : u[i] = IF i <= h THEN hrp[i] ELSE <<Separator>>[i - h]
    BY <1>4, ConcatProperties
  <2> HIDE DEF u, h, n
  <2>2. /\ u \o chars \in Seq(Code) /\ Len(u \o chars) = Len(u) + n
        /\ \A i \in 1 .. Len(u) + n :
              (u \o chars)[i] = IF i <= Len(u) THEN u[i] ELSE chars[i - Len(u)]
    BY <1>2, <2>1, ConcatProperties
  <2>3. t = u \o chars
    BY DEF u
  <2> HIDE DEF t
  <2>4. t \in Seq(Code) /\ Len(t) = h + 1 + n
    BY <2>1, <2>2, <2>3
  <2>5. ASSUME NEW i \in 1 .. h PROVE t[i] = hrp[i]
    <3>1. i <= h /\ i <= h + 1 /\ i \in 1 .. h + 1 /\ i \in 1 .. h + 1 + n
      BY <1>1
    <3> QED BY <2>1, <2>2, <2>3, <3>1
  <2>6. t[h + 1] = Separator
    <3>1. /\ ~(h + 1 <= h) /\ (h + 1) - h = 1 /\ h + 1 <= h + 1
          /\ h + 1 \in 1 .. h + 1 /\ h + 1 \in 1 .. h + 1 + n
      BY <1>1
    <3> QED BY <1>4, <2>1, <2>2, <2>3, <3>1
  <2>7. ASSUME NEW i \in 1 .. n PROVE t[h + 1 + i] = chars[i]
    <3>1. ~(h + 1 + i <= h + 1) /\ h + 1 + i - (h + 1) = i /\ h + 1 + i \in 1 .. h + 1 + n
      BY <1>1
    <3> QED BY <2>1, <2>2, <2>3, <3>1
  <2> QED BY <2>4, <2>5, <2>6, <2>7
<1> HIDE DEF t, h, n
<1>6. h + 1 \in Separators(t)
  BY <1>1, <1>5 DEF Separators
<1>7. ASSUME NEW i \in Separators(t) PROVE i <= h + 1
  <2>1. i \in 1 .. h + 1 + n /\ t[i] = Separator
    BY <1>5 DEF Separators
  <2>2. CASE i > h + 1
    <3>1. i - (h + 1) \in 1 .. n /\ h + 1 + (i - (h + 1)) = i
      BY <1>1, <2>1, <2>2
    <3>2. t[i] = CharOf(v[i - (h + 1)])
      BY <1>3, <1>5, <3>1
    <3> QED BY <1>1, <2>1, <3>1, <3>2, Charset
  <2> QED BY <1>1, <2>1, <2>2
<1>8. LastSeparator(t) = h + 1
  <2>1. LastSeparator(t) \in Separators(t) /\ \A j \in Separators(t) : j <= LastSeparator(t)
    BY <1>6, <1>7 DEF LastSeparator
  <2>2. LastSeparator(t) <= h + 1 /\ h + 1 <= LastSeparator(t) /\ LastSeparator(t) \in Nat
    BY <1>1, <1>5, <1>6, <1>7, <2>1 DEF Separators
  <2> QED BY <1>1, <2>2
<1>9. HrpPart(t) = hrp
  <2>1. HrpPart(t) = SubSeq(t, 1, h)
    BY <1>1, <1>8 DEF HrpPart
  <2>2. SubSeq(t, 1, h) \in Seq(Code) /\ Len(SubSeq(t, 1, h)) = h
          /\ \A i \in 1 .. h : SubSeq(t, 1, h)[i] = t[i]
    BY <1>1, <1>5
  <2> QED BY <1>5, <2>1, <2>2 DEF h
<1>10. DataPart(t) = chars
  <2> DEFINE s == SubSeq(t, h + 2, h + 1 + n)
  <2>1. DataPart(t) = s
    BY <1>1, <1>5, <1>8 DEF DataPart
  <2>2. s \in Seq(Code) /\ Len(s) = n /\ \A i \in 1 .. n : s[i] = t[h + 1 + i]
    BY <1>1, <1>5
  <2> HIDE DEF s
  <2>3. \A i \in 1 .. n : s[i] = chars[i]
    BY <1>5, <2>2
  <2> QED BY <1>2, <2>1, <2>2, <2>3, SameSeq
<1>11. Values(t) = [i \in 1 .. n |-> ValueOf(chars[i])]
  BY <1>2, <1>10 DEF Values
<1>12. \A i \in 1 .. n : IsData(chars[i]) /\ ValueOf(chars[i]) = v[i]
  BY <1>1, <1>3, Charset
<1>13. Values(t) = v
  <2>1. Values(t) = [i \in 1 .. n |-> v[i]]
    BY <1>11, <1>12
  <2> QED BY <2>1 DEF n
<1> QED BY <1>2, <1>5, <1>6, <1>9, <1>10, <1>12, <1>13 DEF t, n

\* A text whose data are characters of the charset is put together again from
\* its parts.
LEMMA TextOfParts ==
    ASSUME NEW t \in Seq(Code), Separators(t) # {},
           \A i \in 1 .. Len(DataPart(t)) : IsData(DataPart(t)[i])
    PROVE  /\ HrpPart(t) \in Seq(Code) /\ Values(t) \in Seq(Five)
           /\ Len(Values(t)) = Len(DataPart(t))
           /\ t = HrpPart(t) \o <<Separator>>
                    \o [i \in 1 .. Len(Values(t)) |-> CharOf(Values(t)[i])]
<1> DEFINE l == Len(t)
           x == LastSeparator(t)
           h == HrpPart(t)
           d == DataPart(t)
           n == l - x
           v == Values(t)
           chars == [i \in 1 .. Len(v) |-> CharOf(v[i])]
<1>1. l \in Nat /\ \A i \in 1 .. l : t[i] \in Code
  OBVIOUS
<1>2. x \in 1 .. l /\ t[x] = Separator
  <2>1. Separators(t) \subseteq 1 .. l
    BY DEF Separators
  <2>2. \E i \in Separators(t) : \A j \in Separators(t) : j <= i
    <3> HIDE DEF l
    <3> QED BY <1>1, <2>1, LastOf
  <2>3. x \in Separators(t)
    BY <2>2 DEF LastSeparator
  <2> QED BY <2>3 DEF Separators
<1>3. h = SubSeq(t, 1, x - 1) /\ d = SubSeq(t, x + 1, l)
  BY DEF HrpPart, DataPart
<1> HIDE DEF l, x, h, d
<1>4. n \in Nat /\ x - 1 \in Nat
  BY <1>1, <1>2
<1>5. h \in Seq(Code) /\ Len(h) = x - 1 /\ \A i \in 1 .. x - 1 : h[i] = t[i]
  BY <1>1, <1>2, <1>3 DEF l
<1>6. d \in Seq(Code) /\ Len(d) = n /\ \A i \in 1 .. n : d[i] = t[x + i]
  BY <1>1, <1>2, <1>3 DEF l
<1>7. v = [i \in 1 .. n |-> ValueOf(d[i])]
  BY <1>6 DEF Values, d
<1>8. \A i \in 1 .. n : ValueOf(d[i]) \in Five /\ CharOf(ValueOf(d[i])) = d[i]
  BY <1>6, Charset DEF d
<1> HIDE DEF v, n
<1>9. v \in Seq(Five) /\ Len(v) = n
  <2>1. v \in [1 .. n -> Five]
    BY <1>7, <1>8
  <2> QED BY <1>4, <2>1
<1>10. chars \in Seq(Code) /\ Len(chars) = n /\ \A i \in 1 .. n : chars[i] = t[x + i]
  <2>1. \A i \in 1 .. n : CharOf(v[i]) = d[i] /\ d[i] \in Code
    BY <1>6, <1>7, <1>8
  <2>2. chars \in [1 .. n -> Code]
    BY <1>9, <2>1
  <2>3. \A i \in 1 .. n : chars[i] = d[i]
    BY <1>9, <2>1
  <2> HIDE DEF chars
  <2> QED BY <1>4, <1>6, <2>2, <2>3, TableIsSeq
<1>11. <<Separator>> \in Seq(Code) /\ Len(<<Separator>>) = 1 /\ <<Separator>>[1] = Separator
  BY DEF Separator, Code
<1> HIDE DEF chars
<1> DEFINE u == h \o <<Separator>>
           w == u \o chars
<1>12. /\ u \in Seq(Code) /\ Len(u) = x
       /\ \A i \in 1 .. x : u[i] = t[i]
  <2>1. /\ u \in Seq(Code) /\ Len(u) = x - 1 + 1
        /\ \A i \in 1 .. x - 1 + 1 :
              u[i] = IF i <= x - 1 THEN h[i] ELSE <<Separator>>[i - (x - 1)]
    BY <1>5, <1>11, ConcatProperties
  <2> HIDE DEF u
  <2>2. x - 1 + 1 = x
    BY <1>1, <1>2
  <2>3. ASSUME NEW i \in 1 .. x PROVE u[i] = t[i]
    <3>1. CASE i <= x - 1
      BY <1>2, <1>5, <2>1, <2>2, <3>1
    <3>2. CASE ~(i <= x - 1)
      <4>1. i = x /\ i - (x - 1) = 1
        BY <1>1, <1>2, <3>2
      <4> QED BY <1>2, <1>11, <2>1, <2>2, <3>2, <4>1
    <3> QED BY <3>1, <3>2
  <2> QED BY <2>1, <2>2, <2>3
<1> HIDE DEF u
<1>13. /\ w \in Seq(Code) /\ Len(w) = l
       /\ \A i \in 1 .. l : w[i] = t[i]
  <2>1. /\ w \in Seq(Code) /\ Len(w) = x + n
        /\ \A i \in 1 .. x + n : w[i] = IF i <= x THEN u[i] ELSE chars[i - x]
    BY <1>10, <1>12, ConcatProperties
  <2> HIDE DEF w
  <2>2. x + n = l
    BY <1>1, <1>2 DEF n
  <2>3. ASSUME NEW i \in 1 .. l PROVE w[i] = t[i]
    <3>1. CASE i <= x
      BY <1>1, <1>2, <1>12, <2>1, <2>2, <3>1
    <3>2. CASE ~(i <= x)
      <4>1. i - x \in 1 .. n /\ x + (i - x) = i
        BY <1>1, <1>2, <2>2, <3>2 DEF n
      <4> QED BY <1>10, <2>1, <2>2, <3>2, <4>1
    <3> QED BY <3>1, <3>2
  <2> QED BY <2>1, <2>2, <2>3
<1>14. w = t
  <2> HIDE DEF w
  <2> QED BY <1>13, SameSeq DEF l
<1> QED BY <1>5, <1>6, <1>9, <1>14 DEF w, u, chars, v, d, h, n

\* What the code or a wallet encodes is read as it was encoded.
LEMMA EncodedIsRead ==
    ASSUME NEW hrp \in Seq(Code), NEW data \in Seq(Five),
           NEW const \in {bech32Const, bech32mConst}
    PROVE  LET t == Encoded(hrp, data, const)
               s == Checksum(hrp, data, const)
           IN  /\ t \in Seq(Code) /\ HrpPart(t) = hrp
               /\ s \in Seq(Five) /\ Len(s) = 6 /\ Values(t) = data \o s
               /\ Len(data) > 0 => WellFormed(t)
<1> DEFINE t == Encoded(hrp, data, const)
           s == Checksum(hrp, data, const)
           v == data \o s
           chars == [i \in 1 .. Len(v) |-> CharOf(v[i])]
<1>1. const \in Word
  BY ConstantType
<1>2. s \in Word /\ bech32mPolymod(HrpExpand(hrp) \o data \o s) = const
  BY <1>1, ChecksumFits
<1>3. t = hrp \o <<Separator>> \o chars
  BY DEF Encoded
<1> HIDE DEF s
<1>4. s \in Seq(Five) /\ Len(s) = 6
  BY <1>2, WordIsSeq
<1>5. v \in Seq(Five) /\ Len(v) = Len(data) + 6
  <2> HIDE DEF chars, t
  <2>1. v \in Seq(Five) /\ Len(v) = Len(data) + Len(s)
    BY <1>4, ConcatProperties, Zenon
  <2> QED BY <1>4, <2>1
<1> HIDE DEF v, t
<1>6. /\ t \in Seq(Code) /\ Separators(t) # {}
      /\ HrpPart(t) = hrp /\ Values(t) = v /\ Len(DataPart(t)) = Len(v)
      /\ \A i \in 1 .. Len(DataPart(t)) : IsData(DataPart(t)[i])
  <2>1. chars = [i \in 1 .. Len(v) |-> CharOf(v[i])]
    OBVIOUS
  <2> HIDE DEF chars
  <2> QED BY <1>3, <1>5, <2>1, PartsOfText
<1>7. HrpExpand(hrp) \o data \o s = HrpExpand(hrp) \o v
  <2>1. HrpExpand(hrp) \in Seq(Five)
    BY HrpExpandType
  <2> QED BY <1>4, <2>1, ConcatAssociative DEF v
<1>8. ASSUME Len(data) > 0 PROVE WellFormed(t)
  <2>1. Len(DataPart(t)) >= 6 /\ Len(DataPart(t)) > 6
    BY <1>5, <1>6, <1>8
  <2>2. bech32mPolymod(HrpExpand(HrpPart(t)) \o Values(t)) \in {bech32Const, bech32mConst}
    BY <1>2, <1>6, <1>7
  <2> QED BY <1>6, <2>1, <2>2 DEF WellFormed
<1> QED BY <1>4, <1>6, <1>8 DEF t, s, v

\* A text with a valid checksum is what its parts encode, with that constant.
LEMMA WellFormedIsEncoded ==
    ASSUME NEW t \in Seq(Code), WellFormed(t)
    PROVE  LET v == Values(t)
               data == <<v[1]>> \o SubSeq(v, 2, Len(v) - 6)
           IN  /\ v[1] \in Five /\ SubSeq(v, 2, Len(v) - 6) \in Seq(Five)
               /\ \E c \in {bech32Const, bech32mConst} : Encoded(HrpPart(t), data, c) = t
<1> DEFINE v == Values(t)
           n == Len(v)
           h == HrpPart(t)
           g == SubSeq(v, 2, n - 6)
           data == <<v[1]>> \o g
           s == <<v[n - 5], v[n - 4], v[n - 3], v[n - 2], v[n - 1], v[n]>>
<1>1. h \in Seq(Code) /\ v \in Seq(Five) /\ n > 6
  BY TextOfParts DEF WellFormed
<1>2. t = h \o <<Separator>> \o [i \in 1 .. n |-> CharOf(v[i])]
  BY TextOfParts DEF WellFormed
<1>3. PICK c \in {bech32Const, bech32mConst} : bech32mPolymod(HrpExpand(h) \o v) = c
  BY DEF WellFormed
<1>4. n \in Nat /\ \A i \in 1 .. n : v[i] \in Five
  BY <1>1
<1> HIDE DEF v, h
<1>5. /\ v[1] \in Five /\ g \in Seq(Five) /\ Len(g) = n - 7
      /\ \A i \in 1 .. n - 7 : g[i] = v[i + 1]
  <2> HIDE DEF n
  <2>1. \A i \in 2 .. n - 6 : v[i] \in Five
    BY <1>1, <1>4
  <2>2. 2 \in Int /\ n - 6 \in Int /\ v[1] \in Five
    BY <1>1, <1>4
  <2>3. /\ g \in Seq(Five) /\ Len(g) = IF 2 <= n - 6 THEN n - 6 - 2 + 1 ELSE 0
        /\ \A i \in 1 .. n - 6 - 2 + 1 : g[i] = v[2 + i - 1]
    <3> HIDE DEF g
    <3>1. g = SubSeq(v, 2, n - 6)
      BY DEF g
    <3> QED BY <2>1, <2>2, <3>1, SubSeqProperties
  <2> HIDE DEF g
  <2> QED BY <1>1, <1>4, <2>2, <2>3
<1>6. s \in Word
  BY <1>1, <1>4 DEF Word
<1>7. s \in Seq(Five) /\ Len(s) = 6
  BY <1>6, WordIsSeq
<1>8. data \in Seq(Five) /\ Len(data) = n - 6 /\ \A i \in 1 .. n - 6 : data[i] = v[i]
  <2>1. <<v[1]>> \in Seq(Five) /\ Len(<<v[1]>>) = 1 /\ <<v[1]>>[1] = v[1]
    BY <1>5
  <2> HIDE DEF g, n
  <2>2. /\ data \in Seq(Five) /\ Len(data) = 1 + (n - 7)
        /\ \A i \in 1 .. 1 + (n - 7) : data[i] = IF i <= 1 THEN <<v[1]>>[i] ELSE g[i - 1]
    BY <1>5, <2>1, ConcatProperties
  <2> HIDE DEF data
  <2>3. 1 + (n - 7) = n - 6
    BY <1>4
  <2>4. ASSUME NEW i \in 1 .. n - 6 PROVE data[i] = v[i]
    <3>1. CASE i = 1
      BY <1>1, <2>1, <2>2, <2>3, <3>1
    <3>2. CASE i # 1
      <4>1. i - 1 \in 1 .. n - 7 /\ (i - 1) + 1 = i /\ ~(i <= 1)
        BY <1>1, <1>4, <3>2
      <4> QED BY <1>5, <2>2, <2>3, <4>1
    <3> QED BY <3>1, <3>2
  <2> QED BY <2>2, <2>3, <2>4
<1>9. data \o s = v
  <2> HIDE DEF data, s, n
  <2>1. /\ data \o s \in Seq(Five) /\ Len(data \o s) = n - 6 + 6
        /\ \A i \in 1 .. n - 6 + 6 :
              (data \o s)[i] = IF i <= n - 6 THEN data[i] ELSE s[i - (n - 6)]
    <3>1. /\ data \o s \in Seq(Five) /\ Len(data \o s) = Len(data) + Len(s)
          /\ \A i \in 1 .. Len(data) + Len(s) :
                (data \o s)[i] = IF i <= Len(data) THEN data[i] ELSE s[i - Len(data)]
      BY <1>7, <1>8, ConcatProperties, Zenon
    <3>2. Len(data) = n - 6 /\ Len(s) = 6
      BY <1>7, <1>8
    <3> QED BY <3>1, <3>2, Zenon
  <2>2. n - 6 + 6 = n
    BY <1>4
  <2>3. ASSUME NEW i \in 1 .. n PROVE (data \o s)[i] = v[i]
    <3>1. CASE i <= n - 6
      BY <1>4, <1>8, <2>1, <2>2, <3>1
    <3>2. CASE ~(i <= n - 6)
      <4> DEFINE j == i - (n - 6)
      <4>1. /\ j \in 1 .. 6
            /\ \/ (j = 1 /\ i = n - 5)
               \/ (j = 2 /\ i = n - 4)
               \/ (j = 3 /\ i = n - 3)
               \/ (j = 4 /\ i = n - 2)
               \/ (j = 5 /\ i = n - 1)
               \/ (j = 6 /\ i = n)
        BY <1>4, <3>2
      <4>2. (data \o s)[i] = s[j]
        BY <2>1, <2>2, <3>2
      <4> HIDE DEF j
      <4>3. s[1] = v[n - 5] /\ s[2] = v[n - 4] /\ s[3] = v[n - 3] /\ s[4] = v[n - 2]
              /\ s[5] = v[n - 1] /\ s[6] = v[n]
        BY DEF s
      <4> QED BY <4>1, <4>2, <4>3
    <3> QED BY <3>1, <3>2
  <2> DEFINE w == data \o s
  <2> HIDE DEF w
  <2>4. w \in Seq(Five) /\ Len(w) = n /\ \A i \in 1 .. n : w[i] = v[i]
    BY <2>1, <2>2, <2>3 DEF w
  <2>5. w = v
    BY <1>1, <2>4, SameSeq DEF n
  <2> QED BY <2>5 DEF w
<1> HIDE DEF data, s
<1>10. s = Checksum(h, data, c)
  <2>1. HrpExpand(h) \in Seq(Five)
    BY <1>1, HrpExpandType
  <2>2. HrpExpand(h) \o data \o s = HrpExpand(h) \o v
    <3>1. (HrpExpand(h) \o data) \o s = HrpExpand(h) \o (data \o s)
      <4> DEFINE e == HrpExpand(h)
      <4>1. e \in Seq(Five) /\ data \in Seq(Five) /\ s \in Seq(Five)
        BY <1>7, <1>8, <2>1
      <4> HIDE DEF e, n
      <4> QED BY <4>1, ConcatAssociative DEF e
    <3> QED BY <1>9, <3>1, Zenon
  <2>3. c \in Word
    BY ConstantType
  <2>4. bech32mPolymod(HrpExpand(h) \o data \o s) = c
    BY <1>3, <2>2
  <2>5. \A z \in Word : bech32mPolymod(HrpExpand(h) \o data \o z) = c
                           <=> z = Checksum(h, data, c)
    BY <1>1, <1>8, <2>3, ChecksumFits, Zenon
  <2> QED BY <1>6, <2>4, <2>5, Zenon
<1>11. Encoded(h, data, c) = t
  <2>1. Encoded(h, data, c) = h \o <<Separator>> \o [i \in 1 .. Len(v) |-> CharOf(v[i])]
    BY <1>9, <1>10 DEF Encoded
  <2> QED BY <1>2, <2>1
<1> QED BY <1>5, <1>11 DEF v, n, h, g, data

\* The script of a well-formed text.
LEMMA ScriptIs ==
    ASSUME NEW t, WellFormed(t)
    PROVE  LET v == Values(t)
               q == ConvertBits(SubSeq(v, 2, Len(v) - 6), 5, 8, FALSE)
           IN  AddressToOutputScript(t)
                 = IF q = Invalid THEN Invalid
                   ELSE <<IF v[1] = 0 THEN 0 ELSE 80 + v[1], Len(q) % 256>> \o q
<1> DEFINE v == Values(t)
           q == ConvertBits(SubSeq(v, 2, Len(v) - 6), 5, 8, FALSE)
<1>1. DecodeBech32(t) = <<v[1], q>>
  BY DEF DecodeBech32
<1> HIDE DEF v, q
<1>2. <<v[1], q>>[1] = v[1] /\ <<v[1], q>>[2] = q
  OBVIOUS
<1>3. AddressToOutputScript(t)
        = IF q = Invalid THEN Invalid
          ELSE <<IF v[1] = 0 THEN 0 ELSE 80 + v[1], Len(q) % 256>> \o q
  BY <1>1, <1>2, Zenon DEF AddressToOutputScript
<1> QED BY <1>3 DEF v, q

\* Every address that the code encodes is read, by the code and by a node that
\* follows BIP 350, as the version-1 program that it was made of.
THEOREM ProgramIsPaid ==
    ASSUME NEW hrp \in Seq(Code), NEW p \in Seq(Byte)
    PROVE  LET t == EncodeBech32m(hrp, p)
           IN  /\ t \in Seq(Code)
               /\ SubSeq(Values(t), 2, Len(Values(t)) - 6) = GroupsOf(p)
               /\ AddressToOutputScript(t) = <<81, Len(p) % 256>> \o p
<1> DEFINE t == EncodeBech32m(hrp, p)
           g == ConvertBits(p, 8, 5, TRUE)
           data == <<1>> \o g
           s == Checksum(hrp, data, bech32mConst)
           v == Values(t)
<1>1. g \in Seq(Five)
  BY ProgramBits
<1>2. t = Encoded(hrp, data, bech32mConst)
  BY DEF EncodeBech32m
<1> HIDE DEF g
<1>3. data \in Seq(Five) /\ Len(data) = Len(g) + 1 /\ Len(data) > 0
  <2>1. <<1>> \in Seq(Five)
    BY DEF Five
  <2> QED BY <1>1, <2>1
<1>4. /\ t \in Seq(Code) /\ WellFormed(t)
      /\ s \in Seq(Five) /\ Len(s) = 6 /\ v = data \o s
  <2> HIDE DEF data
  <2> QED BY <1>2, <1>3, EncodedIsRead
<1> HIDE DEF s, v, t
<1>5. v[1] = 1 /\ SubSeq(v, 2, Len(v) - 6) = g
  <2> DEFINE m == Len(g)
  <2>1. m \in Nat /\ <<1>> \in Seq(Five)
    BY <1>1 DEF Five
  <2>2. Len(v) = m + 7 /\ v[1] = 1 /\ \A i \in 1 .. m : v[i + 1] = g[i]
    <3>1. /\ Len(data) = m + 1 /\ data[1] = 1
          /\ \A i \in 1 .. m : data[i + 1] = g[i]
      BY <1>1, <2>1
    <3> HIDE DEF data, m
    <3>2. /\ Len(data \o s) = Len(data) + Len(s)
          /\ \A i \in 1 .. Len(data) + Len(s) :
                (data \o s)[i] = IF i <= Len(data) THEN data[i] ELSE s[i - Len(data)]
      BY <1>3, <1>4, ConcatProperties
    <3>3. ASSUME NEW i \in 1 .. m + 1 PROVE v[i] = data[i]
      <4>1. i <= Len(data) /\ i \in 1 .. Len(data) + Len(s)
        BY <1>4, <2>1, <3>1
      <4> QED BY <1>4, <3>2, <4>1
    <3>4. Len(v) = m + 7
      BY <1>4, <2>1, <3>1, <3>2
    <3>5. 1 \in 1 .. m + 1 /\ \A i \in 1 .. m : i + 1 \in 1 .. m + 1
      BY <2>1
    <3> QED BY <3>1, <3>3, <3>4, <3>5
  <2>3. Len(v) - 6 = m + 1
    BY <2>1, <2>2
  <2>4. SubSeq(v, 2, m + 1) = g
    <3> DEFINE w == SubSeq(v, 2, m + 1)
    <3>1. w \in Seq(Five) /\ Len(w) = m /\ \A i \in 1 .. m : w[i] = v[i + 1]
      <4>1. v \in Seq(Five)
        BY <1>3, <1>4
      <4> HIDE DEF m
      <4> QED BY <2>1, <2>2, <4>1
    <3> HIDE DEF w
    <3>2. w = g
      BY <1>1, <2>2, <3>1, SameSeq
    <3> QED BY <3>2 DEF w
  <2> QED BY <2>2, <2>3, <2>4
<1>6. ConvertBits(g, 5, 8, FALSE) = p /\ p # Invalid
  BY ProgramIsRead, BytesAreValid DEF g
<1>7. AddressToOutputScript(t)
        = IF ConvertBits(g, 5, 8, FALSE) = Invalid THEN Invalid
          ELSE <<IF v[1] = 0 THEN 0 ELSE 80 + v[1],
                 Len(ConvertBits(g, 5, 8, FALSE)) % 256>> \o ConvertBits(g, 5, 8, FALSE)
  BY <1>4, <1>5, ScriptIs, Zenon DEF v
<1>8. AddressToOutputScript(t) = <<81, Len(p) % 256>> \o p
  <2>1. (IF v[1] = 0 THEN 0 ELSE 80 + v[1]) = 81
    BY <1>5
  <2> QED BY <1>6, <1>7, <2>1
<1>9. g = GroupsOf(p)
  BY ProgramGroups DEF g
<1> QED BY <1>4, <1>5, <1>8, <1>9 DEF t, v

\* Bytes are numbers.
LEMMA BytesAreNumbers ==
    ASSUME NEW q \in Seq(Byte) PROVE Len(q) \in Nat /\ q \in Seq(Nat)
<1>1. Len(q) \in Nat /\ q \in [1 .. Len(q) -> Byte]
  OBVIOUS
<1>2. Byte \subseteq Nat
  BY DEF Byte
<1>3. q \in [1 .. Len(q) -> Nat]
  BY <1>1, <1>2
<1> QED BY <1>1, <1>3, TableIsSeq

\* The parts of a script.
LEMMA ScriptParts ==
    ASSUME NEW op \in Nat, NEW n \in Nat, NEW q \in Seq(Byte),
           NEW script, script = <<op, n>> \o q
    PROVE  script[1] = op /\ SubSeq(script, 3, Len(script)) = q
<1> DEFINE m == Len(q)
           a == <<op, n>>
           w == SubSeq(script, 3, Len(script))
<1>1. m \in Nat /\ q \in Seq(Nat)
  BY BytesAreNumbers, Zenon
<1>2. a \in Seq(Nat) /\ Len(a) = 2 /\ a[1] = op
  OBVIOUS
<1>3. script = a \o q
  OBVIOUS
<1> HIDE DEF a
<1>4. script \in Seq(Nat) /\ Len(script) = 2 + m
      /\ \A i \in 1 .. 2 + m : script[i] = IF i <= 2 THEN a[i] ELSE q[i - 2]
  <2>1. a \o q \in Seq(Nat) /\ Len(a \o q) = Len(a) + Len(q)
          /\ \A i \in 1 .. Len(a) + Len(q) :
                (a \o q)[i] = IF i <= Len(a) THEN a[i] ELSE q[i - Len(a)]
    BY <1>1, <1>2, ConcatProperties
  <2> QED BY <1>2, <1>3, <2>1
<1> HIDE DEF m
<1>5. script[1] = op
  BY <1>1, <1>2, <1>4
<1>6. w \in Seq(Nat) /\ Len(w) = m /\ \A i \in 1 .. m : w[i] = script[i + 2]
  BY <1>1, <1>4
<1> HIDE DEF w
<1>7. ASSUME NEW i \in 1 .. m PROVE w[i] = q[i]
  <2>1. i + 2 \in 1 .. 2 + m /\ ~(i + 2 <= 2) /\ i + 2 - 2 = i
    BY <1>1
  <2> QED BY <1>4, <1>6, <2>1
<1>8. w = q
  BY <1>1, <1>6, <1>7, SameSeq DEF m
<1> QED BY <1>5, <1>8 DEF w

\* The version is read back from the first byte of the script.
LEMMA VersionIs ==
    ASSUME NEW v \in Five, NEW op, op = IF v = 0 THEN 0 ELSE 80 + v
    PROVE  op \in Nat /\ (IF op = 0 THEN 0 ELSE op - 80) = v
BY DEF Five

\* Every text that the code takes is the one that its script encodes, with one
\* of the two constants.
THEOREM ScriptIsCanonical ==
    ASSUME NEW t \in Seq(Code), AddressToOutputScript(t) # Invalid
    PROVE  LET script  == AddressToOutputScript(t)
               version == IF script[1] = 0 THEN 0 ELSE script[1] - 80
               program == SubSeq(script, 3, Len(script))
               groups  == <<version>> \o ConvertBits(program, 8, 5, TRUE)
           IN  \E c \in {bech32Const, bech32mConst} :
                  Encoded(HrpPart(t), groups, c) = t
<1> DEFINE script  == AddressToOutputScript(t)
           version == IF script[1] = 0 THEN 0 ELSE script[1] - 80
           program == SubSeq(script, 3, Len(script))
           v == Values(t)
           g == SubSeq(v, 2, Len(v) - 6)
           q == ConvertBits(g, 5, 8, FALSE)
           op == IF v[1] = 0 THEN 0 ELSE 80 + v[1]
<1>1. WellFormed(t)
  <2>1. CASE ~WellFormed(t)
    <3>1. DecodeBech32(t)[2] = Invalid
      BY <2>1 DEF DecodeBech32
    <3>2. AddressToOutputScript(t) = Invalid
      BY <3>1 DEF AddressToOutputScript
    <3> QED BY <3>2
  <2> QED BY <2>1
<1>2. /\ v[1] \in Five /\ g \in Seq(Five)
      /\ \E c \in {bech32Const, bech32mConst} : Encoded(HrpPart(t), <<v[1]>> \o g, c) = t
  BY <1>1, WellFormedIsEncoded
<1>3. script = IF q = Invalid THEN Invalid ELSE <<op, Len(q) % 256>> \o q
  BY <1>1, ScriptIs
<1> HIDE DEF script, q, g, v
<1>4. q # Invalid /\ script = <<op, Len(q) % 256>> \o q
  BY <1>3 DEF script
<1>5. q \in Seq(Byte) /\ ConvertBits(q, 8, 5, TRUE) = g
  <2>1. g \in Seq(Five) /\ ConvertBits(g, 5, 8, FALSE) # Invalid
    BY <1>2, <1>4 DEF q
  <2>2. /\ ConvertBits(g, 5, 8, FALSE) \in Seq(Byte)
        /\ ConvertBits(ConvertBits(g, 5, 8, FALSE), 8, 5, TRUE) = g
    BY <2>1, ReadGroups, Zenon
  <2> QED BY <2>2, Zenon DEF q
<1>6. op \in Nat /\ (IF op = 0 THEN 0 ELSE op - 80) = v[1]
  BY <1>2, VersionIs, Zenon
<1> HIDE DEF op
<1>7. script[1] = op /\ program = q
  <2>1. Len(q) % 256 \in Nat
    <3>1. Len(q) \in Nat
      BY <1>5
    <3> QED BY <3>1
  <2> HIDE DEF script
  <2>2. script[1] = op /\ SubSeq(script, 3, Len(script)) = q
    <3>1. q \in Seq(Byte) /\ op \in Nat /\ script = <<op, Len(q) % 256>> \o q
      BY <1>4, <1>5, <1>6
    <3> HIDE DEF program, version
    <3> QED BY <2>1, <3>1, ScriptParts
  <2> QED BY <2>2
<1>8. version = v[1]
  BY <1>6, <1>7
<1>9. <<version>> \o ConvertBits(program, 8, 5, TRUE) = <<v[1]>> \o g
  BY <1>5, <1>7, <1>8
<1> HIDE DEF version, program
<1> QED BY <1>2, <1>9 DEF version, program, script

-----------------------------------------------------------------------------
(* One mistake. *)

\* The checksum of a text, which is one of the two constants if it is accepted.
ChecksumOf(t) == bech32mPolymod(HrpExpand(HrpPart(t)) \o Values(t))

\* The characters of a text that is accepted.
LEMMA Characters ==
    ASSUME NEW t \in Seq(Code), WellFormed(t)
    PROVE  LET h == Len(HrpPart(t))
               v == Values(t)
           IN  /\ HrpPart(t) \in Seq(Code) /\ v \in Seq(Five) /\ Len(v) > 6
               /\ h \in Nat /\ Len(t) = h + 1 + Len(v)
               /\ \A j \in 1 .. h : t[j] = HrpPart(t)[j]
               /\ t[h + 1] = Separator
               /\ \A j \in 1 .. Len(v) : t[h + 1 + j] = CharOf(v[j])
<1> DEFINE hrp == HrpPart(t)
           h == Len(hrp)
           v == Values(t)
           n == Len(v)
           chars == [i \in 1 .. n |-> CharOf(v[i])]
           u == hrp \o <<Separator>>
<1>1. hrp \in Seq(Code) /\ v \in Seq(Five) /\ n > 6
  BY TextOfParts DEF WellFormed
<1>2. t = u \o chars
  BY TextOfParts DEF WellFormed
<1> HIDE DEF hrp, v
<1>3. h \in Nat /\ n \in Nat /\ \A i \in 1 .. n : v[i] \in Five
  BY <1>1
<1>4. chars \in Seq(Code) /\ Len(chars) = n /\ \A i \in 1 .. n : chars[i] = CharOf(v[i])
  <2>1. chars \in [1 .. n -> Code]
    BY <1>3, Charset
  <2> HIDE DEF chars
  <2>2. chars \in Seq(Code) /\ Len(chars) = n
    BY <1>3, <2>1, TableIsSeq
  <2> QED BY <2>2 DEF chars
<1> HIDE DEF chars
<1>5. <<Separator>> \in Seq(Code) /\ Len(<<Separator>>) = 1 /\ <<Separator>>[1] = Separator
  BY DEF Separator, Code
<1>6. /\ u \in Seq(Code) /\ Len(u) = h + 1 /\ u[h + 1] = Separator
      /\ \A i \in 1 .. h : u[i] = hrp[i]
  <2>1. /\ u \in Seq(Code) /\ Len(u) = h + 1
        /\ \A i \in 1 .. h + 1 : u[i] = IF i <= h THEN hrp[i] ELSE <<Separator>>[i - h]
    BY <1>1, <1>5, ConcatProperties
  <2> HIDE DEF u, h
  <2>2. u[h + 1] = Separator
    <3> DEFINE i == h + 1
    <3>1. ~(i <= h) /\ i - h = 1 /\ i \in 1 .. h + 1
      BY <1>3
    <3> HIDE DEF i
    <3>2. u[i] = <<Separator>>[i - h]
      BY <2>1, <3>1, Zenon
    <3> QED BY <1>5, <3>1, <3>2 DEF i
  <2>3. \A i \in 1 .. h : i \in 1 .. h + 1 /\ i <= h
    BY <1>3
  <2>4. \A i \in 1 .. h : u[i] = hrp[i]
    BY <2>1, <2>3
  <2> QED BY <2>1, <2>2, <2>4
<1> HIDE DEF u, h, n
<1>7. /\ Len(t) = h + 1 + n
      /\ \A i \in 1 .. h + 1 + n : t[i] = IF i <= h + 1 THEN u[i] ELSE chars[i - (h + 1)]
  <2>1. /\ Len(u \o chars) = Len(u) + Len(chars)
        /\ \A i \in 1 .. Len(u) + Len(chars) :
              (u \o chars)[i] = IF i <= Len(u) THEN u[i] ELSE chars[i - Len(u)]
    BY <1>4, <1>6, ConcatProperties
  <2>2. Len(u) = h + 1 /\ Len(chars) = n
    BY <1>4, <1>6
  <2> QED BY <1>2, <2>1, <2>2, Zenon
<1>8. ASSUME NEW j \in 1 .. h + 1 PROVE t[j] = u[j]
  <2>1. j \in 1 .. h + 1 + n /\ j <= h + 1
    BY <1>3
  <2> QED BY <1>7, <2>1
<1>9. ASSUME NEW j \in 1 .. n PROVE t[h + 1 + j] = CharOf(v[j])
  <2> DEFINE i == h + 1 + j
  <2>1. i \in 1 .. h + 1 + n /\ ~(i <= h + 1) /\ i - (h + 1) = j
    BY <1>3
  <2> HIDE DEF i
  <2>2. t[i] = chars[j]
    BY <1>7, <2>1
  <2> QED BY <1>4, <2>2 DEF i
<1>10. h + 1 \in 1 .. h + 1 /\ \A j \in 1 .. h : j \in 1 .. h + 1
  BY <1>3
<1> QED BY <1>1, <1>3, <1>6, <1>7, <1>8, <1>9, <1>10 DEF hrp, h, v, n

\* One character is another, or two neighbours are swapped.
OneMistake(t, u, i) ==
    \/ \A j \in (1 .. Len(t)) \ {i} : t[j] = u[j]
    \/ /\ i + 1 \in 1 .. Len(t) /\ u[i] = t[i + 1] /\ u[i + 1] = t[i]
       /\ \A j \in (1 .. Len(t)) \ {i, i + 1} : t[j] = u[j]

\* Two texts of one network, with one constant, that are as long as each
\* other: one is not the other with one character replaced, or with two
\* neighbours swapped.
LEMMA NoticedMistake ==
    ASSUME NEW t \in Seq(Code), NEW u \in Seq(Code), WellFormed(t), WellFormed(u),
           HrpPart(u) = HrpPart(t), ChecksumOf(u) = ChecksumOf(t), Len(u) = Len(t),
           NEW i \in 1 .. Len(t),
           OneMistake(t, u, i)
    PROVE  u = t
<1> DEFINE hrp == HrpPart(t)
           h == Len(hrp)
           v == Values(t)
           w == Values(u)
           n == Len(v)
           e == HrpExpand(hrp)
           k == i - (h + 1)
<1>1. /\ hrp \in Seq(Code) /\ v \in Seq(Five) /\ n > 6
      /\ h \in Nat /\ Len(t) = h + 1 + n
      /\ \A j \in 1 .. h : t[j] = hrp[j]
      /\ t[h + 1] = Separator
      /\ \A j \in 1 .. n : t[h + 1 + j] = CharOf(v[j])
  BY Characters
<1>2. /\ w \in Seq(Five) /\ Len(u) = h + 1 + Len(w)
      /\ \A j \in 1 .. h : u[j] = hrp[j]
      /\ u[h + 1] = Separator
      /\ \A j \in 1 .. Len(w) : u[h + 1 + j] = CharOf(w[j])
  BY Characters
<1>3. bech32mPolymod(e \o v) = bech32mPolymod(e \o w)
  BY DEF ChecksumOf
<1> HIDE DEF hrp, v, w
<1>4. n \in Nat /\ Len(w) = n /\ \A j \in 1 .. n : v[j] \in Five /\ w[j] \in Five
  <2>1. Len(w) \in Nat /\ Len(v) \in Nat
    BY <1>1, <1>2
  <2>2. Len(w) = n
    BY <1>1, <1>2, <2>1
  <2> QED BY <1>1, <1>2, <2>1, <2>2
<1>5. e \in Seq(Five)
  BY <1>1, HrpExpandType
<1> HIDE DEF h, n, e
<1>6. ASSUME NEW j \in 1 .. n, t[h + 1 + j] = u[h + 1 + j] PROVE v[j] = w[j]
  <2>1. CharOf(v[j]) = CharOf(w[j])
    BY <1>1, <1>2, <1>4, <1>6
  <2> QED BY <1>4, <2>1, Charset
<1>7. SUFFICES v = w
  <2>1. CASE v = w
    <3>1. ASSUME NEW j \in 1 .. Len(t) PROVE u[j] = t[j]
      <4>1. CASE j <= h
        BY <1>1, <1>2, <4>1
      <4>2. CASE j = h + 1
        BY <1>1, <1>2, <4>2
      <4>3. CASE j > h + 1
        <5>1. j - (h + 1) \in 1 .. n /\ h + 1 + (j - (h + 1)) = j
          BY <1>1, <1>4, <4>3
        <5> QED BY <1>1, <1>2, <1>4, <2>1, <5>1
      <4> QED BY <1>1, <4>1, <4>2, <4>3
    <3> QED BY <3>1, SameSeq
  <2> QED BY <2>1
<1>8. CASE \A j \in 1 .. n : v[j] = w[j]
  BY <1>1, <1>2, <1>4, <1>8, SameSeq DEF n
<1>9. CASE i > h + 1
  <2>1. k \in 1 .. n /\ h + 1 + k = i /\ h + 1 + (k + 1) = i + 1
    BY <1>1, <1>4, <1>9
  <2>2. CASE \A j \in (1 .. Len(t)) \ {i} : t[j] = u[j]
    <3>1. ASSUME NEW j \in (1 .. n) \ {k} PROVE v[j] = w[j]
      <4>1. h + 1 + j \in (1 .. Len(t)) \ {i}
        BY <1>1, <1>4, <2>1
      <4> QED BY <1>6, <2>2, <4>1
    <3> HIDE DEF k
    <3> QED BY <1>1, <1>2, <1>3, <1>4, <1>5, <2>1, <3>1, ValuesTell DEF n
  <2>3. CASE /\ i + 1 \in 1 .. Len(t) /\ u[i] = t[i + 1] /\ u[i + 1] = t[i]
             /\ \A j \in (1 .. Len(t)) \ {i, i + 1} : t[j] = u[j]
    <3>1. ASSUME NEW j \in (1 .. n) \ {k, k + 1} PROVE v[j] = w[j]
      <4>1. h + 1 + j \in (1 .. Len(t)) \ {i, i + 1}
        BY <1>1, <1>4, <2>1
      <4> QED BY <1>6, <2>3, <4>1
    <3>2. k + 1 \in 1 .. n
      BY <1>1, <1>4, <2>1, <2>3
    <3> HIDE DEF k
    <3>3. CharOf(w[k]) = CharOf(v[k + 1]) /\ CharOf(w[k + 1]) = CharOf(v[k])
      BY <1>1, <1>2, <1>4, <2>1, <2>3, <3>2
    <3>4. w[k] = v[k + 1] /\ w[k + 1] = v[k]
      BY <1>4, <2>1, <3>2, <3>3, Charset
    <3> QED BY <1>1, <1>2, <1>3, <1>4, <1>5, <2>1, <3>1, <3>2, <3>4, ValuesTell DEF n
  <2> QED BY <2>2, <2>3 DEF OneMistake
<1>10. CASE ~(i > h + 1)
  <2>1. CASE \A j \in (1 .. Len(t)) \ {i} : t[j] = u[j]
    <3>1. ASSUME NEW j \in 1 .. n PROVE v[j] = w[j]
      <4>1. h + 1 + j \in (1 .. Len(t)) \ {i}
        BY <1>1, <1>4, <1>10
      <4> QED BY <1>6, <2>1, <4>1
    <3> QED BY <1>8, <3>1
  <2>2. CASE /\ i + 1 \in 1 .. Len(t) /\ u[i] = t[i + 1] /\ u[i + 1] = t[i]
             /\ \A j \in (1 .. Len(t)) \ {i, i + 1} : t[j] = u[j]
    <3>1. CASE i = h + 1
      <4>1. 1 \in 1 .. n /\ h + 1 + 1 = i + 1
        BY <1>1, <1>4, <3>1
      <4>2. t[h + 1 + 1] = CharOf(v[1]) /\ t[h + 1 + 1] = Separator /\ v[1] \in Five
        BY <1>1, <1>2, <1>4, <2>2, <3>1, <4>1
      <4> QED BY <4>2, Charset
    <3>2. CASE i # h + 1
      <4>1. ASSUME NEW j \in 1 .. n PROVE v[j] = w[j]
        <5>1. h + 1 + j \in (1 .. Len(t)) \ {i, i + 1}
          BY <1>1, <1>4, <1>10, <3>2
        <5> QED BY <1>6, <2>2, <5>1
      <4> QED BY <1>8, <4>1
    <3> QED BY <3>1, <3>2
  <2> QED BY <2>1, <2>2 DEF OneMistake
<1> QED BY <1>9, <1>10

\* An address in which a character is typed in another's place is not taken
\* with the constant that it was made with, unless it is read as another
\* network's.
THEOREM ReplacedIsNoticed ==
    ASSUME NEW t \in Seq(Code), WellFormed(t), NEW i \in 1 .. Len(t), NEW c \in Code,
           c # t[i]
    PROVE  LET u == [t EXCEPT ![i] = c]
           IN  WellFormed(u) /\ HrpPart(u) = HrpPart(t) => ChecksumOf(u) # ChecksumOf(t)
<1> DEFINE u == [t EXCEPT ![i] = c]
<1>1. u \in Seq(Code) /\ Len(u) = Len(t) /\ u # t
  OBVIOUS
<1>2. \A j \in (1 .. Len(t)) \ {i} : t[j] = u[j]
  OBVIOUS
<1> HIDE DEF u
<1>3. OneMistake(t, u, i)
  BY <1>2 DEF OneMistake
<1>4. WellFormed(u) /\ HrpPart(u) = HrpPart(t) => ChecksumOf(u) # ChecksumOf(t)
  BY <1>1, <1>3, NoticedMistake
<1> QED BY <1>4 DEF u

\* Nor is it if two neighbours are swapped.
THEOREM SwappedIsNoticed ==
    ASSUME NEW t \in Seq(Code), WellFormed(t), NEW i \in 1 .. Len(t) - 1,
           t[i] # t[i + 1]
    PROVE  LET u == [t EXCEPT ![i] = t[i + 1], ![i + 1] = t[i]]
           IN  WellFormed(u) /\ HrpPart(u) = HrpPart(t) => ChecksumOf(u) # ChecksumOf(t)
<1> DEFINE u == [t EXCEPT ![i] = t[i + 1], ![i + 1] = t[i]]
<1>1. i \in 1 .. Len(t) /\ i + 1 \in 1 .. Len(t) /\ i # i + 1
  OBVIOUS
<1>2. u \in Seq(Code) /\ Len(u) = Len(t) /\ u[i] = t[i + 1] /\ u[i + 1] = t[i]
  BY <1>1
<1>3. \A j \in (1 .. Len(t)) \ {i, i + 1} : t[j] = u[j]
  BY <1>1
<1>4. u # t
  BY <1>1, <1>2
<1> HIDE DEF u
<1>5. OneMistake(t, u, i)
  BY <1>1, <1>2, <1>3 DEF OneMistake
<1>6. WellFormed(u) /\ HrpPart(u) = HrpPart(t) => ChecksumOf(u) # ChecksumOf(t)
  BY <1>1, <1>2, <1>4, <1>5, NoticedMistake
<1> QED BY <1>6 DEF u

-----------------------------------------------------------------------------
(* The steps. *)

\* What is typed is ASCII; an address of this code that was typed right is
\* still the one that was encoded; what is paid is what the text says.
AddressInv ==
    /\ text \in Seq(Code)
    /\ origin.by = "escrow" /\ mistake = "none" =>
          /\ origin.program \in Programs
          /\ \E hrp \in Hrps : text = EncodeBech32m(hrp, origin.program)
    /\ paid # Nothing =>
          /\ origin # NoOrigin
          /\ paid = AddressToOutputScript(text)

\* What the constants of the model are.
LEMMA ConstantsType ==
    /\ Hrps \subseteq Seq(Code) /\ Typos \subseteq Code /\ Foreign \subseteq Seq(Five)
    /\ \A p \in Programs : p \in Seq(Byte) /\ Len(p) % 256 = Len(p)
<1>1. Hrps \subseteq Seq(Code) /\ Typos \subseteq Code /\ Foreign \subseteq Seq(Five)
  BY AddressAssumption, Zenon DEF Code, Five
<1>2. ASSUME NEW p \in Programs PROVE p \in Seq(Byte) /\ Len(p) % 256 = Len(p)
  <2>1. p \in {q \in Seq(0 .. 255) : Len(q) < 256}
    BY AddressAssumption, Zenon
  <2>2. p \in Seq(Byte) /\ Len(p) < 256
    BY <2>1, Zenon DEF Byte
  <2>3. Len(p) \in Nat
    BY <2>2
  <2> QED BY <2>2, <2>3
<1> QED BY <1>1, <1>2

\* It holds in the beginning.
LEMMA AddressInvInit == Init => AddressInv
<1>1. SUFFICES ASSUME Init PROVE AddressInv
  OBVIOUS
<1>2. << >> \in Seq(Code) /\ NoOrigin.by # "escrow"
  BY DEF NoOrigin
<1> QED BY <1>1, <1>2 DEF Init, AddressInv

\* A mistake leaves a text of ASCII characters.
LEMMA MistypedKeeps ==
    ASSUME AddressInv, NEW kind, NEW t \in Seq(Code), Mistyped(kind, t),
           kind # "none"
    PROVE  AddressInv'
BY DEF AddressInv, Mistyped

\* Every step keeps it.
LEMMA AddressInvNext == AddressInv /\ [Next]_vars => AddressInv'
<1>1. SUFFICES ASSUME AddressInv, [Next]_vars PROVE AddressInv'
  OBVIOUS
<1>2. text \in Seq(Code)
  BY <1>1 DEF AddressInv
<1>3. ASSUME NEW hrp \in Hrps, NEW p \in Programs, Encode(hrp, p) PROVE AddressInv'
  <2>1. EncodeBech32m(hrp, p) \in Seq(Code)
    BY ConstantsType, ProgramIsPaid
  <2>2. paid = Nothing
    BY <1>1, <1>3 DEF AddressInv, Encode
  <2>3. origin'.program = p /\ text' = EncodeBech32m(hrp, p) /\ paid' = Nothing
    BY <1>3, <2>2 DEF Encode
  <2> QED BY <2>1, <2>3 DEF AddressInv
<1>4. ASSUME NEW hrp \in Hrps, NEW d \in Foreign, NEW c \in {bech32Const, bech32mConst},
             EncodeElsewhere(hrp, d, c)
      PROVE  AddressInv'
  <2>1. Encoded(hrp, d, c) \in Seq(Code)
    <3>1. hrp \in Seq(Code) /\ d \in Seq(Five)
      BY ConstantsType
    <3> QED BY <3>1, EncodedIsRead
  <2>2. paid = Nothing
    BY <1>1, <1>4 DEF AddressInv, EncodeElsewhere
  <2>3. origin'.by = "wallet" /\ text' = Encoded(hrp, d, c) /\ paid' = Nothing
    BY <1>4, <2>2 DEF EncodeElsewhere
  <2> QED BY <2>1, <2>3 DEF AddressInv
<1>5. ASSUME NEW i \in 1 .. Len(text), NEW c \in Typos, Replace(i, c) PROVE AddressInv'
  <2>1. [text EXCEPT ![i] = c] \in Seq(Code)
    <3>1. c \in Code
      BY ConstantsType
    <3> QED BY <1>2, <3>1
  <2> QED BY <1>1, <1>5, <2>1, MistypedKeeps DEF Replace
<1>6. ASSUME NEW i \in 1 .. Len(text), Omit(i) PROVE AddressInv'
  <2>1. SubSeq(text, 1, i - 1) \o SubSeq(text, i + 1, Len(text)) \in Seq(Code)
    BY <1>2
  <2> QED BY <1>1, <1>6, <2>1, MistypedKeeps DEF Omit
<1>7. ASSUME NEW i \in 1 .. Len(text), Repeat(i) PROVE AddressInv'
  <2>1. SubSeq(text, 1, i) \o SubSeq(text, i, Len(text)) \in Seq(Code)
    BY <1>2
  <2> QED BY <1>1, <1>7, <2>1, MistypedKeeps DEF Repeat
<1>8. ASSUME NEW i \in 1 .. Len(text) - 1, Swap(i) PROVE AddressInv'
  <2>1. [text EXCEPT ![i] = text[i + 1], ![i + 1] = text[i]] \in Seq(Code)
    BY <1>2
  <2> QED BY <1>1, <1>8, <2>1, MistypedKeeps DEF Swap
<1>9. CASE Pay
  BY <1>1, <1>9 DEF AddressInv, Pay
<1>10. CASE UNCHANGED vars
  BY <1>1, <1>10 DEF AddressInv, vars
<1> QED BY <1>1, <1>3, <1>4, <1>5, <1>6, <1>7, <1>8, <1>9, <1>10 DEF Next

\* So it holds always.
LEMMA AddressInvHolds == Spec => []AddressInv
BY AddressInvInit, AddressInvNext, PTL DEF Spec

\* An address that the code encoded pays the program it was made of.
THEOREM AddressEncodingIsRead == Spec => []EncodingIsRead
<1>1. AddressInv => EncodingIsRead
  <2>1. SUFFICES ASSUME AddressInv, origin.by = "escrow" /\ mistake = "none"
                 PROVE  /\ SubSeq(Values(text), 2, Len(Values(text)) - 6)
                             = GroupsOf(origin.program)
                        /\ paid # Nothing =>
                              paid = <<81, Len(origin.program)>> \o origin.program
    BY DEF EncodingIsRead
  <2> DEFINE p == origin.program
  <2>2. p \in Programs
    BY <2>1 DEF AddressInv
  <2>3. PICK hrp \in Hrps : text = EncodeBech32m(hrp, p)
    BY <2>1 DEF AddressInv
  <2> HIDE DEF p
  <2>4. hrp \in Seq(Code) /\ p \in Seq(Byte) /\ Len(p) % 256 = Len(p)
    BY <2>2, ConstantsType
  <2>5. /\ SubSeq(Values(text), 2, Len(Values(text)) - 6) = GroupsOf(p)
        /\ AddressToOutputScript(text) = <<81, Len(p)>> \o p
    BY <2>3, <2>4, ProgramIsPaid
  <2> QED BY <2>1, <2>5 DEF AddressInv, p
<1> QED BY <1>1, AddressInvHolds, PTL

\* A text that is paid is the one that its script encodes.
THEOREM AddressAcceptedIsCanonical == Spec => []AcceptedIsCanonical
<1>1. AddressInv => AcceptedIsCanonical
  <2>1. SUFFICES ASSUME AddressInv, Script PROVE AcceptedIsCanonical
    BY DEF AcceptedIsCanonical
  <2>2. text \in Seq(Code) /\ paid = AddressToOutputScript(text)
          /\ AddressToOutputScript(text) # Invalid
    BY <2>1 DEF AddressInv, Script
  <2> QED BY <2>2, ScriptIsCanonical, Zenon DEF AcceptedIsCanonical
<1> QED BY <1>1, AddressInvHolds, PTL
=============================================================================
