--------------------------- MODULE ChecksumProofs ---------------------------
(***************************************************************************)
(* The checksum of an address, for values of any number: six more values   *)
(* make it one of the two constants exactly when they are what Checksum    *)
(* returns, and no single value, nor two neighbours in the wrong order,    *)
(* leaves it as it was.                                                    *)
(*                                                                         *)
(* The argument is that a step of the loop is linear.  A value that is fed *)
(* into the word moves through it unchanged until it reaches the first     *)
(* group, so the six last values are simply added.  And the feedback of a  *)
(* group can be told from its last group alone: the word before a step can *)
(* be told from the word after it, so two loops that have parted never     *)
(* meet again on the same values.                                          *)
(*                                                                         *)
(* Loops are recursive functions here.  What they compute is shown by      *)
(* induction over the set of the positions where it holds, which follows   *)
(* from the well-foundedness of <.                                         *)
(***************************************************************************)
EXTENDS Address, SequenceTheorems, WellFoundedInduction, TLAPS

Five == 0 .. 31
Byte == 0 .. 255
Code == 0 .. 127
Word == [1 .. 6 -> Five]

(* Counting. *)

\* Induction, for a set in the place of a predicate.
LEMMA SetInduction ==
    ASSUME NEW S, S \subseteq Nat, 0 \in S, \A n \in S : n + 1 \in S
    PROVE  Nat \subseteq S
<1> DEFINE R == OpToRel(<, Nat)
           T == Nat \ S
<1>1. SUFFICES ASSUME T # {} PROVE FALSE
  OBVIOUS
<1>2. IsWellFoundedOn(R, Nat)
  BY NatLessThanWellFounded
<1>3. PICK x \in T : \A y \in T : ~(<<y, x>> \in R)
  <2>1. T \subseteq Nat
    OBVIOUS
  <2> HIDE DEF R, T
  <2> QED BY <1>1, <1>2, <2>1, WFMin
<1>4. x # 0 /\ x - 1 \in Nat
  OBVIOUS
<1>5. <<x - 1, x>> \in R
  BY <1>4 DEF OpToRel
<1>6. x - 1 \in S
  BY <1>3, <1>4, <1>5
<1> QED BY <1>6

\* Induction over the positions of a sequence.
LEMMA RangeInduction ==
    ASSUME NEW n \in Nat, NEW T, 0 \in T, \A i \in 1 .. n : i - 1 \in T => i \in T
    PROVE  0 .. n \subseteq T
<1> DEFINE S == {i \in Nat : i <= n => i \in T}
<1>1. S \subseteq Nat /\ 0 \in S
  OBVIOUS
<1>2. ASSUME NEW i \in S PROVE i + 1 \in S
  <2>1. CASE i + 1 <= n
    BY <2>1
  <2>2. CASE ~(i + 1 <= n)
    BY <2>2
  <2> QED BY <2>1, <2>2
<1>3. Nat \subseteq S
  <2> HIDE DEF S
  <2> QED BY <1>1, <1>2, SetInduction
<1> QED BY <1>3

\* A loop that starts with x0 and applies F[1], ..., F[n] in turn.
LoopRuns(n, S, x0, F) ==
    {f \in [0 .. n -> S] : f[0] = x0 /\ \A i \in 1 .. n : f[i] = F[i][f[i - 1]]}

\* Such a loop has a run, whatever its steps.
LEMMA LoopHasRun ==
    ASSUME NEW n \in Nat, NEW S, NEW x0 \in S, NEW F \in [1 .. n -> [S -> S]]
    PROVE  LoopRuns(n, S, x0, F) # {}
<1> DEFINE Runs(m, f) == f[0] = x0 /\ \A i \in 1 .. m : f[i] = F[i][f[i - 1]]
           T == {m \in 0 .. n : \E f \in [0 .. m -> S] : Runs(m, f)}
<1>1. 0 \in T
  <2> DEFINE f == [i \in 0 .. 0 |-> x0]
  <2>1. f \in [0 .. 0 -> S] /\ Runs(0, f)
    OBVIOUS
  <2> HIDE DEF f, Runs
  <2> QED BY <2>1
<1>2. ASSUME NEW m \in 1 .. n, m - 1 \in T PROVE m \in T
  <2>1. PICK f \in [0 .. m - 1 -> S] : Runs(m - 1, f)
    BY <1>2
  <2> DEFINE g == [i \in 0 .. m |-> IF i = m THEN F[m][f[m - 1]] ELSE f[i]]
  <2>2. F[m][f[m - 1]] \in S
    OBVIOUS
  <2>3. g \in [0 .. m -> S]
    BY <2>2
  <2>4. g[0] = x0
    BY <2>1
  <2>5. ASSUME NEW i \in 1 .. m PROVE g[i] = F[i][g[i - 1]]
    <3>1. CASE i = m
      BY <3>1
    <3>2. CASE i # m
      <4>1. i \in 1 .. m - 1 /\ i - 1 \in 0 .. m /\ i - 1 # m
        BY <3>2
      <4>2. g[i] = f[i] /\ g[i - 1] = f[i - 1]
        BY <3>2, <4>1
      <4> QED BY <2>1, <4>1, <4>2
    <3> QED BY <3>1, <3>2
  <2>6. Runs(m, g)
    BY <2>4, <2>5
  <2> HIDE DEF g, Runs
  <2> QED BY <2>3, <2>6
<1>3. n \in T
  <2>1. \A m \in 1 .. n : m - 1 \in T => m \in T
    BY <1>2
  <2> HIDE DEF T
  <2>2. 0 .. n \subseteq T
    BY <1>1, <2>1, RangeInduction
  <2> QED BY <2>2
<1> QED BY <1>3 DEF LoopRuns

\* Sequences with the same elements are the same.
LEMMA SameSeq ==
    ASSUME NEW S, NEW a \in Seq(S), NEW b \in Seq(S), Len(a) = Len(b),
           \A i \in 1 .. Len(a) : a[i] = b[i]
    PROVE  a = b
OBVIOUS

\* A function on the first n positions is a sequence.
LEMMA TableIsSeq ==
    ASSUME NEW n \in Nat, NEW S, NEW f \in [1 .. n -> S]
    PROVE  f \in Seq(S) /\ Len(f) = n
OBVIOUS

-----------------------------------------------------------------------------
(* Exclusive or. *)

\* A group is the sum of its bits.
LEMMA FiveBits ==
    ASSUME NEW b \in Five
    PROVE  /\ \A k \in 0 .. 4 : Bit(b, k) \in 0 .. 1
           /\ b = Bit(b, 0) + 2 * Bit(b, 1) + 4 * Bit(b, 2) + 8 * Bit(b, 3) + 16 * Bit(b, 4)
<1>1. b = Bit(b, 0) + 2 * Bit(b, 1) + 4 * Bit(b, 2) + 8 * Bit(b, 3) + 16 * Bit(b, 4)
  BY SMT DEF Bit, Five
<1>2. ASSUME NEW k \in 0 .. 4 PROVE Bit(b, k) \in 0 .. 1
  <2>1. k = 0 \/ k = 1 \/ k = 2 \/ k = 3 \/ k = 4
    OBVIOUS
  <2> QED BY <2>1, SMT DEF Bit, Five
<1> QED BY <1>1, <1>2

\* Groups with the same bits are the same.
LEMMA SameBits ==
    ASSUME NEW a \in Five, NEW b \in Five, \A k \in 0 .. 4 : Bit(a, k) = Bit(b, k)
    PROVE  a = b
<1>1. Bit(a, 0) = Bit(b, 0) /\ Bit(a, 1) = Bit(b, 1) /\ Bit(a, 2) = Bit(b, 2)
        /\ Bit(a, 3) = Bit(b, 3) /\ Bit(a, 4) = Bit(b, 4)
  OBVIOUS
<1> QED BY <1>1, FiveBits

\* The bits of a sum of powers of two are what the powers were taken with.
LEMMA BitsOfSum ==
    ASSUME NEW u \in 0 .. 1, NEW v \in 0 .. 1, NEW w \in 0 .. 1, NEW x \in 0 .. 1,
           NEW y \in 0 .. 1, NEW c, c = u + 2 * v + 4 * w + 8 * x + 16 * y
    PROVE  /\ c \in Five
           /\ Bit(c, 0) = u /\ Bit(c, 1) = v /\ Bit(c, 2) = w /\ Bit(c, 3) = x /\ Bit(c, 4) = y
BY SMT DEF Bit, Five

\* The bits of an exclusive or are the sums of the bits, modulo 2.
LEMMA XorGroupBits ==
    ASSUME NEW a \in Five, NEW b \in Five
    PROVE  /\ XorGroup[a][b] \in Five
           /\ \A k \in 0 .. 4 : Bit(XorGroup[a][b], k) = (Bit(a, k) + Bit(b, k)) % 2
<1> DEFINE s(k) == (Bit(a, k) + Bit(b, k)) % 2
           c == XorGroup[a][b]
<1>1. \A k \in 0 .. 4 : s(k) \in 0 .. 1
  BY FiveBits
<1>2. c = 2^0 * s(0) + 2^1 * s(1) + 2^2 * s(2) + 2^3 * s(3) + 2^4 * s(4)
  BY Zenon DEF XorGroup, Five
<1>3. c = s(0) + 2 * s(1) + 4 * s(2) + 8 * s(3) + 16 * s(4)
  <2> HIDE DEF s, c
  <2>1. s(0) \in 0 .. 1 /\ s(1) \in 0 .. 1 /\ s(2) \in 0 .. 1 /\ s(3) \in 0 .. 1
          /\ s(4) \in 0 .. 1
    BY <1>1
  <2> QED BY <1>2, <2>1, SMT
<1>4. c \in Five /\ Bit(c, 0) = s(0) /\ Bit(c, 1) = s(1) /\ Bit(c, 2) = s(2)
        /\ Bit(c, 3) = s(3) /\ Bit(c, 4) = s(4)
  <2> HIDE DEF s, c
  <2>1. s(0) \in 0 .. 1 /\ s(1) \in 0 .. 1 /\ s(2) \in 0 .. 1 /\ s(3) \in 0 .. 1
          /\ s(4) \in 0 .. 1
    BY <1>1
  <2> QED BY <1>3, <2>1, BitsOfSum
<1>5. ASSUME NEW k \in 0 .. 4 PROVE Bit(c, k) = s(k)
  <2>1. k = 0 \/ k = 1 \/ k = 2 \/ k = 3 \/ k = 4
    OBVIOUS
  <2> HIDE DEF s, c
  <2> QED BY <1>4, <2>1
<1> QED BY <1>4, <1>5

\* Zero is neutral, and a group is its own inverse.
LEMMA XorGroupZero ==
    ASSUME NEW a \in Five
    PROVE  0 \in Five /\ XorGroup[a][0] = a /\ XorGroup[a][a] = 0
<1>1. 0 \in Five
  BY DEF Five
<1>2. ASSUME NEW k \in 0 .. 4 PROVE Bit(0, k) = 0
  <2>1. k = 0 \/ k = 1 \/ k = 2 \/ k = 3 \/ k = 4
    OBVIOUS
  <2>2. 0 \in 0 .. 1 /\ 0 = 0 + 2 * 0 + 4 * 0 + 8 * 0 + 16 * 0
    OBVIOUS
  <2> QED BY <2>1, <2>2, BitsOfSum
<1>3. \A k \in 0 .. 4 : Bit(a, k) \in 0 .. 1
  BY FiveBits
<1>4. XorGroup[a][0] = a
  <2>1. \A k \in 0 .. 4 : Bit(XorGroup[a][0], k) = Bit(a, k)
    BY <1>1, <1>2, <1>3, XorGroupBits
  <2> QED BY <1>1, <2>1, XorGroupBits, SameBits
<1>5. XorGroup[a][a] = 0
  <2>1. \A k \in 0 .. 4 : Bit(XorGroup[a][a], k) = Bit(0, k)
    BY <1>1, <1>2, <1>3, XorGroupBits
  <2> QED BY <1>1, <2>1, XorGroupBits, SameBits
<1> QED BY <1>1, <1>4, <1>5

\* The order of two groups does not matter.
LEMMA XorGroupComm ==
    ASSUME NEW a \in Five, NEW b \in Five PROVE XorGroup[a][b] = XorGroup[b][a]
<1>1. \A k \in 0 .. 4 : Bit(a, k) \in 0 .. 1 /\ Bit(b, k) \in 0 .. 1
  BY FiveBits
<1>2. \A k \in 0 .. 4 : Bit(XorGroup[a][b], k) = Bit(XorGroup[b][a], k)
  BY <1>1, XorGroupBits
<1> QED BY <1>2, XorGroupBits, SameBits

\* Nor does the order in which three of them are taken.
LEMMA XorGroupAssoc ==
    ASSUME NEW a \in Five, NEW b \in Five, NEW c \in Five
    PROVE  XorGroup[XorGroup[a][b]][c] = XorGroup[a][XorGroup[b][c]]
<1> DEFINE x == XorGroup[a][b]
           y == XorGroup[b][c]
<1>1. x \in Five /\ y \in Five
  BY XorGroupBits
<1>2. XorGroup[x][c] \in Five /\ XorGroup[a][y] \in Five
  BY <1>1, XorGroupBits
<1>3. ASSUME NEW k \in 0 .. 4
      PROVE  Bit(XorGroup[x][c], k) = Bit(XorGroup[a][y], k)
  <2>1. Bit(a, k) \in 0 .. 1 /\ Bit(b, k) \in 0 .. 1 /\ Bit(c, k) \in 0 .. 1
    BY FiveBits
  <2>2. Bit(x, k) = (Bit(a, k) + Bit(b, k)) % 2 /\ Bit(y, k) = (Bit(b, k) + Bit(c, k)) % 2
    BY XorGroupBits
  <2>3. Bit(XorGroup[x][c], k) = (Bit(x, k) + Bit(c, k)) % 2
    BY <1>1, XorGroupBits
  <2>4. Bit(XorGroup[a][y], k) = (Bit(a, k) + Bit(y, k)) % 2
    BY <1>1, XorGroupBits
  <2> HIDE DEF x, y
  <2> QED BY <2>1, <2>2, <2>3, <2>4
<1> HIDE DEF x, y
<1>4. XorGroup[x][c] = XorGroup[a][y]
  BY <1>2, <1>3, SameBits
<1> QED BY <1>4 DEF x, y

-----------------------------------------------------------------------------
(* Words. *)

Zero == [j \in 1 .. 6 |-> 0]

\* The exclusive or of two words is a word.
LEMMA XorType ==
    ASSUME NEW c \in Word, NEW d \in Word
    PROVE  Xor(c, d) \in Word
<1>1. \A j \in 1 .. 6 : c[j] \in Five /\ d[j] \in Five
  BY DEF Word
<1>2. \A j \in 1 .. 6 : XorGroup[c[j]][d[j]] \in Five
  BY <1>1, XorGroupBits
<1> QED BY <1>2 DEF Xor, Word

\* Words with the same groups are the same.
LEMMA SameWord ==
    ASSUME NEW c \in Word, NEW d \in Word, \A j \in 1 .. 6 : c[j] = d[j]
    PROVE  c = d
BY DEF Word

\* As for groups, so for words: the order does not matter.
LEMMA XorComm ==
    ASSUME NEW c \in Word, NEW d \in Word
    PROVE  Xor(c, d) = Xor(d, c)
<1>1. \A j \in 1 .. 6 : c[j] \in Five /\ d[j] \in Five
  BY DEF Word
<1>2. \A j \in 1 .. 6 : XorGroup[c[j]][d[j]] = XorGroup[d[j]][c[j]]
  BY <1>1, XorGroupComm
<1> QED BY <1>2 DEF Xor

\* Three words can be taken in any order.
LEMMA XorAssoc ==
    ASSUME NEW c \in Word, NEW d \in Word, NEW e \in Word
    PROVE  Xor(Xor(c, d), e) = Xor(c, Xor(d, e))
<1>1. \A j \in 1 .. 6 : c[j] \in Five /\ d[j] \in Five /\ e[j] \in Five
  BY DEF Word
<1>2. \A j \in 1 .. 6 : XorGroup[XorGroup[c[j]][d[j]]][e[j]]
                          = XorGroup[c[j]][XorGroup[d[j]][e[j]]]
  BY <1>1, XorGroupAssoc
<1> QED BY <1>2 DEF Xor

\* Zero is neutral, and a word is its own inverse.
LEMMA XorZero ==
    ASSUME NEW c \in Word
    PROVE  Zero \in Word /\ Xor(c, Zero) = c /\ Xor(Zero, c) = c /\ Xor(c, c) = Zero
<1>1. \A j \in 1 .. 6 : c[j] \in Five
  BY DEF Word
<1>2. Zero \in Word
  BY DEF Zero, Word, Five
<1>3. \A j \in 1 .. 6 : XorGroup[c[j]][0] = c[j] /\ XorGroup[c[j]][c[j]] = 0
  BY <1>1, XorGroupZero
<1>4. Xor(c, Zero) = c
  BY <1>3 DEF Xor, Zero, Word
<1>5. Xor(c, c) = Zero
  BY <1>3 DEF Xor, Zero
<1> QED BY <1>2, <1>4, <1>5, XorComm

\* What was added is taken away by adding it again.
LEMMA XorCancels ==
    ASSUME NEW c \in Word, NEW d \in Word
    PROVE  Xor(c, Xor(c, d)) = d
<1>1. Xor(Xor(c, c), d) = Xor(c, Xor(c, d))
  BY XorAssoc
<1> QED BY <1>1, XorZero

\* Any number makes a word: the 30 last bits of it.
LEMMA GroupsType ==
    ASSUME NEW word \in Nat
    PROVE  Groups(word) \in Word
<1>1. ASSUME NEW j \in 1 .. 6 PROVE (word \div 32^(6 - j)) % 32 \in Five
  <2>1. j = 1 \/ j = 2 \/ j = 3 \/ j = 4 \/ j = 5 \/ j = 6
    OBVIOUS
  <2> QED BY <2>1, SMT DEF Five
<1> QED BY <1>1 DEF Groups, Word

\* The constants and the generators are words.
LEMMA ConstantType ==
    /\ bech32Const \in Word
    /\ bech32mConst \in Word
    /\ \A i \in 1 .. 5 : gen[i] \in Word
<1>1. \A w \in Nat : Groups(w) \in Word
  BY GroupsType
<1>2. \A i \in 1 .. 5 : gen[i] \in Word
  <2>1. ASSUME NEW i \in 1 .. 5 PROVE gen[i] \in Word
    <3>1. i = 1 \/ i = 2 \/ i = 3 \/ i = 4 \/ i = 5
      OBVIOUS
    <3> QED BY <1>1, <3>1, SMT DEF gen
  <2> QED BY <2>1
<1> QED BY <1>1, <1>2, SMT DEF bech32Const, bech32mConst

-----------------------------------------------------------------------------
(* The checksum. *)

\* The loop over the generators, for one group.
Selected(b, x) == x = [i \in 0 .. 5 |-> IF i = 0 THEN Groups(0)
                               ELSE IF Bit(b, i - 1) = 1
                                    THEN Xor(x[i - 1], gen[i]) ELSE x[i - 1]]

\* Feedback is what the loop over the five generators returns, and the loop
\* has only words on its way.
LEMMA FeedbackLoop ==
    ASSUME NEW b \in Five
    PROVE  \E x \in [0 .. 5 -> Word] : Selected(b, x) /\ Feedback[b] = x[5]
<1> DEFINE F == [i \in 1 .. 5 |-> [w \in Word |-> IF Bit(b, i - 1) = 1
                                                   THEN Xor(w, gen[i]) ELSE w]]
           T(x) == [i \in 0 .. 5 |-> IF i = 0 THEN Groups(0)
                               ELSE IF Bit(b, i - 1) = 1
                                    THEN Xor(x[i - 1], gen[i]) ELSE x[i - 1]]
<1>1. Groups(0) \in Word
  BY GroupsType
<1>2. F \in [1 .. 5 -> [Word -> Word]]
  <2>1. \A i \in 1 .. 5 : \A w \in Word : Xor(w, gen[i]) \in Word
    BY XorType, ConstantType
  <2> QED BY <2>1
<1>3. PICK f \in LoopRuns(5, Word, Groups(0), F) : TRUE
  <2> HIDE DEF F
  <2> QED BY <1>1, <1>2, LoopHasRun
<1>4. f = T(f)
  <2>1. ASSUME NEW i \in 0 .. 5 PROVE f[i] = T(f)[i]
    <3>1. CASE i = 0
      BY <1>3, <3>1 DEF LoopRuns
    <3>2. CASE i # 0
      <4>1. i \in 1 .. 5 /\ i - 1 \in 0 .. 5 /\ f[i - 1] \in Word
        BY <1>3, <3>2 DEF LoopRuns
      <4>2. f[i] = F[i][f[i - 1]]
        BY <1>3, <4>1 DEF LoopRuns
      <4> QED BY <4>1, <4>2
    <3> QED BY <3>1, <3>2
  <2> HIDE DEF T
  <2>2. T(f) = [i \in 0 .. 5 |-> T(f)[i]]
    BY DEF T
  <2> QED BY <1>3, <2>1, <2>2 DEF LoopRuns
<1> DEFINE P(x) == x = T(x)
           x0 == CHOOSE x : P(x)
<1>5. P(x0)
  <2>1. \E x : P(x)
    BY <1>4
  <2> HIDE DEF P
  <2> QED BY <2>1, Zenon
<1>6. Feedback[b] = x0[5]
  BY Zenon DEF Feedback, Generators, Five
<1> HIDE DEF x0
<1>7. 0 .. 5 \subseteq {i \in 0 .. 5 : x0[i] \in Word}
  <2> DEFINE W == {i \in 0 .. 5 : x0[i] \in Word}
  <2>1. 0 \in W
    BY <1>1, <1>5
  <2>2. ASSUME NEW i \in 1 .. 5, i - 1 \in W PROVE i \in W
    <3>1. x0[i] = IF Bit(b, i - 1) = 1 THEN Xor(x0[i - 1], gen[i]) ELSE x0[i - 1]
      BY <1>5
    <3>2. Xor(x0[i - 1], gen[i]) \in Word
      BY <2>2, XorType, ConstantType
    <3> QED BY <2>2, <3>1, <3>2
  <2>3. \A i \in 1 .. 5 : i - 1 \in W => i \in W
    BY <2>2
  <2> HIDE DEF W
  <2>4. ASSUME NEW n \in Nat, n = 5 PROVE 0 .. n \subseteq W
    <3>1. \A i \in 1 .. n : i - 1 \in W => i \in W
      BY <2>3, <2>4
    <3> QED BY <2>1, <3>1, RangeInduction
  <2> QED BY <2>4 DEF W
<1>8. x0 \in [0 .. 5 -> Word]
  BY <1>5, <1>7
<1> QED BY <1>5, <1>6, <1>8 DEF Selected

\* Feedback is a word.
LEMMA FeedbackType ==
    ASSUME NEW b \in Five PROVE Feedback[b] \in Word
BY FeedbackLoop

\* A shift moves every group one to the left.
LEMMA ShiftedType ==
    ASSUME NEW c \in Word, NEW v \in Five
    PROVE  /\ Shifted(c, v) \in Word
           /\ Shifted(c, v)[1] = c[2] /\ Shifted(c, v)[2] = c[3] /\ Shifted(c, v)[3] = c[4]
           /\ Shifted(c, v)[4] = c[5] /\ Shifted(c, v)[5] = c[6] /\ Shifted(c, v)[6] = v
BY DEF Shifted, Word

\* A step makes a word of a word.
LEMMA FedType ==
    ASSUME NEW c \in Word, NEW v \in Five
    PROVE  Fed(c, v) \in Word
<1>1. c[1] \in Five
  BY DEF Word
<1> QED BY <1>1, ShiftedType, FeedbackType, XorType DEF Fed

\* Groups that are not the first one of the word pass through a step.
LEMMA FedLinear ==
    ASSUME NEW a \in Word, NEW d \in Word, d[1] = 0, NEW v \in Five
    PROVE  Fed(Xor(a, d), v) = Xor(Fed(a, 0), Shifted(d, v))
<1> DEFINE A == Shifted(a, 0)
           D == Shifted(d, v)
           F == Feedback[a[1]]
<1>1. 0 \in Five /\ a[1] \in Five
  BY DEF Word, Five
<1>2. A \in Word /\ D \in Word /\ F \in Word
  BY <1>1, ShiftedType, FeedbackType
<1>3. Xor(a, d) \in Word /\ Xor(a, d)[1] = a[1]
  <2>1. Xor(a, d)[1] = XorGroup[a[1]][0]
    BY DEF Xor
  <2> QED BY <1>1, <2>1, XorType, XorGroupZero
<1>4. Shifted(Xor(a, d), v) = Xor(A, D)
  <2>1. XorGroup[0][v] = v
    BY <1>1, XorGroupZero, XorGroupComm
  <2>2. /\ A[1] = a[2] /\ A[2] = a[3] /\ A[3] = a[4] /\ A[4] = a[5] /\ A[5] = a[6] /\ A[6] = 0
        /\ D[1] = d[2] /\ D[2] = d[3] /\ D[3] = d[4] /\ D[4] = d[5] /\ D[5] = d[6] /\ D[6] = v
    BY <1>1, ShiftedType
  <2>3. Xor(A, D) = <<XorGroup[a[2]][d[2]], XorGroup[a[3]][d[3]], XorGroup[a[4]][d[4]],
                      XorGroup[a[5]][d[5]], XorGroup[a[6]][d[6]], v>>
    <3> HIDE DEF A, D
    <3> QED BY <2>1, <2>2 DEF Xor
  <2>4. Shifted(Xor(a, d), v) =
           <<XorGroup[a[2]][d[2]], XorGroup[a[3]][d[3]], XorGroup[a[4]][d[4]],
             XorGroup[a[5]][d[5]], XorGroup[a[6]][d[6]], v>>
    BY DEF Xor, Shifted
  <2> QED BY <2>3, <2>4
<1> HIDE DEF A, D, F
<1>5. CASE a[1] = 0
  <2>1. Fed(Xor(a, d), v) = Xor(A, D) /\ Fed(a, 0) = A
    BY <1>3, <1>4, <1>5 DEF Fed, A
  <2> QED BY <2>1 DEF D
<1>6. CASE a[1] # 0
  <2>1. Fed(Xor(a, d), v) = Xor(Xor(A, D), F) /\ Fed(a, 0) = Xor(A, F)
    BY <1>3, <1>4, <1>6 DEF Fed, A, F
  <2>2. Xor(Xor(A, D), F) = Xor(A, Xor(D, F)) /\ Xor(D, F) = Xor(F, D)
    BY <1>2, XorAssoc, XorComm
  <2>3. Xor(A, Xor(F, D)) = Xor(Xor(A, F), D)
    BY <1>2, XorAssoc
  <2> QED BY <2>1, <2>2, <2>3 DEF D
<1> QED BY <1>5, <1>6

\* Six values in a row.
FedSix(c, s) == Fed(Fed(Fed(Fed(Fed(Fed(c, s[1]), s[2]), s[3]), s[4]), s[5]), s[6])

\* The six last values are added to what six zeros would have made.
LEMMA FedSixLinear ==
    ASSUME NEW c \in Word, NEW s \in Word
    PROVE  FedSix(c, Zero) \in Word /\ FedSix(c, s) = Xor(FedSix(c, Zero), s)
<1> DEFINE z1 == Fed(c, 0)
           z2 == Fed(z1, 0)
           z3 == Fed(z2, 0)
           z4 == Fed(z3, 0)
           z5 == Fed(z4, 0)
           z6 == Fed(z5, 0)
           d1 == Shifted(Zero, s[1])
           d2 == Shifted(d1, s[2])
           d3 == Shifted(d2, s[3])
           d4 == Shifted(d3, s[4])
           d5 == Shifted(d4, s[5])
           d6 == Shifted(d5, s[6])
<1>1. 0 \in Five /\ s[1] \in Five /\ s[2] \in Five /\ s[3] \in Five /\ s[4] \in Five
        /\ s[5] \in Five /\ s[6] \in Five
  BY DEF Word, Five
<1>2. z1 \in Word /\ z2 \in Word /\ z3 \in Word /\ z4 \in Word /\ z5 \in Word /\ z6 \in Word
  BY <1>1, FedType
<1>3. Zero \in Word /\ Zero[1] = 0 /\ Xor(c, Zero) = c
  BY XorZero DEF Zero
<1>4. d1 \in Word /\ d2 \in Word /\ d3 \in Word /\ d4 \in Word /\ d5 \in Word /\ d6 \in Word
  BY <1>1, <1>3, ShiftedType
<1>5. Zero[2] = 0 /\ Zero[3] = 0 /\ Zero[4] = 0 /\ Zero[5] = 0 /\ Zero[6] = 0
  BY DEF Zero
<1> HIDE DEF Zero
<1>6. d1[1] = 0 /\ d2[1] = 0 /\ d3[1] = 0 /\ d4[1] = 0 /\ d5[1] = 0
  BY <1>5 DEF Shifted
<1>7. d6 = s
  <2>1. d6 = <<s[1], s[2], s[3], s[4], s[5], s[6]>>
    BY DEF Shifted
  <2> QED BY <2>1 DEF Word
<1> HIDE DEF z1, z2, z3, z4, z5, z6, d1, d2, d3, d4, d5, d6
<1>8. Fed(c, s[1]) = Xor(z1, d1)
  BY <1>1, <1>3, FedLinear DEF z1, d1
<1>9. Fed(Xor(z1, d1), s[2]) = Xor(z2, d2)
  BY <1>1, <1>2, <1>4, <1>6, FedLinear DEF z2, d2
<1>10. Fed(Xor(z2, d2), s[3]) = Xor(z3, d3)
  BY <1>1, <1>2, <1>4, <1>6, FedLinear DEF z3, d3
<1>11. Fed(Xor(z3, d3), s[4]) = Xor(z4, d4)
  BY <1>1, <1>2, <1>4, <1>6, FedLinear DEF z4, d4
<1>12. Fed(Xor(z4, d4), s[5]) = Xor(z5, d5)
  BY <1>1, <1>2, <1>4, <1>6, FedLinear DEF z5, d5
<1>13. Fed(Xor(z5, d5), s[6]) = Xor(z6, d6)
  BY <1>1, <1>2, <1>4, <1>6, FedLinear DEF z6, d6
<1>14. FedSix(c, s) = Xor(z6, s)
  BY <1>7, <1>8, <1>9, <1>10, <1>11, <1>12, <1>13 DEF FedSix
<1>15. FedSix(c, Zero) = z6
  BY DEF FedSix, Zero, z1, z2, z3, z4, z5, z6
<1> QED BY <1>2, <1>14, <1>15

\* The loop over the values.
Checks(values, chk) ==
    chk = [i \in 0 .. Len(values) |->
              IF i = 0 THEN Groups(1) ELSE Fed(chk[i - 1], values[i])]

\* bech32mPolymod is what the loop over the values returns, and the loop has
\* only words on its way.
LEMMA PolymodLoop ==
    ASSUME NEW values \in Seq(Five)
    PROVE  \E chk \in [0 .. Len(values) -> Word] :
              Checks(values, chk) /\ bech32mPolymod(values) = chk[Len(values)]
<1> DEFINE n == Len(values)
           F == [i \in 1 .. n |-> [w \in Word |-> Fed(w, values[i])]]
           P(chk) == chk = [i \in 0 .. Len(values) |->
                               IF i = 0 THEN Groups(1) ELSE Fed(chk[i - 1], values[i])]
           chk0 == CHOOSE chk : P(chk)
<1>1. Groups(1) \in Word /\ n \in Nat /\ \A i \in 1 .. n : values[i] \in Five
  BY GroupsType
<1>2. F \in [1 .. n -> [Word -> Word]]
  BY <1>1, FedType
<1>3. PICK f \in LoopRuns(n, Word, Groups(1), F) : TRUE
  <2> HIDE DEF F, n
  <2> QED BY <1>1, <1>2, LoopHasRun
<1>4. P(f)
  <2>1. f \in [0 .. n -> Word] /\ f[0] = Groups(1)
    BY <1>3 DEF LoopRuns
  <2>2. ASSUME NEW i \in 1 .. n PROVE f[i] = Fed(f[i - 1], values[i])
    <3>1. i - 1 \in 0 .. n
      BY <1>1
    <3>2. f[i - 1] \in Word
      BY <2>1, <3>1
    <3>3. f[i] = F[i][f[i - 1]]
      <4> HIDE DEF F, n
      <4> QED BY <1>3 DEF LoopRuns
    <3> QED BY <3>2, <3>3
  <2> QED BY <1>1, <2>1, <2>2
<1>5. P(chk0)
  <2> HIDE DEF P
  <2> QED BY <1>4, Zenon
<1>6. bech32mPolymod(values) = chk0[n]
  BY Zenon DEF bech32mPolymod
<1> HIDE DEF chk0, F
<1>7. 0 .. n \subseteq {i \in 0 .. n : chk0[i] \in Word}
  <2> DEFINE W == {i \in 0 .. n : chk0[i] \in Word}
  <2>1. 0 \in W
    BY <1>1, <1>5
  <2>2. ASSUME NEW i \in 1 .. n, i - 1 \in W PROVE i \in W
    <3>1. chk0[i] = Fed(chk0[i - 1], values[i])
      BY <1>5
    <3> QED BY <1>1, <2>2, <3>1, FedType
  <2>3. \A i \in 1 .. n : i - 1 \in W => i \in W
    BY <2>2
  <2> HIDE DEF W, n
  <2>4. 0 .. n \subseteq W
    BY <1>1, <2>1, <2>3, RangeInduction
  <2> QED BY <2>4 DEF W
<1>8. chk0 \in [0 .. n -> Word]
  BY <1>5, <1>7
<1> QED BY <1>5, <1>6, <1>8 DEF Checks

\* A word is a sequence of six groups.
LEMMA WordIsSeq ==
    ASSUME NEW s \in Word
    PROVE  s \in Seq(Five) /\ Len(s) = 6 /\ \A j \in 1 .. 6 : s[j] \in Five
<1>1. s = <<s[1], s[2], s[3], s[4], s[5], s[6]>>
  BY DEF Word
<1>2. \A j \in 1 .. 6 : s[j] \in Five
  BY DEF Word
<1>3. <<s[1], s[2], s[3], s[4], s[5], s[6]>> \in Seq(Five)
        /\ Len(<<s[1], s[2], s[3], s[4], s[5], s[6]>>) = 6
  BY <1>2
<1> QED BY <1>1, <1>2, <1>3

\* A checksum is a word.
LEMMA PolymodType ==
    ASSUME NEW values \in Seq(Five) PROVE bech32mPolymod(values) \in Word
<1>1. Len(values) \in 0 .. Len(values)
  OBVIOUS
<1> QED BY <1>1, PolymodLoop

\* The loop over the values, step by step.
LEMMA ChecksStep ==
    ASSUME NEW values \in Seq(Five), NEW chk, Checks(values, chk)
    PROVE  /\ chk[0] = Groups(1)
           /\ \A j \in 1 .. Len(values) : chk[j] = Fed(chk[j - 1], values[j])
<1>1. chk[0] = Groups(1)
  <2>1. Len(values) \in Nat
    OBVIOUS
  <2>2. 0 \in 0 .. Len(values)
    BY <2>1
  <2> QED BY <2>2 DEF Checks
<1>2. ASSUME NEW j \in 1 .. Len(values) PROVE chk[j] = Fed(chk[j - 1], values[j])
  <2>1. j \in 0 .. Len(values) /\ j # 0
    OBVIOUS
  <2> QED BY <2>1 DEF Checks
<1> QED BY <1>1, <1>2

\* What six more values do to the checksum.
LEMMA PolymodOfSixMore ==
    ASSUME NEW e \in Seq(Five), NEW s \in Word
    PROVE  e \o s \in Seq(Five)
           /\ bech32mPolymod(e \o s) = FedSix(bech32mPolymod(e), s)
<1> DEFINE n == Len(e)
           v == e \o s
<1>1. s \in Seq(Five) /\ Len(s) = 6
  BY WordIsSeq
<1>2. /\ n \in Nat /\ v \in Seq(Five) /\ Len(v) = n + 6
      /\ \A i \in 1 .. n + 6 : v[i] = IF i <= n THEN e[i] ELSE s[i - n]
  <2>1. v \in Seq(Five) /\ Len(v) = Len(e) + Len(s)
          /\ \A i \in 1 .. Len(e) + Len(s) : v[i] = IF i <= Len(e) THEN e[i] ELSE s[i - Len(e)]
    BY <1>1, ConcatProperties
  <2> HIDE DEF v
  <2> QED BY <1>1, <2>1
<1>3. (\A i \in 1 .. n : v[i] = e[i]) /\ \A j \in 1 .. 6 : v[n + j] = s[j]
  <2>1. n \in Nat
    OBVIOUS
  <2> HIDE DEF n, v
  <2>2. \A j \in 1 .. 6 : (n + j) - n = j /\ ~(n + j <= n) /\ n + j \in 1 .. n + 6
    BY <2>1
  <2> QED BY <1>2, <2>1, <2>2
<1> HIDE DEF n, v
<1>4. PICK c \in [0 .. n -> Word] : Checks(e, c) /\ bech32mPolymod(e) = c[n]
  BY PolymodLoop DEF n
<1>5. PICK d \in [0 .. n + 6 -> Word] : Checks(v, d) /\ bech32mPolymod(v) = d[n + 6]
  BY <1>2, PolymodLoop
<1>6. 0 .. n \subseteq {i \in 0 .. n : d[i] = c[i]}
  <2> DEFINE W == {i \in 0 .. n : d[i] = c[i]}
  <2>1. c[0] = Groups(1) /\ d[0] = Groups(1)
    BY <1>2, <1>4, <1>5 DEF Checks, n
  <2>2. 0 \in W
    BY <1>2, <2>1
  <2>3. ASSUME NEW i \in 1 .. n, i - 1 \in W PROVE i \in W
    <3>1. i \in 1 .. Len(e) /\ i \in 1 .. Len(v)
      BY <1>2 DEF n
    <3>2. c[i] = Fed(c[i - 1], e[i])
      BY <1>4, <3>1, ChecksStep, Zenon
    <3>3. d[i] = Fed(d[i - 1], v[i])
      BY <1>2, <1>5, <3>1, ChecksStep, Zenon
    <3> QED BY <1>3, <2>3, <3>2, <3>3
  <2>4. \A i \in 1 .. n : i - 1 \in W => i \in W
    BY <2>3
  <2> HIDE DEF W
  <2>5. 0 .. n \subseteq W
    BY <1>2, <2>2, <2>4, RangeInduction
  <2> QED BY <2>5 DEF W
<1>7. d[n] = bech32mPolymod(e)
  BY <1>2, <1>4, <1>6
<1>8. ASSUME NEW j \in 1 .. 6 PROVE d[n + j] = Fed(d[n + j - 1], s[j])
  <2>0. n + j \in 1 .. Len(v)
    BY <1>2
  <2>1. d[n + j] = Fed(d[(n + j) - 1], v[n + j])
    BY <1>2, <1>5, <2>0, ChecksStep, Zenon
  <2>2. v[n + j] = s[j]
    BY <1>3
  <2>3. (n + j) - 1 = n + j - 1
    BY <1>2
  <2> QED BY <2>1, <2>2, <2>3
<1>9. d[n + 1] = Fed(d[n], s[1]) /\ d[n + 2] = Fed(d[n + 1], s[2])
        /\ d[n + 3] = Fed(d[n + 2], s[3]) /\ d[n + 4] = Fed(d[n + 3], s[4])
        /\ d[n + 5] = Fed(d[n + 4], s[5]) /\ d[n + 6] = Fed(d[n + 5], s[6])
  <2>1. n + 1 - 1 = n /\ n + 2 - 1 = n + 1 /\ n + 3 - 1 = n + 2 /\ n + 4 - 1 = n + 3
          /\ n + 5 - 1 = n + 4 /\ n + 6 - 1 = n + 5
    BY <1>2
  <2> QED BY <1>8, <2>1
<1>10. d[n + 6] = FedSix(d[n], s)
  BY <1>9 DEF FedSix
<1> QED BY <1>2, <1>5, <1>7, <1>10 DEF v

\* The human-readable part expands to values.
LEMMA HrpExpandType ==
    ASSUME NEW hrp \in Seq(Code) PROVE HrpExpand(hrp) \in Seq(Five)
<1> DEFINE n == Len(hrp)
           high == [i \in 1 .. n |-> hrp[i] \div 32]
           low  == [i \in 1 .. n |-> hrp[i] % 32]
<1>1. n \in Nat /\ \A i \in 1 .. n : hrp[i] \in Code
  OBVIOUS
<1>2. \A c \in Code : c \div 32 \in Five /\ c % 32 \in Five
  BY DEF Code, Five
<1> HIDE DEF n
<1>3. high \in [1 .. n -> Five] /\ low \in [1 .. n -> Five] /\ <<0>> \in Seq(Five)
  <2>1. 0 \in Five
    BY DEF Five
  <2>2. <<0>> \in Seq(Five)
    BY <2>1
  <2> QED BY <1>1, <1>2, <2>2
<1>4. high \in Seq(Five) /\ low \in Seq(Five)
  <2> HIDE DEF high, low
  <2> QED BY <1>1, <1>3
<1>5. HrpExpand(hrp) = high \o <<0>> \o low
  BY DEF HrpExpand, n
<1> HIDE DEF high, low
<1>6. high \o <<0>> \in Seq(Five)
  BY <1>3, <1>4
<1> QED BY <1>4, <1>5, <1>6

\* The checksum is what the last six values must be.
THEOREM ChecksumFits ==
    ASSUME NEW hrp \in Seq(Code), NEW data \in Seq(Five), NEW const \in Word
    PROVE  /\ Checksum(hrp, data, const) \in Word
           /\ \A s \in Word : bech32mPolymod(HrpExpand(hrp) \o data \o s) = const
                                 <=> s = Checksum(hrp, data, const)
<1> DEFINE e == HrpExpand(hrp) \o data
           w == bech32mPolymod(e)
           z == FedSix(w, Zero)
<1>1. e \in Seq(Five)
  BY HrpExpandType
<1> HIDE DEF e
<1>2. w \in Word /\ Zero \in Word
  BY <1>1, PolymodType, XorZero
<1> HIDE DEF w
<1>3. z \in Word
  BY <1>2, FedSixLinear
<1>4. Zero = <<0, 0, 0, 0, 0, 0>>
  BY DEF Zero
<1>5. Checksum(hrp, data, const) = Xor(z, const)
  <2>1. bech32mPolymod(e \o Zero) = z
    BY <1>1, <1>2, PolymodOfSixMore DEF w
  <2> QED BY <1>4, <2>1 DEF Checksum, e
<1> HIDE DEF z
<1>6. ASSUME NEW s \in Word
      PROVE  bech32mPolymod(e \o s) = const <=> s = Xor(z, const)
  <2>1. bech32mPolymod(e \o s) = Xor(z, s)
    BY <1>1, <1>2, PolymodOfSixMore, FedSixLinear DEF w, z
  <2>2. Xor(z, Xor(z, const)) = const /\ Xor(z, Xor(z, s)) = s
    BY <1>3, XorCancels
  <2> QED BY <2>1, <2>2
<1> QED BY <1>3, <1>5, <1>6, XorType DEF e

-----------------------------------------------------------------------------
(* One mistake in the data. *)

\* The last groups of the generators.
LEMMA LastGroupsOfGenerators ==
    /\ Groups(0)[6] = 0
    /\ gen[1][6] = 18 /\ gen[2][6] = 13 /\ gen[3][6] = 26 /\ gen[4][6] = 29
    /\ gen[5][6] = 19
<1>1. ASSUME NEW w \in Nat PROVE Groups(w)[6] = w % 32
  <2>1. Groups(w)[6] = (w \div 32^(6 - 6)) % 32
    BY DEF Groups
  <2>2. 6 - 6 = 0 /\ 32^0 = 1
    OBVIOUS
  <2>3. w \div 1 = w
    OBVIOUS
  <2> QED BY <2>1, <2>2, <2>3
<1>2. /\ gen[1] = Groups(996825010) /\ gen[2] = Groups(642813549)
      /\ gen[3] = Groups(513874426) /\ gen[4] = Groups(1027748829)
      /\ gen[5] = Groups(705979059)
  BY SMT DEF gen
<1>3. /\ 996825010 % 32 = 18 /\ 642813549 % 32 = 13 /\ 513874426 % 32 = 26
      /\ 1027748829 % 32 = 29 /\ 705979059 % 32 = 19 /\ 0 % 32 = 0
  BY SMT
<1> QED BY <1>1, <1>2, <1>3, SMT

\* One step of the loop over the generators, for the last group.
LEMMA LastGroupStep ==
    ASSUME NEW b \in Five, NEW x \in [0 .. 5 -> Word], Selected(b, x), NEW i \in 1 .. 5
    PROVE  /\ x[i][6] \in Five /\ x[i - 1][6] \in Five
           /\ \A k \in 0 .. 4 :
                 Bit(x[i][6], k) = IF Bit(b, i - 1) = 1
                                   THEN (Bit(x[i - 1][6], k) + Bit(gen[i][6], k)) % 2
                                   ELSE Bit(x[i - 1][6], k)
<1>1. i - 1 \in 0 .. 5 /\ i \in 0 .. 5 /\ i # 0
  OBVIOUS
<1>2. x[i] \in Word /\ x[i - 1] \in Word /\ gen[i] \in Word
  BY <1>1, ConstantType
<1>3. x[i][6] \in Five /\ x[i - 1][6] \in Five /\ gen[i][6] \in Five
  BY <1>2 DEF Word
<1>4. x[i] = IF Bit(b, i - 1) = 1 THEN Xor(x[i - 1], gen[i]) ELSE x[i - 1]
  BY <1>1 DEF Selected
<1>5. Xor(x[i - 1], gen[i])[6] = XorGroup[x[i - 1][6]][gen[i][6]]
  BY DEF Xor
<1> QED BY <1>3, <1>4, <1>5, XorGroupBits

\* The group that leaves the word can be told from the last group of its
\* feedback: no two groups have the same.
LEMMA FeedbackTells ==
    ASSUME NEW b \in Five
    PROVE  LET p == Feedback[b][6]
           IN  /\ p \in Five
               /\ Bit(b, 0) = (Bit(p, 0) + Bit(p, 1) + Bit(p, 3)) % 2
               /\ Bit(b, 1) = (Bit(p, 1) + Bit(p, 2) + Bit(p, 4)) % 2
               /\ Bit(b, 2) = (Bit(p, 2) + Bit(p, 3)) % 2
               /\ Bit(b, 3) = (Bit(p, 1) + Bit(p, 4)) % 2
               /\ Bit(b, 4) = (Bit(p, 0) + Bit(p, 2)) % 2
<1>1. PICK x \in [0 .. 5 -> Word] : Selected(b, x) /\ Feedback[b] = x[5]
  BY FeedbackLoop
<1> DEFINE
    y0 == x[0][6]
    y1 == x[1][6]
    y2 == x[2][6]
    y3 == x[3][6]
    y4 == x[4][6]
    y5 == x[5][6]
    m0 == Bit(b, 0)
    m1 == Bit(b, 1)
    m2 == Bit(b, 2)
    m3 == Bit(b, 3)
    m4 == Bit(b, 4)
<1>2. m0 \in 0 .. 1 /\ m1 \in 0 .. 1 /\ m2 \in 0 .. 1 /\ m3 \in 0 .. 1 /\ m4 \in 0 .. 1
  BY FiveBits
<1>3. y0 = 0
  <2>1. x[0] = Groups(0)
    BY <1>1 DEF Selected
  <2> QED BY <2>1, LastGroupsOfGenerators
<1>4. /\ y1 \in Five
      /\ \A k \in 0 .. 4 : Bit(y1, k) = IF m0 = 1 THEN (Bit(y0, k) + Bit(18, k)) % 2
                                         ELSE Bit(y0, k)
  <2>1. 1 \in 1 .. 5 /\ 1 - 1 = 0 /\ gen[1][6] = 18
    BY LastGroupsOfGenerators
  <2> QED BY <1>1, <2>1, LastGroupStep
<1>5. /\ y2 \in Five
      /\ \A k \in 0 .. 4 : Bit(y2, k) = IF m1 = 1 THEN (Bit(y1, k) + Bit(13, k)) % 2
                                         ELSE Bit(y1, k)
  <2>1. 2 \in 1 .. 5 /\ 2 - 1 = 1 /\ gen[2][6] = 13
    BY LastGroupsOfGenerators
  <2> QED BY <1>1, <2>1, LastGroupStep
<1>6. /\ y3 \in Five
      /\ \A k \in 0 .. 4 : Bit(y3, k) = IF m2 = 1 THEN (Bit(y2, k) + Bit(26, k)) % 2
                                         ELSE Bit(y2, k)
  <2>1. 3 \in 1 .. 5 /\ 3 - 1 = 2 /\ gen[3][6] = 26
    BY LastGroupsOfGenerators
  <2> QED BY <1>1, <2>1, LastGroupStep
<1>7. /\ y4 \in Five
      /\ \A k \in 0 .. 4 : Bit(y4, k) = IF m3 = 1 THEN (Bit(y3, k) + Bit(29, k)) % 2
                                         ELSE Bit(y3, k)
  <2>1. 4 \in 1 .. 5 /\ 4 - 1 = 3 /\ gen[4][6] = 29
    BY LastGroupsOfGenerators
  <2> QED BY <1>1, <2>1, LastGroupStep
<1>8. /\ y5 \in Five
      /\ \A k \in 0 .. 4 : Bit(y5, k) = IF m4 = 1 THEN (Bit(y4, k) + Bit(19, k)) % 2
                                         ELSE Bit(y4, k)
  <2>1. 5 \in 1 .. 5 /\ 5 - 1 = 4 /\ gen[5][6] = 19
    BY LastGroupsOfGenerators
  <2> QED BY <1>1, <2>1, LastGroupStep
<1> HIDE DEF y0, y1, y2, y3, y4, y5, m0, m1, m2, m3, m4
<1>9. Bit(y5, 0) = (m1 + m3 + m4) % 2
  <2>1. Bit(18, 0) = 0 /\ Bit(13, 0) = 1 /\ Bit(26, 0) = 0 /\ Bit(29, 0) = 1 /\ Bit(19, 0) = 1
    BY SMT DEF Bit
  <2>2. Bit(y0, 0) = 0
    BY <1>3, SMT DEF Bit
  <2>3. 0 \in 0 .. 4
    OBVIOUS
  <2>4. Bit(y1, 0) = 0
    BY <1>2, <1>4, <2>1, <2>2, <2>3
  <2>5. Bit(y2, 0) = (m1) % 2
    BY <1>2, <1>5, <2>1, <2>4, <2>3
  <2>6. Bit(y3, 0) = (m1) % 2
    BY <1>2, <1>6, <2>1, <2>5, <2>3
  <2>7. Bit(y4, 0) = (m1 + m3) % 2
    BY <1>2, <1>7, <2>1, <2>6, <2>3
  <2>8. Bit(y5, 0) = (m1 + m3 + m4) % 2
    BY <1>2, <1>8, <2>1, <2>7, <2>3
  <2> QED BY <2>8
<1>10. Bit(y5, 1) = (m0 + m2 + m4) % 2
  <2>1. Bit(18, 1) = 1 /\ Bit(13, 1) = 0 /\ Bit(26, 1) = 1 /\ Bit(29, 1) = 0 /\ Bit(19, 1) = 1
    BY SMT DEF Bit
  <2>2. Bit(y0, 1) = 0
    BY <1>3, SMT DEF Bit
  <2>3. 1 \in 0 .. 4
    OBVIOUS
  <2>4. Bit(y1, 1) = (m0) % 2
    BY <1>2, <1>4, <2>1, <2>2, <2>3
  <2>5. Bit(y2, 1) = (m0) % 2
    BY <1>2, <1>5, <2>1, <2>4, <2>3
  <2>6. Bit(y3, 1) = (m0 + m2) % 2
    BY <1>2, <1>6, <2>1, <2>5, <2>3
  <2>7. Bit(y4, 1) = (m0 + m2) % 2
    BY <1>2, <1>7, <2>1, <2>6, <2>3
  <2>8. Bit(y5, 1) = (m0 + m2 + m4) % 2
    BY <1>2, <1>8, <2>1, <2>7, <2>3
  <2> QED BY <2>8
<1>11. Bit(y5, 2) = (m1 + m3) % 2
  <2>1. Bit(18, 2) = 0 /\ Bit(13, 2) = 1 /\ Bit(26, 2) = 0 /\ Bit(29, 2) = 1 /\ Bit(19, 2) = 0
    BY SMT DEF Bit
  <2>2. Bit(y0, 2) = 0
    BY <1>3, SMT DEF Bit
  <2>3. 2 \in 0 .. 4
    OBVIOUS
  <2>4. Bit(y1, 2) = 0
    BY <1>2, <1>4, <2>1, <2>2, <2>3
  <2>5. Bit(y2, 2) = (m1) % 2
    BY <1>2, <1>5, <2>1, <2>4, <2>3
  <2>6. Bit(y3, 2) = (m1) % 2
    BY <1>2, <1>6, <2>1, <2>5, <2>3
  <2>7. Bit(y4, 2) = (m1 + m3) % 2
    BY <1>2, <1>7, <2>1, <2>6, <2>3
  <2>8. Bit(y5, 2) = (m1 + m3) % 2
    BY <1>2, <1>8, <2>1, <2>7, <2>3
  <2> QED BY <2>8
<1>12. Bit(y5, 3) = (m1 + m2 + m3) % 2
  <2>1. Bit(18, 3) = 0 /\ Bit(13, 3) = 1 /\ Bit(26, 3) = 1 /\ Bit(29, 3) = 1 /\ Bit(19, 3) = 0
    BY SMT DEF Bit
  <2>2. Bit(y0, 3) = 0
    BY <1>3, SMT DEF Bit
  <2>3. 3 \in 0 .. 4
    OBVIOUS
  <2>4. Bit(y1, 3) = 0
    BY <1>2, <1>4, <2>1, <2>2, <2>3
  <2>5. Bit(y2, 3) = (m1) % 2
    BY <1>2, <1>5, <2>1, <2>4, <2>3
  <2>6. Bit(y3, 3) = (m1 + m2) % 2
    BY <1>2, <1>6, <2>1, <2>5, <2>3
  <2>7. Bit(y4, 3) = (m1 + m2 + m3) % 2
    BY <1>2, <1>7, <2>1, <2>6, <2>3
  <2>8. Bit(y5, 3) = (m1 + m2 + m3) % 2
    BY <1>2, <1>8, <2>1, <2>7, <2>3
  <2> QED BY <2>8
<1>13. Bit(y5, 4) = (m0 + m2 + m3 + m4) % 2
  <2>1. Bit(18, 4) = 1 /\ Bit(13, 4) = 0 /\ Bit(26, 4) = 1 /\ Bit(29, 4) = 1 /\ Bit(19, 4) = 1
    BY SMT DEF Bit
  <2>2. Bit(y0, 4) = 0
    BY <1>3, SMT DEF Bit
  <2>3. 4 \in 0 .. 4
    OBVIOUS
  <2>4. Bit(y1, 4) = (m0) % 2
    BY <1>2, <1>4, <2>1, <2>2, <2>3
  <2>5. Bit(y2, 4) = (m0) % 2
    BY <1>2, <1>5, <2>1, <2>4, <2>3
  <2>6. Bit(y3, 4) = (m0 + m2) % 2
    BY <1>2, <1>6, <2>1, <2>5, <2>3
  <2>7. Bit(y4, 4) = (m0 + m2 + m3) % 2
    BY <1>2, <1>7, <2>1, <2>6, <2>3
  <2>8. Bit(y5, 4) = (m0 + m2 + m3 + m4) % 2
    BY <1>2, <1>8, <2>1, <2>7, <2>3
  <2> QED BY <2>8
<1>14. /\ y5 \in Five
       /\ m0 = (Bit(y5, 0) + Bit(y5, 1) + Bit(y5, 3)) % 2
       /\ m1 = (Bit(y5, 1) + Bit(y5, 2) + Bit(y5, 4)) % 2
       /\ m2 = (Bit(y5, 2) + Bit(y5, 3)) % 2
       /\ m3 = (Bit(y5, 1) + Bit(y5, 4)) % 2
       /\ m4 = (Bit(y5, 0) + Bit(y5, 2)) % 2
  <2> DEFINE
      p0 == Bit(y5, 0)
      p1 == Bit(y5, 1)
      p2 == Bit(y5, 2)
      p3 == Bit(y5, 3)
      p4 == Bit(y5, 4)
  <2>1. p0 = (m1 + m3 + m4) % 2
        /\ p1 = (m0 + m2 + m4) % 2
        /\ p2 = (m1 + m3) % 2
        /\ p3 = (m1 + m2 + m3) % 2
        /\ p4 = (m0 + m2 + m3 + m4) % 2
    BY <1>9, <1>10, <1>11, <1>12, <1>13
  <2> HIDE DEF p0, p1, p2, p3, p4
  <2>2. m0 = (p0 + p1 + p3) % 2
    BY <1>2, <2>1
  <2>3. m1 = (p1 + p2 + p4) % 2
    BY <1>2, <2>1
  <2>4. m2 = (p2 + p3) % 2
    BY <1>2, <2>1
  <2>5. m3 = (p1 + p4) % 2
    BY <1>2, <2>1
  <2>6. m4 = (p0 + p2) % 2
    BY <1>2, <2>1
  <2> QED BY <1>8, <2>2, <2>3, <2>4, <2>5, <2>6 DEF p0, p1, p2, p3, p4
<1> QED BY <1>1, <1>14 DEF y5, m0, m1, m2, m3, m4

\* So the feedback of two groups is different.
LEMMA FeedbackDiffers ==
    ASSUME NEW a \in Five, NEW b \in Five, Feedback[a][6] = Feedback[b][6]
    PROVE  a = b
<1> DEFINE p == Feedback[a][6]
<1>1. Feedback[b][6] = p
  OBVIOUS
<1>2. Bit(a, 0) = Bit(b, 0) /\ Bit(a, 1) = Bit(b, 1) /\ Bit(a, 2) = Bit(b, 2)
        /\ Bit(a, 3) = Bit(b, 3) /\ Bit(a, 4) = Bit(b, 4)
  BY <1>1, FeedbackTells
<1> QED BY <1>2, FiveBits

\* What was added to two groups can be left out.
LEMMA XorGroupCancels ==
    ASSUME NEW a \in Five, NEW b \in Five, NEW f \in Five,
           XorGroup[a][f] = XorGroup[b][f]
    PROVE  a = b
<1>1. XorGroup[XorGroup[a][f]][f] = XorGroup[a][XorGroup[f][f]]
  BY XorGroupAssoc
<1>2. XorGroup[XorGroup[b][f]][f] = XorGroup[b][XorGroup[f][f]]
  BY XorGroupAssoc
<1>3. XorGroup[f][f] = 0 /\ XorGroup[a][0] = a /\ XorGroup[b][0] = b
  BY XorGroupZero
<1> QED BY <1>1, <1>2, <1>3

\* A step, group by group.
LEMMA FedGroups ==
    ASSUME NEW c \in Word, NEW v \in Five
    PROVE  LET f == IF c[1] = 0 THEN Zero ELSE Feedback[c[1]]
               s == Shifted(c, v)
           IN  /\ f \in Word /\ s \in Word
               /\ \A j \in 1 .. 6 : Fed(c, v)[j] = XorGroup[s[j]][f[j]]
<1> DEFINE f == IF c[1] = 0 THEN Zero ELSE Feedback[c[1]]
           s == Shifted(c, v)
<1>1. c[1] \in Five
  BY DEF Word
<1>2. f \in Word /\ s \in Word
  BY <1>1, XorZero, FeedbackType, ShiftedType
<1>3. Fed(c, v) = Xor(s, f)
  <2>1. CASE c[1] = 0
    BY <1>2, <2>1, XorZero DEF Fed
  <2>2. CASE c[1] # 0
    BY <2>2 DEF Fed
  <2> QED BY <2>1, <2>2
<1> HIDE DEF f, s
<1> QED BY <1>2, <1>3 DEF Xor, f, s

\* The word before a step can be told from the word after it, and so can the
\* value that was fed.
LEMMA FedTells ==
    ASSUME NEW c \in Word, NEW d \in Word, NEW v \in Five, Fed(c, v) = Fed(d, v)
    PROVE  c = d
<1> DEFINE f == IF c[1] = 0 THEN Zero ELSE Feedback[c[1]]
           g == IF d[1] = 0 THEN Zero ELSE Feedback[d[1]]
           s == Shifted(c, v)
           t == Shifted(d, v)
<1>1. /\ f \in Word /\ s \in Word
      /\ \A j \in 1 .. 6 : Fed(c, v)[j] = XorGroup[s[j]][f[j]]
  BY FedGroups
<1>2. /\ g \in Word /\ t \in Word
      /\ \A j \in 1 .. 6 : Fed(d, v)[j] = XorGroup[t[j]][g[j]]
  BY FedGroups
<1>3. /\ s[1] = c[2] /\ s[2] = c[3] /\ s[3] = c[4] /\ s[4] = c[5] /\ s[5] = c[6] /\ s[6] = v
      /\ t[1] = d[2] /\ t[2] = d[3] /\ t[3] = d[4] /\ t[4] = d[5] /\ t[5] = d[6] /\ t[6] = v
  BY ShiftedType
<1>4. c[1] \in Five /\ d[1] \in Five
  BY DEF Word
<1>5. 0 \in Five /\ Feedback[0][6] = 0
  <2>1. 0 \in Five
    BY DEF Five
  <2>2. PICK x \in [0 .. 5 -> Word] : Selected(0, x) /\ Feedback[0] = x[5]
    BY <2>1, FeedbackLoop
  <2>3. Bit(0, 0) = 0 /\ Bit(0, 1) = 0 /\ Bit(0, 2) = 0 /\ Bit(0, 3) = 0 /\ Bit(0, 4) = 0
    BY SMT DEF Bit
  <2>4. /\ x[0] = Groups(0) /\ x[1] = x[0] /\ x[2] = x[1] /\ x[3] = x[2] /\ x[4] = x[3]
        /\ x[5] = x[4]
    BY <2>2, <2>3 DEF Selected
  <2> QED BY <2>1, <2>2, <2>4, LastGroupsOfGenerators
<1>6. f[6] = Feedback[c[1]][6] /\ g[6] = Feedback[d[1]][6]
  <2>1. Zero[6] = 0
    BY DEF Zero
  <2> QED BY <1>5, <2>1
<1> HIDE DEF f, g, s, t
<1>7. f[6] = g[6]
  <2>1. XorGroup[v][f[6]] = XorGroup[v][g[6]] /\ f[6] \in Five /\ g[6] \in Five
    BY <1>1, <1>2, <1>3 DEF Word
  <2>2. XorGroup[f[6]][v] = XorGroup[g[6]][v]
    BY <2>1, XorGroupComm
  <2> QED BY <2>1, <2>2, XorGroupCancels
<1>8. c[1] = d[1]
  BY <1>4, <1>6, <1>7, FeedbackDiffers
<1>9. f = g
  BY <1>8 DEF f, g
<1>10. ASSUME NEW j \in 1 .. 6 PROVE s[j] = t[j]
  <2>1. s[j] \in Five /\ t[j] \in Five /\ f[j] \in Five
    BY <1>1, <1>2 DEF Word
  <2>2. XorGroup[s[j]][f[j]] = XorGroup[t[j]][f[j]]
    BY <1>1, <1>2, <1>9
  <2> QED BY <2>1, <2>2, XorGroupCancels
<1>11. c[2] = d[2] /\ c[3] = d[3] /\ c[4] = d[4] /\ c[5] = d[5] /\ c[6] = d[6]
  BY <1>3, <1>10
<1>12. \A j \in 1 .. 6 : c[j] = d[j]
  BY <1>8, <1>11
<1> QED BY <1>12, SameWord

\* The value that was fed can be told from the last group after the step, and
\* the first group is the same for every value.
LEMMA FedTellsValue ==
    ASSUME NEW c \in Word, NEW a \in Five, NEW b \in Five
    PROVE  /\ Fed(c, a)[1] = Fed(c, b)[1]
           /\ Fed(c, a)[6] = Fed(c, b)[6] => a = b
<1> DEFINE f == IF c[1] = 0 THEN Zero ELSE Feedback[c[1]]
           s == Shifted(c, a)
           t == Shifted(c, b)
<1>1. /\ f \in Word /\ s \in Word
      /\ \A j \in 1 .. 6 : Fed(c, a)[j] = XorGroup[s[j]][f[j]]
  BY FedGroups
<1>2. /\ f \in Word /\ t \in Word
      /\ \A j \in 1 .. 6 : Fed(c, b)[j] = XorGroup[t[j]][f[j]]
  BY FedGroups
<1>3. s[1] = c[2] /\ t[1] = c[2] /\ s[6] = a /\ t[6] = b
  BY ShiftedType
<1> HIDE DEF f, s, t
<1>4. f[6] \in Five
  BY <1>1 DEF Word
<1>5. Fed(c, a)[1] = Fed(c, b)[1]
  BY <1>1, <1>2, <1>3
<1>6. Fed(c, a)[6] = XorGroup[a][f[6]] /\ Fed(c, b)[6] = XorGroup[b][f[6]]
  BY <1>1, <1>2, <1>3
<1> QED BY <1>4, <1>5, <1>6, XorGroupCancels

\* Two values that follow each other cannot be swapped.
LEMMA FedTellsOrder ==
    ASSUME NEW c \in Word, NEW a \in Five, NEW b \in Five,
           Fed(Fed(c, a), b) = Fed(Fed(c, b), a)
    PROVE  a = b
<1> DEFINE s == Fed(c, a)
           t == Fed(c, b)
           f == IF s[1] = 0 THEN Zero ELSE Feedback[s[1]]
           g == IF t[1] = 0 THEN Zero ELSE Feedback[t[1]]
<1>1. s \in Word /\ t \in Word
  BY FedType
<1>2. s[1] = t[1]
  BY FedTellsValue
<1> HIDE DEF s, t
<1>3. /\ f \in Word /\ Fed(s, b)[5] = XorGroup[Shifted(s, b)[5]][f[5]]
      /\ g \in Word /\ Fed(t, a)[5] = XorGroup[Shifted(t, a)[5]][g[5]]
  BY <1>1, FedGroups
<1>4. f = g
  BY <1>2
<1>5. Shifted(s, b)[5] = s[6] /\ Shifted(t, a)[5] = t[6]
  BY <1>1, ShiftedType
<1> HIDE DEF f, g
<1>6. s[6] \in Five /\ t[6] \in Five /\ f[5] \in Five
  BY <1>1, <1>3 DEF Word
<1>7. Fed(s, b) = Fed(t, a)
  BY DEF s, t
<1>8. s[6] = t[6]
  BY <1>3, <1>4, <1>5, <1>6, <1>7, XorGroupCancels
<1> QED BY <1>8, FedTellsValue DEF s, t

\* Two loops that are in the same state before the values from k to m, and
\* after them.
Meet(v, w, k, m) ==
    \E c \in [0 .. Len(v) -> Word], d \in [0 .. Len(v) -> Word] :
       /\ c[k - 1] = d[k - 1] /\ c[m] = d[m]
       /\ \A j \in 1 .. Len(v) : c[j] = Fed(c[j - 1], v[j]) /\ d[j] = Fed(d[j - 1], w[j])

\* Two lists of values with one checksum: they do not differ in one value, or
\* in two neighbours that were swapped.
LEMMA PolymodTells ==
    ASSUME NEW v \in Seq(Five), NEW w \in Seq(Five), Len(v) = Len(w),
           NEW k \in 1 .. Len(v), NEW m \in k .. Len(v),
           \A j \in (1 .. Len(v)) \ (k .. m) : v[j] = w[j],
           bech32mPolymod(v) = bech32mPolymod(w)
    PROVE  Meet(v, w, k, m)
<1> DEFINE n == Len(v)
<1>1. n \in Nat /\ Len(w) = n /\ \A j \in 1 .. n : v[j] \in Five /\ w[j] \in Five
  OBVIOUS
<1>2. PICK c \in [0 .. n -> Word] : Checks(v, c) /\ bech32mPolymod(v) = c[n]
  BY PolymodLoop
<1>3. PICK d \in [0 .. n -> Word] : Checks(w, d) /\ bech32mPolymod(w) = d[n]
  BY <1>1, PolymodLoop
<1>4. /\ c[0] = Groups(1) /\ d[0] = Groups(1)
      /\ \A j \in 1 .. n : c[j] = Fed(c[j - 1], v[j]) /\ d[j] = Fed(d[j - 1], w[j])
  <2>1. /\ c[0] = Groups(1)
        /\ \A j \in 1 .. n : c[j] = Fed(c[j - 1], v[j])
    BY <1>2, ChecksStep
  <2>2. /\ d[0] = Groups(1)
        /\ \A j \in 1 .. n : d[j] = Fed(d[j - 1], w[j])
    <3>1. /\ d[0] = Groups(1)
          /\ \A j \in 1 .. Len(w) : d[j] = Fed(d[j - 1], w[j])
      BY <1>3, ChecksStep
    <3> QED BY <1>1, <3>1
  <2> QED BY <2>1, <2>2
<1>5. k \in 1 .. n /\ m \in k .. n
  OBVIOUS
<1> HIDE DEF n
<1>6. c[k - 1] = d[k - 1]
  <2> DEFINE W == {j \in 0 .. k - 1 : c[j] = d[j]}
  <2>1. 0 \in W
    BY <1>1, <1>4, <1>5
  <2>2. ASSUME NEW j \in 1 .. k - 1, j - 1 \in W PROVE j \in W
    <3>1. j \in (1 .. n) \ (k .. m) /\ j \in 0 .. k - 1
      BY <1>1, <1>5
    <3>2. v[j] = w[j]
      BY <3>1 DEF n
    <3>3. c[j] = Fed(c[j - 1], v[j]) /\ d[j] = Fed(d[j - 1], w[j])
      BY <1>4, <3>1
    <3> QED BY <2>2, <3>1, <3>2, <3>3
  <2>3. k - 1 \in Nat /\ \A j \in 1 .. k - 1 : j - 1 \in W => j \in W
    BY <1>1, <1>5, <2>2
  <2> HIDE DEF W
  <2>4. 0 .. k - 1 \subseteq W
    BY <2>1, <2>3, RangeInduction
  <2>5. k - 1 \in 0 .. k - 1
    BY <1>1, <1>5
  <2> QED BY <2>4, <2>5 DEF W
<1>7. c[m] = d[m]
  <2> DEFINE W == {j \in 0 .. n - m : c[n - j] = d[n - j]}
  <2>1. 0 \in W
    <3>1. n - 0 = n /\ 0 \in 0 .. n - m
      BY <1>1, <1>5
    <3>2. c[n] = d[n]
      BY <1>2, <1>3
    <3> QED BY <3>1, <3>2
  <2>2. ASSUME NEW j \in 1 .. n - m, j - 1 \in W PROVE j \in W
    <3> DEFINE i == n - (j - 1)
    <3>1. i \in (1 .. n) \ (k .. m) /\ i \in 1 .. n /\ i - 1 = n - j /\ j \in 0 .. n - m
            /\ i - 1 \in 0 .. n
      BY <1>1, <1>5
    <3>2. c[i] = d[i]
      BY <2>2
    <3> HIDE DEF i
    <3>3. v[i] = w[i] /\ v[i] \in Five
      BY <1>1, <3>1 DEF n
    <3>4. c[i] = Fed(c[i - 1], v[i]) /\ d[i] = Fed(d[i - 1], w[i])
      BY <1>4, <3>1
    <3>5. c[i - 1] \in Word /\ d[i - 1] \in Word
      BY <3>1
    <3>6. c[i - 1] = d[i - 1]
      BY <3>2, <3>3, <3>4, <3>5, FedTells
    <3> QED BY <3>1, <3>6
  <2>3. n - m \in Nat /\ \A j \in 1 .. n - m : j - 1 \in W => j \in W
    BY <1>1, <1>5, <2>2
  <2> HIDE DEF W
  <2>4. 0 .. n - m \subseteq W
    BY <2>1, <2>3, RangeInduction
  <2>5. n - m \in 0 .. n - m /\ n - (n - m) = m
    BY <1>1, <1>5
  <2> QED BY <2>4, <2>5 DEF W
<1> QED BY <1>4, <1>6, <1>7 DEF n, Meet

\* One value that is different makes the checksum different.
LEMMA OneValueTells ==
    ASSUME NEW v \in Seq(Five), NEW w \in Seq(Five), Len(v) = Len(w),
           NEW k \in 1 .. Len(v), \A j \in (1 .. Len(v)) \ {k} : v[j] = w[j],
           bech32mPolymod(v) = bech32mPolymod(w)
    PROVE  v = w
<1>1. Len(v) \in Nat /\ v[k] \in Five /\ w[k] \in Five
  OBVIOUS
<1>2. k .. k = {k} /\ k \in k .. Len(v)
  BY <1>1
<1>3. Meet(v, w, k, k)
  <2>1. \A j \in (1 .. Len(v)) \ (k .. k) : v[j] = w[j]
    BY <1>2
  <2> QED BY <1>2, <2>1, PolymodTells
<1>4. PICK c \in [0 .. Len(v) -> Word], d \in [0 .. Len(v) -> Word] :
           /\ c[k - 1] = d[k - 1] /\ c[k] = d[k]
           /\ c[k] = Fed(c[k - 1], v[k]) /\ d[k] = Fed(d[k - 1], w[k])
  BY <1>3 DEF Meet
<1>5. k - 1 \in 0 .. Len(v)
  BY <1>1
<1>6. c[k - 1] \in Word /\ Fed(c[k - 1], v[k]) = Fed(c[k - 1], w[k])
  BY <1>4, <1>5
<1>7. v[k] = w[k]
  BY <1>1, <1>6, FedTellsValue
<1>8. \A j \in 1 .. Len(v) : v[j] = w[j]
  BY <1>7
<1> QED BY <1>8, SameSeq

\* Two neighbours that are different and change places make it different.
LEMMA OrderTells ==
    ASSUME NEW v \in Seq(Five), NEW w \in Seq(Five), Len(v) = Len(w),
           NEW k \in 1 .. Len(v) - 1, \A j \in (1 .. Len(v)) \ {k, k + 1} : v[j] = w[j],
           w[k] = v[k + 1], w[k + 1] = v[k],
           bech32mPolymod(v) = bech32mPolymod(w)
    PROVE  v = w
<1>1. Len(v) \in Nat /\ k \in 1 .. Len(v) /\ k + 1 \in 1 .. Len(v)
  OBVIOUS
<1>2. v[k] \in Five /\ v[k + 1] \in Five /\ k .. k + 1 = {k, k + 1} /\ k + 1 \in k .. Len(v)
        /\ k + 1 - 1 = k
  BY <1>1
<1>3. Meet(v, w, k, k + 1)
  <2>1. \A j \in (1 .. Len(v)) \ (k .. k + 1) : v[j] = w[j]
    BY <1>2
  <2> QED BY <1>1, <1>2, <2>1, PolymodTells
<1>4. PICK c \in [0 .. Len(v) -> Word], d \in [0 .. Len(v) -> Word] :
           /\ c[k - 1] = d[k - 1] /\ c[k + 1] = d[k + 1]
           /\ c[k] = Fed(c[k - 1], v[k]) /\ d[k] = Fed(d[k - 1], w[k])
           /\ c[k + 1] = Fed(c[k], v[k + 1]) /\ d[k + 1] = Fed(d[k], w[k + 1])
  <2>1. PICK c \in [0 .. Len(v) -> Word], d \in [0 .. Len(v) -> Word] :
           /\ c[k - 1] = d[k - 1] /\ c[k + 1] = d[k + 1]
           /\ \A j \in 1 .. Len(v) :
                 c[j] = Fed(c[j - 1], v[j]) /\ d[j] = Fed(d[j - 1], w[j])
    BY <1>3 DEF Meet
  <2>2. c[k + 1] = Fed(c[k], v[k + 1]) /\ d[k + 1] = Fed(d[k], w[k + 1])
    BY <1>1, <1>2, <2>1
  <2> QED BY <1>1, <2>1, <2>2
<1>5. k - 1 \in 0 .. Len(v)
  BY <1>1
<1>6. c[k - 1] \in Word
  BY <1>5
<1>7. Fed(Fed(c[k - 1], v[k]), v[k + 1]) = Fed(Fed(c[k - 1], v[k + 1]), v[k])
  BY <1>4
<1>8. v[k] = v[k + 1]
  BY <1>2, <1>6, <1>7, FedTellsOrder
<1>9. \A j \in 1 .. Len(v) : v[j] = w[j]
  BY <1>8
<1> QED BY <1>9, SameSeq

\* The same, behind the human-readable part.
LEMMA WithPrefix ==
    ASSUME NEW e \in Seq(Five), NEW v \in Seq(Five)
    PROVE  /\ e \o v \in Seq(Five) /\ Len(e \o v) = Len(e) + Len(v)
           /\ \A j \in 1 .. Len(e) : (e \o v)[j] = e[j]
           /\ \A j \in 1 .. Len(v) : (e \o v)[Len(e) + j] = v[j]
<1> DEFINE V == e \o v
<1>1. /\ V \in Seq(Five) /\ Len(V) = Len(e) + Len(v)
      /\ \A i \in 1 .. Len(e) + Len(v) : V[i] = IF i <= Len(e) THEN e[i] ELSE v[i - Len(e)]
  BY ConcatProperties
<1> HIDE DEF V
<1>2. Len(e) \in Nat /\ Len(v) \in Nat
  OBVIOUS
<1> DEFINE m == Len(e)
           n == Len(v)
<1> HIDE DEF m, n
<1>3. ASSUME NEW j \in 1 .. m PROVE V[j] = e[j]
  <2>1. j \in 1 .. m + n /\ j <= m
    BY <1>2 DEF m, n
  <2> QED BY <1>1, <2>1 DEF m, n
<1>4. ASSUME NEW j \in 1 .. n PROVE V[m + j] = v[j]
  <2>1. m + j \in 1 .. m + n /\ ~(m + j <= m) /\ m + j - m = j
    BY <1>2 DEF m, n
  <2> QED BY <1>1, <2>1 DEF m, n
<1> QED BY <1>1, <1>3, <1>4 DEF m, n, V

\* The values of two texts are the same if their checksums are, and the values
\* differ in one place, or in two neighbours that are swapped.
LEMMA ValuesTell ==
    ASSUME NEW e \in Seq(Five), NEW v \in Seq(Five), NEW w \in Seq(Five),
           Len(v) = Len(w), NEW k \in 1 .. Len(v),
           bech32mPolymod(e \o v) = bech32mPolymod(e \o w),
           \/ \A j \in (1 .. Len(v)) \ {k} : v[j] = w[j]
           \/ /\ k + 1 \in 1 .. Len(v) /\ w[k] = v[k + 1] /\ w[k + 1] = v[k]
              /\ \A j \in (1 .. Len(v)) \ {k, k + 1} : v[j] = w[j]
    PROVE  v = w
<1> DEFINE V == e \o v
           W == e \o w
           m == Len(e)
           n == Len(v)
           l == m + k
<1>1. m \in Nat /\ n \in Nat /\ k \in 1 .. n
  OBVIOUS
<1>2. /\ V \in Seq(Five) /\ Len(V) = m + n
      /\ \A j \in 1 .. m : V[j] = e[j]
      /\ \A j \in 1 .. n : V[m + j] = v[j]
  BY WithPrefix, Zenon
<1>3. /\ W \in Seq(Five) /\ Len(W) = m + n
      /\ \A j \in 1 .. m : W[j] = e[j]
      /\ \A j \in 1 .. n : W[m + j] = w[j]
  <2>1. /\ W \in Seq(Five) /\ Len(W) = m + Len(w)
        /\ \A j \in 1 .. m : W[j] = e[j]
        /\ \A j \in 1 .. Len(w) : W[m + j] = w[j]
    BY WithPrefix, Zenon
  <2>2. Len(w) = n
    OBVIOUS
  <2> HIDE DEF W, m, n
  <2> QED BY <2>1, <2>2
<1>4. bech32mPolymod(V) = bech32mPolymod(W)
  OBVIOUS
<1> HIDE DEF V, W, m
<1>5. ASSUME NEW i \in 1 .. m + n
      PROVE  \/ V[i] = W[i]
             \/ i - m \in 1 .. n /\ i = m + (i - m) /\ V[i] = v[i - m] /\ W[i] = w[i - m]
  <2>1. CASE i <= m
    <3>1. i \in 1 .. m
      BY <1>1, <2>1
    <3> QED BY <1>2, <1>3, <3>1
  <2>2. CASE ~(i <= m)
    <3>1. i - m \in 1 .. n /\ i = m + (i - m)
      BY <1>1, <2>2
    <3> QED BY <1>2, <1>3, <3>1
  <2> QED BY <2>1, <2>2
<1>6. V = W
  <2>1. CASE \A j \in (1 .. n) \ {k} : v[j] = w[j]
    <3>1. l \in 1 .. Len(V)
      BY <1>1, <1>2
    <3>2. ASSUME NEW i \in (1 .. Len(V)) \ {l} PROVE V[i] = W[i]
      <4>1. i \in 1 .. m + n /\ i - m # k
        BY <1>1, <1>2
      <4> QED BY <1>5, <2>1, <4>1
    <3> HIDE DEF l
    <3> QED BY <1>2, <1>3, <1>4, <3>1, <3>2, OneValueTells
  <2>2. CASE /\ k + 1 \in 1 .. n /\ w[k] = v[k + 1] /\ w[k + 1] = v[k]
             /\ \A j \in (1 .. n) \ {k, k + 1} : v[j] = w[j]
    <3>1. l \in 1 .. Len(V) - 1 /\ l + 1 = m + (k + 1)
      BY <1>1, <1>2, <2>2
    <3>2. ASSUME NEW i \in (1 .. Len(V)) \ {l, l + 1} PROVE V[i] = W[i]
      <4>1. i \in 1 .. m + n /\ i - m # k /\ i - m # k + 1
        <5>1. i \in 1 .. m + n /\ i # m + k /\ i # m + (k + 1)
          BY <1>2, <3>1
        <5> HIDE DEF l, n
        <5> QED BY <1>1, <5>1
      <4> QED BY <1>5, <2>2, <4>1
    <3>3. W[l] = V[l + 1] /\ W[l + 1] = V[l]
      BY <1>1, <1>2, <1>3, <2>2, <3>1
    <3> HIDE DEF l
    <3> QED BY <1>2, <1>3, <1>4, <3>1, <3>2, <3>3, OrderTells
  <2> QED BY <2>1, <2>2
<1>7. \A j \in 1 .. n : v[j] = w[j]
  BY <1>2, <1>3, <1>6
<1> QED BY <1>7, SameSeq

=============================================================================
