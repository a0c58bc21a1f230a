-------------------------- MODULE EscrowScriptProofs --------------------------
(***************************************************************************)
(* Theorems about the scripts: for every leaf, witness, sequence and age,  *)
(* and for every timeout that fits a locktime, an output is spent only by  *)
(* those whom the leaf names, and every leaf is read back as it was made.  *)
(*                                                                         *)
(* The argument follows the node.  Below the items that a leaf has pushed, *)
(* the stack is the witness (Below), so whatever a CHECKSIG or a SHA256    *)
(* takes off is an item of the witness.  What is known at each opcode      *)
(* (Progress) is kept by the step of that opcode, and says at the end of   *)
(* the leaf who has signed.                                                *)
(*                                                                         *)
(* Relative locktimes come first: a number of blocks below Mask is kept by *)
(* what the code encodes and by what the node makes of it, and is read     *)
(* back unless it is mistaken for an opcode.                               *)
(***************************************************************************)
EXTENDS EscrowScript, SequenceTheorems, TLAPS

\* A number below the modulus is its own remainder.
LEMMA SmallModulus ==
    ASSUME NEW n \in Nat, NEW m \in Nat, n < m
    PROVE  n % m = n /\ n \div m = 0
<1>1. m > 0
  OBVIOUS
<1>2. /\ n = m * (n \div m) + (n % m)
      /\ n % m \in 0 .. m - 1 /\ n \div m \in Nat
  BY <1>1
<1>3. n \div m = 0
  <2>1. SUFFICES ASSUME n \div m >= 1 PROVE FALSE
    BY <1>2
  <2>2. m * (n \div m) >= m
    BY <1>2, <2>1
  <2> QED  BY <1>2, <2>2
<1> QED  BY <1>2, <1>3

\* Below Mask no flag is set, and nothing is cut off.
LEMMA BlocksHaveNoFlag ==
    ASSUME NEW n \in Nat, n < Mask
    PROVE  /\ n % Word = n /\ n % Mask = n
           /\ ~Bit(n, TypeFlag) /\ ~Bit(n, DisableFlag)
<1>1. /\ {Mask, TypeFlag, DisableFlag, Word} \subseteq Nat
      /\ n < TypeFlag /\ n < DisableFlag /\ n < Word
  BY LocktimeAssumption
<1>2. n % Word = n /\ n % Mask = n
  BY <1>1, SmallModulus
<1>3. n \div TypeFlag = 0 /\ n \div DisableFlag = 0
  BY <1>1, SmallModulus
<1> QED  BY <1>2, <1>3 DEF Bit

\* A leaf that demands n blocks is not spent before the output has n
\* confirmations, whatever the sequence of the input.
THEOREM NotEarly ==
    ASSUME NEW n \in Nat, n < Mask, NEW sequence \in Nat, NEW confirmed \in Nat,
           CheckSequence(n, sequence), Mature(sequence, confirmed)
    PROVE  confirmed >= n
<1>1. /\ n % Mask = n /\ ~Bit(n, TypeFlag) /\ ~Bit(n, DisableFlag)
      /\ Mask \in Nat /\ Mask > 0
  BY BlocksHaveNoFlag, LocktimeAssumption
<1>2. ~Bit(sequence, DisableFlag) /\ ~Bit(sequence, TypeFlag) /\ n <= sequence % Mask
  BY <1>1 DEF CheckSequence, Bit
<1>3. confirmed >= sequence % Mask
  BY <1>2 DEF Mature
<1> QED  BY <1>1, <1>2, <1>3

\* With the sequence that the code chooses it is spent from then on.
THEOREM NotLate ==
    ASSUME NEW n \in Nat, n < Mask, NEW confirmed \in Nat, confirmed >= n
    PROVE  CheckSequence(n, n) /\ Mature(n, confirmed)
<1>1. n % Mask = n /\ ~Bit(n, TypeFlag) /\ ~Bit(n, DisableFlag)
  BY BlocksHaveNoFlag
<1> QED  BY <1>1 DEF CheckSequence, Mature

\* A number of blocks that the push keeps apart from opcodes is read back as
\* it was.
THEOREM BlocksDecode ==
    ASSUME NEW n \in Nat, n < Mask, n # 0, n \notin 81 .. 96
    PROVE  CanDecode(PushOf(n)) /\ BIP68DecodeSequence(PushOf(n)) = BlockLocktime(n)
<1>1. ~Bit(n, TypeFlag) /\ ~Bit(n, DisableFlag)
  BY BlocksHaveNoFlag
<1>2. SmallIntOf(ScriptNumber(PushOf(n))) = n
  <2>1. CASE n <= 16
    <3>1. ScriptNumber(PushOf(n)) = n + 80
      BY <2>1 DEF PushOf, ScriptNumber
    <3>2. n + 80 \in 81 .. 96 /\ n + 80 - 80 = n
      BY <2>1
    <3> QED  BY <3>1, <3>2 DEF SmallIntOf
  <2>2. CASE n > 16
    BY <2>2 DEF PushOf, ScriptNumber, SmallIntOf
  <2> QED  BY <2>1, <2>2
<1>3. PushOf(n) # <<"SMALLINT", 0>>
  BY DEF PushOf
<1> QED  BY <1>1, <1>2, <1>3 DEF CanDecode, BIP68DecodeSequence, BlockLocktime

\* A number of blocks that is the byte of an opcode is read as 80 blocks less.
THEOREM OpcodesAreMistaken ==
    ASSUME NEW n \in 81 .. 96, n < Mask
    PROVE  BIP68DecodeSequence(PushOf(n)) = BlockLocktime(n - 80)
<1>1. n - 80 \in Nat /\ n - 80 < Mask /\ n > 16 /\ Mask \in Nat
  BY LocktimeAssumption
<1>2. ~Bit(n - 80, TypeFlag)
  BY <1>1, BlocksHaveNoFlag
<1>3. SmallIntOf(ScriptNumber(PushOf(n))) = n - 80
  BY <1>1 DEF PushOf, ScriptNumber, SmallIntOf
<1> QED  BY <1>2, <1>3 DEF BIP68DecodeSequence, BlockLocktime

(***************************************************************************)
(* The stack of the node.                                                  *)
(***************************************************************************)
Items(s) == {s[i] : i \in 1 .. Len(s)}

\* A sequence is a sequence of its items.
LEMMA SequenceOfItems ==
    ASSUME NEW s, IsSequence(s)
    PROVE  s \in Seq(Items(s))
<1>1. s \in [1 .. Len(s) -> Items(s)]
  BY DEF Items, IsSequence
<1> QED  BY <1>1, SeqDef DEF IsSequence

\* What the library calls a sequence is one here.
LEMMA IsSequenceOf ==
    ASSUME NEW S, NEW s \in Seq(S)
    PROVE  IsSequence(s)
BY LenProperties DEF IsSequence

\* Short tuples are sequences.
LEMMA PairIsSequence ==
    ASSUME NEW a, NEW b
    PROVE  IsSequence(<<a, b>>) /\ IsSequence(<<a>>) /\ IsSequence(<<>>)
BY DEF IsSequence

\* A function over 1 .. n is a sequence of length n.
LEMMA FunctionIsSequence ==
    ASSUME NEW n \in Nat, NEW f, f = [i \in 1 .. n |-> f[i]]
    PROVE  IsSequence(f) /\ Len(f) = n
<1>1. f \in [1 .. n -> {f[i] : i \in 1 .. n}]
  OBVIOUS
<1>2. f \in Seq({f[i] : i \in 1 .. n})
  BY <1>1, SeqDef
<1> QED  BY <1>1, <1>2, LenProperties DEF IsSequence

\* Append adds an item at the end and keeps the others.
LEMMA AppendItems ==
    ASSUME NEW s, IsSequence(s), NEW x
    PROVE  /\ IsSequence(Append(s, x))
           /\ Len(Append(s, x)) = Len(s) + 1
           /\ \A i \in 1 .. Len(s) : Append(s, x)[i] = s[i]
           /\ Append(s, x)[Len(s) + 1] = x
<1> DEFINE S == Items(s) \cup {x}
<1>1. s \in Seq(S)
  BY SequenceOfItems, SeqMonotonic
<1> HIDE DEF S
<1>2. x \in S
  BY DEF S
<1>3. /\ Append(s, x) \in Seq(S)
      /\ Len(Append(s, x)) = Len(s) + 1
      /\ \A i \in 1 .. Len(s) : Append(s, x)[i] = s[i]
      /\ Append(s, x)[Len(s) + 1] = x
  BY <1>1, <1>2, AppendProperties
<1> QED  BY <1>3, IsSequenceOf

\* A sequence cut after n items has those items.
LEMMA FirstItems ==
    ASSUME NEW s, IsSequence(s), NEW n \in 0 .. Len(s)
    PROVE  /\ IsSequence(SubSeq(s, 1, n))
           /\ Len(SubSeq(s, 1, n)) = n
           /\ \A i \in 1 .. n : SubSeq(s, 1, n)[i] = s[i]
<1> DEFINE t == SubSeq(s, 1, n)
<1>1. n \in Nat /\ \A i \in 1 .. n : s[i] \in Items(s)
  BY DEF Items, IsSequence
<1>2. /\ t \in Seq(Items(s))
      /\ Len(t) = IF 1 <= n THEN n - 1 + 1 ELSE 0
      /\ \A i \in 1 .. n - 1 + 1 : t[i] = s[1 + i - 1]
  BY <1>1, SubSeqProperties
<1> HIDE DEF t
<1>3. Len(t) = n
  BY <1>1, <1>2
<1>4. \A i \in 1 .. n : t[i] = s[i]
  BY <1>1, <1>2
<1>5. IsSequence(t)
  BY <1>2, IsSequenceOf
<1> QED  BY <1>3, <1>4, <1>5 DEF t
-----------------------------------------------------------------------------
(* What a step does to the stack. *)

\* A push leaves the items below where they were.
LEMMA PushKeeps ==
    ASSUME NEW k \in Nat, Below(k), NEW x,
           stack' = Append(stack, x), spend' = spend
    PROVE  /\ Below(k + 1)'
           /\ Top(1)' = x
           /\ Len(stack) >= 1 => Top(2)' = Top(1)
<1>1. /\ IsSequence(stack')
      /\ Len(stack') = Len(stack) + 1
      /\ \A i \in 1 .. Len(stack) : stack'[i] = stack[i]
      /\ stack'[Len(stack) + 1] = x
  BY AppendItems DEF Below
<1>2. Len(stack) \in Nat
  BY DEF Below, IsSequence
<1>3. Below(k + 1)'
  BY <1>1, <1>2 DEF Below
<1>4. Top(1)' = x /\ (Len(stack) >= 1 => Top(2)' = Top(1))
  BY <1>1, <1>2 DEF Top
<1> QED  BY <1>3, <1>4

\* What is left when everything above the witness is taken off, or more, is a
\* beginning of the witness.
LEMMA WithoutItems ==
    ASSUME NEW k \in Nat, Below(k), NEW n \in Nat, k <= n, n <= Len(stack)
    PROVE  /\ IsSequence(Without(n))
           /\ Len(Without(n)) = Len(stack) - n
           /\ Len(Without(n)) <= Len(spend.witness)
           /\ \A i \in 1 .. Len(stack) - n : Without(n)[i] = spend.witness[i]
<1>1. Len(stack) \in Nat /\ Len(stack) - n \in 0 .. Len(stack)
  BY DEF Below, IsSequence
<1>2. /\ IsSequence(Without(n))
      /\ Len(Without(n)) = Len(stack) - n
      /\ \A i \in 1 .. Len(stack) - n : Without(n)[i] = stack[i]
  BY <1>1, FirstItems DEF Below, Without
<1> QED  BY <1>1, <1>2 DEF Below

\* So it is when an opcode takes items off.
LEMMA DropKeeps ==
    ASSUME NEW k \in Nat, Below(k), NEW n \in Nat, k <= n, n <= Len(stack),
           stack' = Without(n), spend' = spend
    PROVE  Below(0)'
<1>1. /\ IsSequence(stack')
      /\ Len(stack') = Len(stack) - n
      /\ Len(stack') <= Len(spend'.witness)
      /\ \A i \in 1 .. Len(stack) - n : stack'[i] = spend'.witness[i]
  BY WithoutItems
<1>2. Len(stack') \in Nat /\ Len(stack') - 0 = Len(stack')
  BY <1>1 DEF IsSequence
<1> QED  BY <1>1, <1>2 DEF Below

\* So it is when an opcode takes items off and leaves its answer.
LEMMA ReplaceKeeps ==
    ASSUME NEW k \in Nat, Below(k), NEW n \in Nat, k <= n, n <= Len(stack),
           NEW x, stack' = Append(Without(n), x), spend' = spend
    PROVE  Below(1)' /\ Top(1)' = x
<1> DEFINE s == Without(n)
<1>1. /\ IsSequence(s)
      /\ Len(s) = Len(stack) - n
      /\ Len(s) <= Len(spend.witness)
      /\ \A i \in 1 .. Len(stack) - n : s[i] = spend.witness[i]
  BY WithoutItems
<1> HIDE DEF s
<1>2. Len(s) \in Nat
  BY <1>1 DEF IsSequence
<1>3. /\ IsSequence(stack')
      /\ Len(stack') = Len(s) + 1
      /\ \A i \in 1 .. Len(s) : stack'[i] = s[i]
      /\ stack'[Len(s) + 1] = x
  BY <1>1, AppendItems DEF s
<1>4. /\ 1 <= Len(stack') /\ Len(stack') - 1 <= Len(spend'.witness)
      /\ \A i \in 1 .. Len(stack') - 1 : stack'[i] = spend'.witness[i]
  BY <1>1, <1>2, <1>3
<1>5. Top(1)' = x
  BY <1>2, <1>3 DEF Top
<1> QED  BY <1>3, <1>4, <1>5 DEF Below

\* A signature below the top is one of the witness.
LEMMA BelowSigned ==
    ASSUME NEW k \in Nat, Below(k), NEW n \in Nat, k < n, n <= Len(stack),
           IsSequence(spend.witness), NEW p, Top(n) = Sig(p)
    PROVE  Signed(p)
<1> DEFINE j == Len(stack) + 1 - n
<1>1. Len(stack) \in Nat /\ j \in 1 .. Len(stack) - k
  BY DEF Below, IsSequence
<1>2. spend.witness[j] = Sig(p) /\ j \in 1 .. Len(spend.witness)
  BY <1>1 DEF Below, Top, IsSequence
<1>3. DOMAIN spend.witness = 1 .. Len(spend.witness)
  BY DEF IsSequence
<1> QED  BY <1>2, <1>3 DEF Signed
-----------------------------------------------------------------------------
(* The opcodes of a leaf. *)

\* The items of s \o t are those of s and then those of t.
LEMMA ConcatItems ==
    ASSUME NEW s, NEW t, IsSequence(s), IsSequence(t)
    PROVE  /\ IsSequence(s \o t)
           /\ Len(s \o t) = Len(s) + Len(t)
           /\ \A i \in 1 .. Len(s) : (s \o t)[i] = s[i]
           /\ \A i \in 1 .. Len(t) : (s \o t)[Len(s) + i] = t[i]
<1> DEFINE S == Items(s) \cup Items(t)
<1>1. s \in Seq(S) /\ t \in Seq(S)
  BY SequenceOfItems, SeqMonotonic
<1> HIDE DEF S
<1>2. /\ s \o t \in Seq(S)
      /\ Len(s \o t) = Len(s) + Len(t)
      /\ \A i \in 1 .. Len(s) + Len(t) : (s \o t)[i] =
                     IF i <= Len(s) THEN s[i] ELSE t[i - Len(s)]
  BY <1>1, ConcatProperties
<1>3. Len(s) \in Nat /\ Len(t) \in Nat
  BY DEF IsSequence
<1>4. \A i \in 1 .. Len(s) : (s \o t)[i] = s[i]
  BY <1>2, <1>3
<1>5. \A i \in 1 .. Len(t) : (s \o t)[Len(s) + i] = t[i]
  BY <1>2, <1>3
<1> QED  BY <1>2, <1>4, <1>5, IsSequenceOf

\* Keys at odd places, their opcodes at even ones.
LEMMA WithKeysItems ==
    ASSUME NEW ks, IsSequence(ks), NEW ops
    PROVE  LET s == WithKeys(ks, ops)
           IN  /\ IsSequence(s)
               /\ Len(s) = 2 * Len(ks)
               /\ \A n \in 0 .. Len(ks) - 1 : /\ s[2 * n + 1] = Push(Key(ks[n + 1]))
                                             /\ s[2 * n + 2] = <<ops[n + 1]>>
<1> DEFINE s == WithKeys(ks, ops)
<1>1. Len(ks) \in Nat
  BY DEF IsSequence
<1>2. IsSequence(s) /\ Len(s) = 2 * Len(ks)
  <2>1. s = [i \in 1 .. 2 * Len(ks) |-> s[i]]
    BY DEF WithKeys
  <2> QED  BY <1>1, <2>1, FunctionIsSequence
<1>3. ASSUME NEW n \in 0 .. Len(ks) - 1
      PROVE  s[2 * n + 1] = Push(Key(ks[n + 1])) /\ s[2 * n + 2] = <<ops[n + 1]>>
  <2>1. /\ 2 * n + 1 \in 1 .. 2 * Len(ks)
        /\ (2 * n + 1) % 2 = 1 /\ ((2 * n + 1) + 1) \div 2 = n + 1
    BY <1>1
  <2>2. /\ 2 * n + 2 \in 1 .. 2 * Len(ks)
        /\ (2 * n + 2) % 2 # 1 /\ (2 * n + 2) \div 2 = n + 1
    BY <1>1
  <2>3. s[2 * n + 1] = Push(Key(ks[n + 1]))
    BY <2>1 DEF WithKeys
  <2>4. s[2 * n + 2] = <<ops[n + 1]>>
    BY <2>2 DEF WithKeys
  <2> QED  BY <2>3, <2>4
<1> QED  BY <1>2, <1>3

\* A leaf of the first form: every key with CHECKSIGVERIFY, the last with CHECKSIG.
LEMMA ChecksigItems ==
    ASSUME NEW ks, IsSequence(ks)
    PROVE  LET s == ChecksigScript(ks)
           IN  /\ IsSequence(s)
               /\ Len(s) = 2 * Len(ks)
               /\ \A n \in 0 .. Len(ks) - 1 :
                     /\ s[2 * n + 1] = Push(Key(ks[n + 1]))
                     /\ s[2 * n + 2] = << IF n + 1 = Len(ks) THEN "CHECKSIG"
                                                        ELSE "CHECKSIGVERIFY" >>
<1> DEFINE ops == [i \in 1 .. Len(ks) |->
                    IF i = Len(ks) THEN "CHECKSIG" ELSE "CHECKSIGVERIFY"]
           s == WithKeys(ks, ops)
<1>1. Len(ks) \in Nat
  BY DEF IsSequence
<1>2. \A n \in 0 .. Len(ks) - 1 :
         ops[n + 1] = IF n + 1 = Len(ks) THEN "CHECKSIG" ELSE "CHECKSIGVERIFY"
  BY <1>1
<1> HIDE DEF ops
<1>3. /\ IsSequence(s)
      /\ Len(s) = 2 * Len(ks)
      /\ \A n \in 0 .. Len(ks) - 1 : /\ s[2 * n + 1] = Push(Key(ks[n + 1]))
                                    /\ s[2 * n + 2] = <<ops[n + 1]>>
  BY WithKeysItems
<1>4. ChecksigScript(ks) = s
  BY DEF ChecksigScript, ops
<1> HIDE DEF s
<1> QED  BY <1>2, <1>3, <1>4

\* A leaf of the second form: CHECKSIG, then CHECKSIGADD, then the number of keys.
LEMMA ChecksigAddItems ==
    ASSUME NEW ks, IsSequence(ks)
    PROVE  LET s == ChecksigAddScript(ks)
           IN  /\ IsSequence(s)
               /\ Len(s) = 2 * Len(ks) + 2
               /\ \A n \in 0 .. Len(ks) - 1 :
                     /\ s[2 * n + 1] = Push(Key(ks[n + 1]))
                     /\ s[2 * n + 2] = << IF n = 0 THEN "CHECKSIG" ELSE "CHECKSIGADD" >>
               /\ s[2 * Len(ks) + 1] = PushOf(Len(ks))
               /\ s[2 * Len(ks) + 2] = <<"NUMEQUAL">>
<1> DEFINE ops == [i \in 1 .. Len(ks) |-> IF i = 1 THEN "CHECKSIG" ELSE "CHECKSIGADD"]
           s == WithKeys(ks, ops)
           t == << PushOf(Len(ks)), <<"NUMEQUAL">> >>
<1>1. Len(ks) \in Nat
  BY DEF IsSequence
<1>2. \A n \in 0 .. Len(ks) - 1 :
         ops[n + 1] = IF n = 0 THEN "CHECKSIG" ELSE "CHECKSIGADD"
  BY <1>1
<1>3. IsSequence(t) /\ Len(t) = 2 /\ t[1] = PushOf(Len(ks)) /\ t[2] = <<"NUMEQUAL">>
  BY PairIsSequence
<1> HIDE DEF ops
<1>4. /\ IsSequence(s)
      /\ Len(s) = 2 * Len(ks)
      /\ \A n \in 0 .. Len(ks) - 1 : /\ s[2 * n + 1] = Push(Key(ks[n + 1]))
                                    /\ s[2 * n + 2] = <<ops[n + 1]>>
  BY WithKeysItems
<1>5. ChecksigAddScript(ks) = s \o t
  BY DEF ChecksigAddScript, ops
<1> HIDE DEF s, t
<1>6. /\ IsSequence(s \o t)
      /\ Len(s \o t) = 2 * Len(ks) + 2
      /\ \A i \in 1 .. 2 * Len(ks) : (s \o t)[i] = s[i]
      /\ \A i \in 1 .. 2 : (s \o t)[2 * Len(ks) + i] = t[i]
  <2>1. /\ IsSequence(s \o t)
        /\ Len(s \o t) = Len(s) + Len(t)
        /\ \A i \in 1 .. Len(s) : (s \o t)[i] = s[i]
        /\ \A i \in 1 .. Len(t) : (s \o t)[Len(s) + i] = t[i]
    <3>1. IsSequence(s) /\ IsSequence(t)
      BY <1>3, <1>4
    <3> QED  BY <3>1, ConcatItems
  <2> QED  BY <1>3, <1>4, <2>1
<1> DEFINE u == s \o t
<1> HIDE DEF u
<1>7. ASSUME NEW n \in 0 .. Len(ks) - 1
      PROVE  u[2 * n + 1] = s[2 * n + 1] /\ u[2 * n + 2] = s[2 * n + 2]
  <2>1. 2 * n + 1 \in 1 .. 2 * Len(ks) /\ 2 * n + 2 \in 1 .. 2 * Len(ks)
    BY <1>1
  <2> QED  BY <1>6, <2>1 DEF u
<1>8. /\ u[2 * Len(ks) + 1] = PushOf(Len(ks))
      /\ u[2 * Len(ks) + 2] = <<"NUMEQUAL">>
  <2>1. 1 \in 1 .. 2 /\ 2 \in 1 .. 2
    OBVIOUS
  <2> QED  BY <1>3, <1>6, <2>1 DEF u
<1> QED  BY <1>2, <1>4, <1>5, <1>6, <1>7, <1>8 DEF u

\* What the closures of this code have in common.
IsClosure(c) ==
    /\ c.kind \in {"multisig", "csv", "condition"}
    /\ c.kind = "condition" => c.condition = HashIs(Data("secret"))
    /\ c.multisig.type \in {"checksig", "checksigadd"}
    /\ IsSequence(c.multisig.keys) /\ Len(c.multisig.keys) >= 1

\* How long a multisig is in each of its two forms.
LEMMA MultisigItems ==
    ASSUME NEW m, IsSequence(m.keys)
    PROVE  /\ IsSequence(MultisigScript(m))
           /\ Len(MultisigScript(m)) = IF m.type = "checksig"
                                       THEN 2 * Len(m.keys) ELSE 2 * Len(m.keys) + 2
BY ChecksigItems, ChecksigAddItems DEF MultisigScript

\* A leaf is what its closure puts ahead, followed by the multisig.
LEMMA LeafItems ==
    ASSUME NEW c, IsClosure(c)
    PROVE  LET s == Script(c)
               m == MultisigScript(c.multisig)
           IN  /\ IsSequence(s)
               /\ Len(s) = Ahead(c) + Len(m)
               /\ \A q \in 1 .. Len(m) : s[Ahead(c) + q] = m[q]
               /\ c.kind = "csv" => /\ s[1] = PushOf(LockTimeToSequence(c.locktime))
                                    /\ s[2] = <<"CSV">>
                                    /\ s[3] = <<"DROP">>
               /\ c.kind = "condition" => /\ s[1] = <<"SHA256">>
                                          /\ s[2] = Push(Sha256(Data("secret")))
                                          /\ s[3] = <<"EQUAL">>
                                          /\ s[4] = <<"VERIFY">>
<1> DEFINE m == MultisigScript(c.multisig)
<1>1. IsSequence(m) /\ Len(m) \in Nat
  BY MultisigItems DEF IsClosure, IsSequence
<1> HIDE DEF m
<1>2. CASE c.kind = "multisig"
  <2> DEFINE g == << >>
  <2>1. IsSequence(g) /\ Len(g) = 0
    BY PairIsSequence
  <2>2. Script(c) = g \o m
    BY <1>2 DEF Script, m
  <2> HIDE DEF g
  <2> QED  BY <1>1, <1>2, <2>1, <2>2, ConcatItems DEF Ahead, m
<1>3. CASE c.kind = "csv"
  <2> DEFINE g == << PushOf(LockTimeToSequence(c.locktime)), <<"CSV">>, <<"DROP">> >>
  <2>1. /\ IsSequence(g) /\ Len(g) = 3
        /\ g[1] = PushOf(LockTimeToSequence(c.locktime))
        /\ g[2] = <<"CSV">> /\ g[3] = <<"DROP">>
    BY DEF IsSequence
  <2>2. Script(c) = g \o m
    BY <1>3 DEF Script, m
  <2> HIDE DEF g
  <2>3. /\ IsSequence(g \o m)
        /\ Len(g \o m) = 3 + Len(m)
        /\ \A i \in 1 .. 3 : (g \o m)[i] = g[i]
        /\ \A i \in 1 .. Len(m) : (g \o m)[3 + i] = m[i]
    <3>1. /\ IsSequence(g \o m)
          /\ Len(g \o m) = Len(g) + Len(m)
          /\ \A i \in 1 .. Len(g) : (g \o m)[i] = g[i]
          /\ \A i \in 1 .. Len(m) : (g \o m)[Len(g) + i] = m[i]
      <4>1. IsSequence(g)
        BY <2>1
      <4> QED  BY <1>1, <4>1, ConcatItems
    <3>2. Len(g) = 3
      BY <2>1
    <3> QED  BY <3>1, <3>2
  <2>4. 1 \in 1 .. 3 /\ 2 \in 1 .. 3 /\ 3 \in 1 .. 3
    OBVIOUS
  <2> QED  BY <1>3, <2>1, <2>2, <2>3, <2>4 DEF Ahead, m
<1>4. CASE c.kind = "condition"
  <2> DEFINE h == HashIs(Data("secret"))
             g == Append(h, <<"VERIFY">>)
  <2>1. /\ IsSequence(h) /\ Len(h) = 3
        /\ h[1] = <<"SHA256">> /\ h[2] = Push(Sha256(Data("secret")))
        /\ h[3] = <<"EQUAL">>
    BY DEF IsSequence, HashIs
  <2>2. Script(c) = g \o m
    BY <1>4 DEF Script, IsClosure, m
  <2> HIDE DEF h
  <2>3. /\ IsSequence(g) /\ Len(g) = 4
        /\ g[1] = <<"SHA256">> /\ g[2] = Push(Sha256(Data("secret")))
        /\ g[3] = <<"EQUAL">> /\ g[4] = <<"VERIFY">>
    <3>1. /\ IsSequence(g) /\ Len(g) = 4
          /\ \A i \in 1 .. 3 : g[i] = h[i]
          /\ g[4] = <<"VERIFY">>
      <4>1. IsSequence(h)
        BY <2>1
      <4>2. /\ IsSequence(g) /\ Len(g) = Len(h) + 1
            /\ \A i \in 1 .. Len(h) : g[i] = h[i]
            /\ g[Len(h) + 1] = <<"VERIFY">>
        BY <4>1, AppendItems
      <4>3. Len(h) = 3 /\ Len(h) + 1 = 4
        BY <2>1
      <4> HIDE DEF g
      <4> QED  BY <4>2, <4>3
    <3>2. 1 \in 1 .. 3 /\ 2 \in 1 .. 3 /\ 3 \in 1 .. 3
      OBVIOUS
    <3> QED  BY <2>1, <3>1, <3>2
  <2> HIDE DEF g
  <2>4. /\ IsSequence(g \o m)
        /\ Len(g \o m) = 4 + Len(m)
        /\ \A i \in 1 .. 4 : (g \o m)[i] = g[i]
        /\ \A i \in 1 .. Len(m) : (g \o m)[4 + i] = m[i]
    <3>1. /\ IsSequence(g \o m)
          /\ Len(g \o m) = Len(g) + Len(m)
          /\ \A i \in 1 .. Len(g) : (g \o m)[i] = g[i]
          /\ \A i \in 1 .. Len(m) : (g \o m)[Len(g) + i] = m[i]
      <4>1. IsSequence(g)
        BY <2>3
      <4> QED  BY <1>1, <4>1, ConcatItems
    <3>2. Len(g) = 4
      BY <2>3
    <3> QED  BY <3>1, <3>2
  <2>5. 1 \in 1 .. 4 /\ 2 \in 1 .. 4 /\ 3 \in 1 .. 4 /\ 4 \in 1 .. 4
    OBVIOUS
  <2> QED  BY <1>4, <2>2, <2>3, <2>4, <2>5 DEF Ahead, m
<1> QED  BY <1>2, <1>3, <1>4 DEF IsClosure
-----------------------------------------------------------------------------
(* What each opcode does to what is known of the stack. *)

Step(op) == /\ Executes(op)
            /\ stack' = After(op)
            /\ ip' = ip + 1
            /\ spend' = spend

\* A push of data.
LEMMA PushStep ==
    ASSUME NEW k \in Nat, Below(k), NEW x, Step(Push(x))
    PROVE  /\ Below(k + 1)'
           /\ Top(1)' = x
           /\ k >= 1 => Top(2)' = Top(1)
<1>1. stack' = Append(stack, x) /\ spend' = spend
  BY DEF Step, After, Push
<1>2. k >= 1 => Len(stack) >= 1
  BY DEF Below, IsSequence
<1> QED  BY <1>1, <1>2, PushKeeps

\* A push of a number, as an opcode or as data.
LEMMA NumberStep ==
    ASSUME NEW k \in Nat, Below(k), NEW n, Step(PushOf(n))
    PROVE  /\ Below(k + 1)'
           /\ Top(1)' = Number(n)
           /\ k >= 1 => Top(2)' = Top(1)
<1>1. stack' = Append(stack, Number(n)) /\ spend' = spend
  BY DEF Step, After, PushOf
<1>2. k >= 1 => Len(stack) >= 1
  BY DEF Below, IsSequence
<1> QED  BY <1>1, <1>2, PushKeeps

\* SHA256 leaves the hash of an item that was in the witness.
LEMMA HashStep ==
    ASSUME Below(0), Step(<<"SHA256">>), IsSequence(spend.witness)
    PROVE  Below(1)' /\ IsHash(Top(1))'
<1>1. /\ stack' = Append(Without(1), Sha256(Top(1)))
      /\ spend' = spend
      /\ 1 <= Len(stack)
  BY DEF Step, After, Executes, Operands
<1>2. Below(1)' /\ Top(1)' = Sha256(Top(1))
  BY <1>1, ReplaceKeeps
<1>3. Len(stack) \in DOMAIN spend.witness /\ Top(1) = spend.witness[Len(stack)]
  BY <1>1 DEF Below, Top, IsSequence
<1> QED  BY <1>1, <1>2, <1>3 DEF IsHash

\* EQUAL and NUMEQUAL leave something true only if the two items are the same.
LEMMA EqualStep ==
    ASSUME Below(2), NEW name \in {"EQUAL", "NUMEQUAL"}, Step(<<name>>)
    PROVE  Below(1)' /\ (Top(1)' # Empty => Top(1) = Top(2))
<1>1. /\ stack' = Append(Without(2), Truth(Top(1) = Top(2)))
      /\ spend' = spend
      /\ 2 <= Len(stack)
  BY DEF Step, After, Executes, Operands
<1>2. Below(1)' /\ Top(1)' = Truth(Top(1) = Top(2))
  BY <1>1, ReplaceKeeps
<1> QED  BY <1>2 DEF Truth

\* VERIFY goes on only with something true.
LEMMA VerifyStep ==
    ASSUME Below(1), Step(<<"VERIFY">>)
    PROVE  Below(0)' /\ Top(1) # Empty
<1>1. stack' = Without(1) /\ spend' = spend /\ 1 <= Len(stack) /\ Top(1) # Empty
  BY DEF Step, After, Executes, Operands, Succeeds
<1> QED  BY <1>1, DropKeeps

\* CSV goes on only if the input's sequence is as high as the number.
LEMMA SequenceStep ==
    ASSUME Below(1), NEW n, Top(1) = Number(n), Step(<<"CSV">>)
    PROVE  Below(1)' /\ CheckSequence(n, spend.sequence)
<1>1. stack' = stack /\ spend' = spend
  BY DEF Step, After
<1>2. CheckSequence(n, spend.sequence)
  BY DEF Step, Executes, Succeeds, Number
<1> QED  BY <1>1, <1>2 DEF Below

\* DROP takes the number off.
LEMMA DropStep ==
    ASSUME Below(1), Step(<<"DROP">>)
    PROVE  Below(0)'
<1>1. stack' = Without(1) /\ spend' = spend /\ 1 <= Len(stack)
  BY DEF Step, After, Executes, Operands
<1> QED  BY <1>1, DropKeeps

\* CHECKSIGVERIFY goes on only with a signature of the key's owner.
LEMMA ChecksigVerifyStep ==
    ASSUME Below(1), NEW p, Top(1) = Key(p), Step(<<"CHECKSIGVERIFY">>),
           IsSequence(spend.witness)
    PROVE  Below(0)' /\ Signed(p)
<1>1. stack' = Without(2) /\ spend' = spend /\ 2 <= Len(stack) /\ SignatureFits
  BY DEF Step, After, Executes, Operands, Succeeds
<1>2. Top(2) = Sig(p)
  BY <1>1 DEF SignatureFits, Key
<1> QED  BY <1>1, <1>2, DropKeeps, BelowSigned

\* CHECKSIG leaves something true only for a signature of the key's owner.
LEMMA ChecksigStep ==
    ASSUME Below(1), NEW p, Top(1) = Key(p), Step(<<"CHECKSIG">>),
           IsSequence(spend.witness)
    PROVE  /\ Below(1)'
           /\ \E b \in BOOLEAN : Top(1)' = Truth(b) /\ (b => Signed(p))
<1>1. /\ stack' = Append(Without(2), Truth(SignatureFits))
      /\ spend' = spend /\ 2 <= Len(stack)
  BY DEF Step, After, Executes, Operands
<1>2. Below(1)' /\ Top(1)' = Truth(SignatureFits)
  BY <1>1, ReplaceKeeps
<1>3. SignatureFits => Signed(p)
  BY <1>1, BelowSigned DEF SignatureFits, Key
<1> QED  BY <1>2, <1>3 DEF SignatureFits

\* CHECKSIGADD adds one only for a signature of the key's owner.
LEMMA ChecksigAddStep ==
    ASSUME Below(2), NEW p, Top(1) = Key(p), NEW m, Top(2) = Number(m),
           Step(<<"CHECKSIGADD">>), IsSequence(spend.witness)
    PROVE  /\ Below(1)'
           /\ \/ Top(1)' = Number(m + 1) /\ Signed(p)
              \/ Top(1)' = Number(m + 0)
<1>1. /\ stack' = Append(Without(3), Number(m + (IF AddendFits THEN 1 ELSE 0)))
      /\ spend' = spend /\ 3 <= Len(stack)
  BY DEF Step, After, Executes, Operands, Number
<1>2. Below(1)' /\ Top(1)' = Number(m + (IF AddendFits THEN 1 ELSE 0))
  BY <1>1, ReplaceKeeps
<1>3. AddendFits => Signed(p)
  BY <1>1, BelowSigned DEF AddendFits, Key
<1> QED  BY <1>2, <1>3
-----------------------------------------------------------------------------
(* What each opcode does to what is known at it. *)

\* When what is ahead of the multisig has been passed, the multisig begins.
LEMMA MultisigBegins ==
    ASSUME NEW c, IsClosure(c), Unlocked(c)', Below(0)', ip' = Ahead(c) + 1
    PROVE  Progress(c)'
<1> DEFINE ks == c.multisig.keys
<1>1. Len(ks) \in Nat /\ Len(ks) >= 1 /\ Ahead(c) \in Nat
  BY DEF IsClosure, IsSequence, Ahead
<1>2. ip' - Ahead(c) = 1
  BY <1>1
<1>3. InChecksig(ks, 1)'
  <2>1. 0 \in 0 .. Len(ks) - 1 /\ 1 = 2 * 0 + 1
    BY <1>1
  <2>2. SignedUpTo(ks, 0)'
    BY DEF SignedUpTo
  <2> QED  BY <2>1, <2>2 DEF InChecksig
<1>4. InChecksigAdd(ks, 1)'
  BY DEF InChecksigAdd
<1>5. InMultisig(c.multisig, ip - Ahead(c))'
  BY <1>2, <1>3, <1>4 DEF InMultisig, Ahead
<1> QED  BY <1>5 DEF Progress

\* The opcodes that ask for the secret.
LEMMA ConditionProgress ==
    ASSUME NEW c, IsClosure(c), c.kind = "condition", InCondition,
           Step(Script(c)[ip]), IsSequence(spend.witness)
    PROVE  Progress(c)'
<1> DEFINE s == Script(c)
<1>0. /\ s[1] = <<"SHA256">> /\ s[2] = Push(Sha256(Data("secret")))
      /\ s[3] = <<"EQUAL">> /\ s[4] = <<"VERIFY">>
  BY LeafItems
<1> HIDE DEF s
<1>1. CASE ip = 1 /\ Below(0)
  <2>1. Step(<<"SHA256">>) /\ ip' = 2
    BY <1>0, <1>1 DEF Step, s
  <2> QED  BY <1>1, <2>1, HashStep DEF Progress, InCondition
<1>2. CASE ip = 2 /\ Below(1) /\ IsHash(Top(1))
  <2>1. Step(Push(Sha256(Data("secret")))) /\ ip' = 3 /\ spend' = spend
    BY <1>0, <1>2 DEF Step, s
  <2>2. Below(1 + 1)' /\ Top(1)' = Sha256(Data("secret")) /\ Top(2)' = Top(1)
    BY <1>2, <2>1, PushStep
  <2>3. IsHash(Top(2))'
    BY <1>2, <2>1, <2>2 DEF IsHash
  <2> QED  BY <2>1, <2>2, <2>3 DEF Progress, InCondition
<1>3. CASE /\ ip = 3 /\ Below(2) /\ Top(1) = Sha256(Data("secret"))
           /\ IsHash(Top(2))
  <2>1. Step(<<"EQUAL">>) /\ ip' = 4 /\ spend' = spend
    BY <1>0, <1>3 DEF Step, s
  <2>2. Below(1)' /\ (Top(1)' # Empty => Top(1) = Top(2))
    BY <1>3, <2>1, EqualStep
  <2>3. Top(1) = Top(2) => Revealed
    BY <1>3 DEF IsHash, Sha256, Revealed
  <2>4. Revealed => Revealed'
    BY <2>1 DEF Revealed
  <2> QED  BY <2>1, <2>2, <2>3, <2>4 DEF Progress, InCondition
<1>4. CASE ip = 4 /\ Below(1) /\ (Top(1) # Empty => Revealed)
  <2>1. Step(<<"VERIFY">>) /\ ip' = 5 /\ spend' = spend
    BY <1>0, <1>4 DEF Step, s
  <2>2. Below(0)' /\ Revealed'
    BY <1>4, <2>1, VerifyStep DEF Revealed
  <2>3. Unlocked(c)' /\ ip' = Ahead(c) + 1
    BY <2>1, <2>2 DEF Unlocked, Ahead
  <2> QED  BY <2>2, <2>3, MultisigBegins
<1> QED  BY <1>1, <1>2, <1>3, <1>4 DEF InCondition

\* The opcodes that ask for the timeout.
LEMMA CSVProgress ==
    ASSUME NEW c, IsClosure(c), c.kind = "csv",
           InCSV(LockTimeToSequence(c.locktime)), Step(Script(c)[ip])
    PROVE  Progress(c)'
<1> DEFINE n == LockTimeToSequence(c.locktime)
<1> DEFINE s == Script(c)
<1>0. s[1] = PushOf(n) /\ s[2] = <<"CSV">> /\ s[3] = <<"DROP">>
  BY LeafItems
<1> HIDE DEF n, s
<1>1. CASE ip = 1 /\ Below(0)
  <2>1. Step(PushOf(n)) /\ ip' = 2
    BY <1>0, <1>1 DEF Step, s
  <2>2. Below(0 + 1)' /\ Top(1)' = Number(n)
    BY <1>1, <2>1, NumberStep
  <2> QED  BY <2>1, <2>2 DEF Progress, InCSV, n
<1>2. CASE ip = 2 /\ Below(1) /\ Top(1) = Number(n)
  <2>1. Step(<<"CSV">>) /\ ip' = 3 /\ spend' = spend
    BY <1>0, <1>2 DEF Step, s
  <2>2. Below(1)' /\ CheckSequence(n, spend'.sequence)
    BY <1>2, <2>1, SequenceStep
  <2> QED  BY <2>1, <2>2 DEF Progress, InCSV, n
<1>3. CASE ip = 3 /\ Below(1) /\ CheckSequence(n, spend.sequence)
  <2>1. Step(<<"DROP">>) /\ ip' = 4 /\ spend' = spend
    BY <1>0, <1>3 DEF Step, s
  <2>2. Below(0)'
    BY <1>3, <2>1, DropStep
  <2>3. Unlocked(c)' /\ ip' = Ahead(c) + 1
    BY <1>3, <2>1 DEF Unlocked, Ahead, n
  <2> QED  BY <2>2, <2>3, MultisigBegins
<1> QED  BY <1>1, <1>2, <1>3 DEF InCSV, n

\* Who has signed is in the witness, which no opcode changes.
LEMMA SignedKept ==
    ASSUME spend' = spend, NEW ks, NEW n, SignedUpTo(ks, n)
    PROVE  SignedUpTo(ks, n)'
BY DEF SignedUpTo, Signed

\* One more key has signed.
LEMMA OneMoreSigned ==
    ASSUME spend' = spend, NEW ks, NEW n \in Nat, SignedUpTo(ks, n),
           Signed(ks[n + 1])
    PROVE  SignedUpTo(ks, n + 1)'
<1>1. ASSUME NEW i \in 1 .. n + 1
      PROVE  Signed(ks[i])
  <2>1. i = n + 1 \/ i \in 1 .. n
    OBVIOUS
  <2> QED  BY <2>1 DEF SignedUpTo
<1> QED  BY <1>1 DEF SignedUpTo, Signed

\* At each opcode of the first form, the keys before it have signed.
LEMMA ChecksigProgress ==
    ASSUME NEW ks, IsSequence(ks), NEW q, InChecksig(ks, q),
           q \in 1 .. Len(ChecksigScript(ks)),
           Step(ChecksigScript(ks)[q]), IsSequence(spend.witness)
    PROVE  InChecksig(ks, q + 1)'
<1> DEFINE s == ChecksigScript(ks)
<1>1. Len(ks) \in Nat /\ spend' = spend
  BY DEF IsSequence, Step
<1>2. /\ Len(s) = 2 * Len(ks)
      /\ \A n \in 0 .. Len(ks) - 1 :
            /\ s[2 * n + 1] = Push(Key(ks[n + 1]))
            /\ s[2 * n + 2] = << IF n + 1 = Len(ks) THEN "CHECKSIG"
                                               ELSE "CHECKSIGVERIFY" >>
  BY ChecksigItems
<1> HIDE DEF s
<1>3. ASSUME NEW n \in 0 .. Len(ks) - 1,
             q = 2 * n + 1, Below(0), SignedUpTo(ks, n)
      PROVE  InChecksig(ks, q + 1)'
  <2>1. Step(Push(Key(ks[n + 1])))
    BY <1>2, <1>3 DEF s
  <2>2. Below(0 + 1)' /\ Top(1)' = Key(ks[n + 1])
    BY <1>3, <2>1, PushStep
  <2>3. SignedUpTo(ks, n)' /\ q + 1 = 2 * n + 2
    BY <1>1, <1>3, SignedKept
  <2> QED  BY <2>2, <2>3 DEF InChecksig
<1>4. ASSUME NEW n \in 0 .. Len(ks) - 1, q = 2 * n + 2,
             Below(1), Top(1) = Key(ks[n + 1]), SignedUpTo(ks, n)
      PROVE  InChecksig(ks, q + 1)'
  <2>1. CASE n + 1 = Len(ks)
    <3>1. Step(<<"CHECKSIG">>)
      BY <1>2, <1>4, <2>1 DEF s
    <3>2. PICK b \in BOOLEAN : Below(1)' /\ Top(1)' = Truth(b) /\ (b => Signed(ks[n + 1]))
      BY <1>4, <3>1, ChecksigStep
    <3>3. Top(1)' # Empty => SignedUpTo(ks, n + 1)'
      BY <1>1, <1>4, <3>2, OneMoreSigned DEF Truth
    <3>4. q + 1 = 2 * Len(ks) + 1
      BY <1>4, <2>1
    <3> QED  BY <2>1, <3>2, <3>3, <3>4 DEF InChecksig
  <2>2. CASE n + 1 # Len(ks)
    <3>1. Step(<<"CHECKSIGVERIFY">>)
      BY <1>2, <1>4, <2>2 DEF s
    <3>2. Below(0)' /\ Signed(ks[n + 1])
      BY <1>4, <3>1, ChecksigVerifyStep
    <3>3. SignedUpTo(ks, n + 1)'
      BY <1>1, <1>4, <3>2, OneMoreSigned
    <3>4. q + 1 = 2 * (n + 1) + 1 /\ n + 1 \in 0 .. Len(ks) - 1
      BY <1>1, <1>4, <2>2
    <3> QED  BY <3>2, <3>3, <3>4 DEF InChecksig
  <2> QED  BY <2>1, <2>2
<1>5. q # 2 * Len(ks) + 1
  BY <1>1, <1>2 DEF s
<1> QED  BY <1>3, <1>4, <1>5 DEF InChecksig

\* At each opcode of the second form, the count is full only if all keys so far
\* have signed.
LEMMA ChecksigAddProgress ==
    ASSUME NEW ks, IsSequence(ks), Len(ks) >= 1, NEW q, InChecksigAdd(ks, q),
           q \in 1 .. Len(ChecksigAddScript(ks)),
           Step(ChecksigAddScript(ks)[q]), IsSequence(spend.witness)
    PROVE  InChecksigAdd(ks, q + 1)'
<1> DEFINE s == ChecksigAddScript(ks)
           N == Len(ks)
<1>1. N \in Nat /\ N >= 1 /\ spend' = spend
  BY DEF IsSequence, Step
<1>2. /\ Len(s) = 2 * N + 2
      /\ \A n \in 0 .. N - 1 :
            /\ s[2 * n + 1] = Push(Key(ks[n + 1]))
            /\ s[2 * n + 2] = << IF n = 0 THEN "CHECKSIG" ELSE "CHECKSIGADD" >>
      /\ s[2 * N + 1] = PushOf(N)
      /\ s[2 * N + 2] = <<"NUMEQUAL">>
  BY ChecksigAddItems
<1>3. Step(s[q])
  OBVIOUS
<1> HIDE DEF s
<1>4. CASE q = 1 /\ Below(0)
  <2>1. Step(Push(Key(ks[1])))
    <3>1. 0 \in 0 .. N - 1 /\ 2 * 0 + 1 = 1 /\ 0 + 1 = 1
      BY <1>1
    <3>2. s[1] = Push(Key(ks[1]))
      BY <1>2, <3>1
    <3> QED  BY <1>3, <1>4, <3>2
  <2>2. Below(0 + 1)' /\ Top(1)' = Key(ks[1])
    BY <1>4, <2>1, PushStep
  <2> QED  BY <1>4, <2>2 DEF InChecksigAdd
<1>5. CASE q = 2 /\ Below(1) /\ Top(1) = Key(ks[1])
  <2>1. Step(<<"CHECKSIG">>)
    <3>1. 0 \in 0 .. N - 1 /\ 2 * 0 + 2 = 2
      BY <1>1
    <3>2. s[2] = <<"CHECKSIG">>
      BY <1>2, <3>1
    <3> QED  BY <1>3, <1>5, <3>2
  <2>2. PICK b \in BOOLEAN : Below(1)' /\ Top(1)' = Truth(b) /\ (b => Signed(ks[1]))
    BY <1>5, <2>1, ChecksigStep
  <2>3. Counts(Top(1), ks, 1)'
    <3>1. Signed(ks[1]) => SignedUpTo(ks, 0 + 1)'
      BY <1>1, OneMoreSigned DEF SignedUpTo
    <3>2. CASE b
      BY <2>2, <3>1, <3>2 DEF Counts, Truth, True
    <3>3. CASE ~b
      BY <2>2, <3>3 DEF Counts, Truth, Empty
    <3> QED  BY <3>2, <3>3
  <2>4. 1 \in 1 .. N /\ q + 1 = 2 * 1 + 1
    BY <1>1, <1>5
  <2> QED  BY <2>2, <2>3, <2>4 DEF InChecksigAdd
<1>6. ASSUME NEW n \in 1 .. N, q = 2 * n + 1, Below(1), Counts(Top(1), ks, n)
      PROVE  InChecksigAdd(ks, q + 1)'
  <2>1. CASE n = N
    <3>1. Step(PushOf(N))
      BY <1>2, <1>3, <1>6, <2>1
    <3>2. Below(1 + 1)' /\ Top(1)' = Number(N) /\ Top(2)' = Top(1)
      BY <1>6, <3>1, NumberStep
    <3>3. Counts(Top(2), ks, n)'
      BY <1>1, <1>6, <3>2, SignedKept DEF Counts
    <3>4. q + 1 = 2 * N + 2
      BY <1>6, <2>1
    <3> QED  BY <2>1, <3>2, <3>3, <3>4 DEF InChecksigAdd
  <2>2. CASE n # N
    <3>1. n \in 1 .. N - 1 /\ n \in 0 .. N - 1
      BY <1>1, <1>6, <2>2
    <3>2. Step(Push(Key(ks[n + 1])))
      BY <1>2, <1>3, <1>6, <3>1
    <3>3. Below(1 + 1)' /\ Top(1)' = Key(ks[n + 1]) /\ Top(2)' = Top(1)
      BY <1>6, <3>2, PushStep
    <3>4. Counts(Top(2), ks, n)'
      BY <1>1, <1>6, <3>3, SignedKept DEF Counts
    <3>5. q + 1 = 2 * n + 2
      BY <1>6
    <3> QED  BY <3>1, <3>3, <3>4, <3>5 DEF InChecksigAdd
  <2> QED  BY <2>1, <2>2
<1>7. ASSUME NEW n \in 1 .. N - 1, q = 2 * n + 2,
             Below(2), Top(1) = Key(ks[n + 1]), Counts(Top(2), ks, n)
      PROVE  InChecksigAdd(ks, q + 1)'
  <2>1. Step(<<"CHECKSIGADD">>)
    <3>1. n \in 0 .. N - 1 /\ n # 0
      BY <1>1, <1>7
    <3> QED  BY <1>2, <1>3, <1>7, <3>1
  <2>2. PICK m \in 0 .. n : Top(2) = Number(m) /\ (m = n => SignedUpTo(ks, n))
    BY <1>7 DEF Counts
  <2>3. /\ Below(1)'
        /\ \/ Top(1)' = Number(m + 1) /\ Signed(ks[n + 1])
           \/ Top(1)' = Number(m + 0)
    BY <1>7, <2>1, <2>2, ChecksigAddStep
  <2>4. Counts(Top(1), ks, n + 1)'
    <3>1. m \in 0 .. n + 1 /\ m + 1 \in 0 .. n + 1 /\ m # n + 1
            /\ (m + 1 = n + 1 => m = n) /\ m + 0 = m /\ n \in Nat
      BY <1>1, <1>7
    <3>2. CASE Top(1)' = Number(m + 1) /\ Signed(ks[n + 1])
      <4>1. m + 1 = n + 1 => SignedUpTo(ks, n + 1)'
        BY <1>1, <2>2, <3>1, <3>2, OneMoreSigned
      <4> QED  BY <3>1, <3>2, <4>1 DEF Counts
    <3>3. CASE Top(1)' = Number(m + 0)
      BY <3>1, <3>3 DEF Counts
    <3> QED  BY <2>3, <3>2, <3>3
  <2>5. n + 1 \in 1 .. N
    BY <1>1, <1>7
  <2>6. q + 1 = 2 * (n + 1) + 1
    BY <1>1, <1>7
  <2> QED  BY <2>3, <2>4, <2>5, <2>6 DEF InChecksigAdd
<1>8. CASE /\ q = 2 * N + 2 /\ Below(2)
           /\ Top(1) = Number(N) /\ Counts(Top(2), ks, N)
  <2>1. Step(<<"NUMEQUAL">>)
    BY <1>2, <1>3, <1>8
  <2>2. Below(1)' /\ (Top(1)' # Empty => Top(1) = Top(2))
    BY <1>8, <2>1, EqualStep
  <2>3. Top(1) = Top(2) => SignedUpTo(ks, N)'
    <3>1. PICK m \in 0 .. N : Top(2) = Number(m) /\ (m = N => SignedUpTo(ks, N))
      BY <1>8 DEF Counts
    <3>2. Top(1) = Top(2) => m = N
      BY <1>8, <3>1 DEF Number
    <3> QED  BY <1>1, <3>1, <3>2, SignedKept
  <2>4. q + 1 = 2 * N + 3
    BY <1>1, <1>8
  <2> QED  BY <2>2, <2>3, <2>4 DEF InChecksigAdd
<1>9. q # 2 * N + 3
  BY <1>1, <1>2 DEF s
<1> QED  BY <1>4, <1>5, <1>6, <1>7, <1>8, <1>9 DEF InChecksigAdd
-----------------------------------------------------------------------------
(* What the node knows of the leaves of this code. *)

\* Where a multisig ends, and what is known there.
LEMMA MultisigPlace ==
    ASSUME NEW m, IsSequence(m.keys), Len(m.keys) >= 1,
           m.type \in {"checksig", "checksigadd"}, NEW q, InMultisig(m, q)
    PROVE  /\ q \in Nat /\ q >= 1
           /\ Len(MultisigScript(m)) \in Nat
           /\ q > Len(MultisigScript(m)) =>
                 (Top(1) # Empty => SignedUpTo(m.keys, Len(m.keys)))
<1>1. Len(m.keys) \in Nat
  BY DEF IsSequence
<1>2. CASE m.type = "checksig"
  <2>1. InChecksig(m.keys, q)
    BY <1>2 DEF InMultisig
  <2>2. Len(MultisigScript(m)) = 2 * Len(m.keys)
    BY <1>2, MultisigItems
  <2> QED  BY <1>1, <2>1, <2>2 DEF InChecksig
<1>3. CASE m.type = "checksigadd"
  <2>1. InChecksigAdd(m.keys, q)
    BY <1>3 DEF InMultisig
  <2>2. Len(MultisigScript(m)) = 2 * Len(m.keys) + 2
    BY <1>3, MultisigItems
  <2> QED  BY <1>1, <2>1, <2>2 DEF InChecksigAdd
<1> QED  BY <1>2, <1>3

\* Each opcode of a multisig keeps what is known.
LEMMA MultisigProgress ==
    ASSUME NEW m, IsSequence(m.keys), Len(m.keys) >= 1, NEW q, InMultisig(m, q),
           q \in 1 .. Len(MultisigScript(m)), Step(MultisigScript(m)[q]),
           IsSequence(spend.witness)
    PROVE  InMultisig(m, q + 1)'
<1>1. CASE m.type = "checksig"
  <2>1. MultisigScript(m) = ChecksigScript(m.keys) /\ InChecksig(m.keys, q)
    BY <1>1 DEF MultisigScript, InMultisig
  <2>2. InChecksig(m.keys, q + 1)'
    BY <2>1, ChecksigProgress
  <2> QED  BY <1>1, <2>2 DEF InMultisig
<1>2. CASE m.type # "checksig"
  <2>1. MultisigScript(m) = ChecksigAddScript(m.keys) /\ InChecksigAdd(m.keys, q)
    BY <1>2 DEF MultisigScript, InMultisig
  <2>2. InChecksigAdd(m.keys, q + 1)'
    BY <2>1, ChecksigAddProgress
  <2> QED  BY <1>2, <2>2 DEF InMultisig
<1> QED  BY <1>1, <1>2

\* Each opcode of a leaf keeps what is known.
LEMMA LeafProgress ==
    ASSUME NEW c, IsClosure(c), Progress(c), ip \in 1 .. Len(Script(c)),
           Step(Script(c)[ip]), IsSequence(spend.witness)
    PROVE  Progress(c)'
<1> DEFINE m == c.multisig
           q == ip - Ahead(c)
<1>1. CASE c.kind = "condition" /\ InCondition
  BY <1>1, ConditionProgress
<1>2. CASE c.kind = "csv" /\ InCSV(LockTimeToSequence(c.locktime))
  BY <1>2, CSVProgress
<1>3. CASE Unlocked(c) /\ InMultisig(m, q)
  <2>1. IsSequence(m.keys) /\ Len(m.keys) >= 1 /\ m.type \in {"checksig", "checksigadd"}
    BY DEF IsClosure
  <2>2. q \in Nat /\ q >= 1 /\ Len(MultisigScript(m)) \in Nat
    BY <1>3, <2>1, MultisigPlace
  <2>3. /\ Len(Script(c)) = Ahead(c) + Len(MultisigScript(m))
        /\ \A i \in 1 .. Len(MultisigScript(m)) :
              Script(c)[Ahead(c) + i] = MultisigScript(m)[i]
    BY LeafItems
  <2>4. Ahead(c) \in Nat /\ ip \in Nat
    BY <2>2, <2>3 DEF Ahead, IsClosure
  <2>5. q \in 1 .. Len(MultisigScript(m)) /\ Ahead(c) + q = ip
    BY <2>2, <2>3, <2>4
  <2>6. Step(MultisigScript(m)[q])
    BY <2>3, <2>5
  <2>7. \A i : i = q => InMultisig(m, i + 1)'
    BY <1>3, <2>1, <2>5, <2>6, MultisigProgress
  <2>8. ip' - Ahead(c) = q + 1
    BY <2>4 DEF Step
  <2>9. Unlocked(c)'
    BY <1>3 DEF Unlocked, Revealed, Step
  <2> QED  BY <2>7, <2>8, <2>9 DEF Progress, Ahead
<1> QED  BY <1>1, <1>2, <1>3 DEF Progress

\* At the end of a leaf, something true on the stack means that the leaf was
\* unlocked and that all its keys have signed.
LEMMA LeafEnd ==
    ASSUME NEW c, IsClosure(c), Progress(c), ip \in Nat, ip > Len(Script(c)),
           Top(1) # Empty
    PROVE  Unlocked(c) /\ SignedUpTo(c.multisig.keys, Len(c.multisig.keys))
<1> DEFINE m == c.multisig
           q == ip - Ahead(c)
<1>1. IsSequence(m.keys) /\ Len(m.keys) >= 1 /\ m.type \in {"checksig", "checksigadd"}
  BY DEF IsClosure
<1>2. /\ Len(Script(c)) = Ahead(c) + Len(MultisigScript(m))
      /\ Len(MultisigScript(m)) \in Nat
  BY <1>1, LeafItems, MultisigItems DEF IsSequence
<1>3. ~(c.kind = "condition" /\ InCondition)
  BY <1>2 DEF Ahead, InCondition
<1>4. ~(c.kind = "csv" /\ InCSV(LockTimeToSequence(c.locktime)))
  BY <1>2 DEF Ahead, InCSV
<1>5. Unlocked(c) /\ InMultisig(m, q)
  BY <1>3, <1>4 DEF Progress
<1>6. Ahead(c) \in Nat
  BY DEF Ahead, IsClosure
<1>7. q \in Nat /\ (q > Len(MultisigScript(m)) => SignedUpTo(m.keys, Len(m.keys)))
  BY <1>1, <1>5, MultisigPlace
<1>8. q > Len(MultisigScript(m))
  BY <1>2, <1>6, <1>7
<1> QED  BY <1>5, <1>7, <1>8

KnownContract == contract \in Contracts /\ request \in Nat

\* The leaves of the contracts are closures of this code.
LEMMA LeavesAreClosures ==
    ASSUME KnownContract
    PROVE  /\ Len(Leaves) = IF contract = "htlc" THEN 2 ELSE 4
           /\ \A i \in 1 .. Len(Leaves) :
                 LET c == Leaves[i]
                 IN  /\ IsClosure(c)
                     /\ Len(c.multisig.keys) = IF i \in {3, 4} THEN 2 ELSE 1
                     /\ c.kind = IF i = 1 THEN "condition"
                                 ELSE IF i = 2 THEN "csv" ELSE "multisig"
                     /\ i = 2 => c.locktime = BlockLocktime(TimeoutBlocks(request))
<1>1. IsSequence(<<"seller">>) /\ IsSequence(<<"buyer">>) /\ IsSequence(<<"service">>)
        /\ IsSequence(<<"oracle", "seller">>) /\ IsSequence(<<"oracle", "buyer">>)
  BY PairIsSequence
<1>2. ASSUME NEW t \in {"checksig", "checksigadd"}, Leaves = EscrowClosures(t, TimeoutBlocks(request)),
             NEW i \in 1 .. 4
      PROVE  LET c == Leaves[i]
             IN  /\ IsClosure(c)
                 /\ Len(c.multisig.keys) = IF i \in {3, 4} THEN 2 ELSE 1
                 /\ c.kind = IF i = 1 THEN "condition"
                             ELSE IF i = 2 THEN "csv" ELSE "multisig"
                 /\ i = 2 => c.locktime = BlockLocktime(TimeoutBlocks(request))
  <2> DEFINE c == Leaves[i]
  <2>1. CASE i = 1
    <3>1. c = Condition(MultisigOf(t, <<"seller">>), HashIs(Data("secret")))
      BY <1>2, <2>1 DEF EscrowClosures
    <3> QED  BY <1>1, <2>1, <3>1 DEF IsClosure, Condition, MultisigOf
  <2>2. CASE i = 2
    <3>1. c = CSV(MultisigOf(t, <<"buyer">>), BlockLocktime(TimeoutBlocks(request)))
      BY <1>2, <2>2 DEF EscrowClosures
    <3> QED  BY <1>1, <2>2, <3>1 DEF IsClosure, CSV, MultisigOf
  <2>3. CASE i = 3
    <3>1. c = Multisig(MultisigOf(t, <<"oracle", "seller">>))
      BY <1>2, <2>3 DEF EscrowClosures
    <3> QED  BY <1>1, <2>3, <3>1 DEF IsClosure, Multisig, MultisigOf
  <2>4. CASE i = 4
    <3>1. c = Multisig(MultisigOf(t, <<"oracle", "buyer">>))
      BY <1>2, <2>4 DEF EscrowClosures
    <3> QED  BY <1>1, <2>4, <3>1 DEF IsClosure, Multisig, MultisigOf
  <2> QED  BY <2>1, <2>2, <2>3, <2>4
<1>3. ASSUME Leaves = HTLCClosures(TimeoutBlocks(request)), NEW i \in 1 .. 2
      PROVE  LET c == Leaves[i]
             IN  /\ IsClosure(c)
                 /\ Len(c.multisig.keys) = 1
                 /\ c.kind = IF i = 1 THEN "condition" ELSE "csv"
                 /\ i = 2 => c.locktime = BlockLocktime(TimeoutBlocks(request))
  <2>1. i \in {1, 2}
    OBVIOUS
  <2> QED  BY <1>1, <1>3, <2>1 DEF HTLCClosures, IsClosure, Condition, CSV, MultisigOf
<1>4. CASE contract = "htlc"
  <2>1. Leaves = HTLCClosures(TimeoutBlocks(request))
    BY <1>4 DEF Leaves, Closures
  <2>2. Len(Leaves) = 2
    BY <2>1 DEF HTLCClosures
  <2>3. \A i \in 1 .. 2 : i \notin {3, 4} /\ (i # 1 => i = 2)
    OBVIOUS
  <2> QED  BY <1>3, <1>4, <2>1, <2>2, <2>3
<1>5. CASE contract # "htlc"
  <2>1. PICK t \in {"checksig", "checksigadd"} :
           Leaves = EscrowClosures(t, TimeoutBlocks(request))
    BY <1>5 DEF Leaves, Closures, KnownContract, Contracts
  <2>2. Len(Leaves) = 4
    BY <2>1 DEF EscrowClosures
  <2> QED  BY <1>2, <1>5, <2>1, <2>2
<1> QED  BY <1>4, <1>5

\* No leaf is longer than eight opcodes.
LEMMA LeafLength ==
    ASSUME KnownContract, NEW i \in 1 .. Len(Leaves)
    PROVE  Len(Script(Leaves[i])) \in 0 .. 8
<1> DEFINE c == Leaves[i]
           m == c.multisig
<1>1. /\ IsClosure(c)
      /\ Len(m.keys) = IF i \in {3, 4} THEN 2 ELSE 1
      /\ c.kind = IF i = 1 THEN "condition" ELSE IF i = 2 THEN "csv" ELSE "multisig"
  BY LeavesAreClosures
<1> HIDE DEF c
<1>2. Len(Script(c)) = Ahead(c) + Len(MultisigScript(m))
  BY <1>1, LeafItems
<1>3. \/ Len(MultisigScript(m)) = 2 * Len(m.keys)
      \/ Len(MultisigScript(m)) = 2 * Len(m.keys) + 2
  BY <1>1, MultisigItems DEF IsClosure
<1>4. i \in Nat /\ (i = 1 \/ i = 2 \/ i \notin {1, 2})
  BY LeavesAreClosures
<1>5. ASSUME NEW a \in Nat, NEW n \in Nat, NEW l,
             \/ a = 4 /\ n = 1
             \/ a = 3 /\ n = 1
             \/ a = 0 /\ n <= 2,
             l = 2 * n \/ l = 2 * n + 2
      PROVE  a + l \in 0 .. 8
  BY <1>5
<1>6. /\ Ahead(c) \in Nat /\ Len(m.keys) \in Nat
      /\ \/ Ahead(c) = 4 /\ Len(m.keys) = 1
         \/ Ahead(c) = 3 /\ Len(m.keys) = 1
         \/ Ahead(c) = 0 /\ Len(m.keys) <= 2
  BY <1>1, <1>4 DEF Ahead
<1> HIDE DEF m
<1>7. Ahead(c) + Len(MultisigScript(m)) \in 0 .. 8
  BY <1>3, <1>5, <1>6
<1> QED  BY <1>2, <1>7 DEF c

\* The stack is the witness and at most two items.
LEMMA BelowBounds ==
    ASSUME NEW k \in 0 .. 2, Below(k)', IsSequence(spend'.witness)
    PROVE  Len(stack') <= Len(spend'.witness) + 2
BY DEF Below, IsSequence

\* So it is at every opcode.
LEMMA ProgressBounds ==
    ASSUME NEW c, Progress(c)', IsSequence(spend'.witness)
    PROVE  Len(stack') <= Len(spend'.witness) + 2
<1>1. Below(0)' \/ Below(1)' \/ Below(2)'
  BY DEF Progress, InCondition, InCSV, InMultisig, InChecksig, InChecksigAdd
<1> QED  BY <1>1, BelowBounds

\* The leaves stay what they are.
LEMMA LeavesKept ==
    ASSUME UNCHANGED <<contract, request>>
    PROVE  Leaves' = Leaves
BY DEF Leaves

\* A spend starts at the first opcode, with the witness on the stack.
LEMMA BroadcastKeeps ==
    ASSUME TypeOK, UNCHANGED <<contract, request, age>>,
           claim' \in [keys : KeyLists, preimage : Preimages],
           NEW leaf \in 1 .. Len(Leaves), NEW sequence \in 0 .. Word - 1,
           NEW witness, IsSequence(witness), Broadcast(leaf, sequence, witness)
    PROVE  IndInv'
<1>1. KnownContract
  BY EscrowScriptAssumption DEF TypeOK, KnownContract
<1>2. Leaves' = Leaves /\ Len(Leaves) \in Nat /\ Len(Leaves) <= 4
  BY <1>1, LeavesKept, LeavesAreClosures
<1>3. /\ spend'.leaf = leaf /\ spend'.sequence = sequence /\ spend'.witness = witness
      /\ stack' = witness /\ ip' = 1
      /\ verdict' = IF Mature(sequence, age) THEN "running" ELSE "rejected"
  BY DEF Broadcast
<1>4. Len(witness) \in Nat
  BY DEF IsSequence
<1>5. Below(0)'
  BY <1>3, <1>4 DEF Below
<1>6. Progress(Leaves[leaf])'
  <2> DEFINE c == Leaves[leaf]
  <2>1. IsClosure(c)
    BY <1>1, LeavesAreClosures
  <2>2. \A d : d = c => Progress(d)'
    <3> SUFFICES ASSUME NEW d, d = c
                 PROVE  Progress(d)'
      OBVIOUS
    <3>1. IsClosure(d)
      BY <2>1
    <3> HIDE DEF c
    <3>2. CASE d.kind = "condition"
      BY <1>3, <1>5, <3>2 DEF Progress, InCondition
    <3>3. CASE d.kind = "csv"
      BY <1>3, <1>5, <3>3 DEF Progress, InCSV
    <3>4. CASE d.kind = "multisig"
      <4>1. Unlocked(d)' /\ ip' = Ahead(d) + 1
        BY <1>3, <3>4 DEF Unlocked, Ahead
      <4> QED  BY <1>5, <3>1, <4>1, MultisigBegins
    <3> QED  BY <3>1, <3>2, <3>3, <3>4 DEF IsClosure
  <2>3. (Leaves[leaf])' = c
    BY <1>2
  <2> HIDE DEF c
  <2> QED  BY <2>2, <2>3
<1>7. TypeOK'
  <2>0. leaf \in 0 .. 4
    BY <1>2
  <2>1. spend'.leaf \in 0 .. 4 /\ verdict' \in Verdicts
    BY <1>3, <2>0 DEF Verdicts
  <2>2. Len(stack') <= Len(spend'.witness) + 2
    BY <1>3, <1>4
  <2> QED  BY <1>3, <2>1, <2>2 DEF TypeOK
<1>8. NodeInv'
  <2>1. verdict' # "accepted" /\ (verdict' = "running" => Mature(spend'.sequence, age'))
    BY <1>3
  <2>2. Progress(Leaves[spend.leaf])'
    BY <1>3, <1>6
  <2>3. spend'.leaf \in 1 .. Len(Leaves')
    BY <1>2, <1>3
  <2> QED  BY <2>1, <2>2, <2>3 DEF NodeInv
<1> QED  BY <1>7, <1>8 DEF IndInv
-----------------------------------------------------------------------------
(* The invariant. *)

\* What the types say of the contract and of the witnesses.
LEMMA Knows ==
    ASSUME TypeOK
    PROVE  /\ KnownContract
           /\ IsSequence(spend.witness)
           /\ \A w \in Witnesses(request) : IsSequence(w)
BY EscrowScriptAssumption DEF TypeOK, KnownContract

\* Before the first spend nothing runs and nothing was accepted.
LEMMA InitInv == Init => IndInv
<1> SUFFICES ASSUME Init PROVE IndInv
  OBVIOUS
<1>1. TypeOK
  <2>1. PICK c \in Cases : request = c[1] /\ age = c[2]
    BY DEF Init
  <2>2. c = <<c[1], c[2]>>
    BY EscrowScriptAssumption
  <2>3. <<request, age>> \in Cases
    BY <2>1, <2>2
  <2>4. IsSequence(spend.witness) /\ Len(stack) <= Len(spend.witness) + 2
    BY DEF Init, NoSpend, IsSequence
  <2>5. claim \in [keys : KeyLists, preimage : Preimages]
    BY DEF Init, NoClaim, KeyLists, Preimages
  <2>6. spend.leaf \in 0 .. 4 /\ spend.sequence \in 0 .. Word - 1
    BY LocktimeAssumption DEF Init, NoSpend
  <2> QED  BY <2>3, <2>4, <2>5, <2>6 DEF TypeOK, Init, Verdicts
<1>2. NodeInv
  BY DEF Init, NodeInv
<1> QED  BY <1>1, <1>2 DEF IndInv

\* A program that refuses broadcasts nothing.
LEMMA RefusalKeeps ==
    ASSUME TypeOK, verdict' = "refused", UNCHANGED <<contract, request, age, spend, ip, stack>>,
           claim' \in [keys : KeyLists, preimage : Preimages]
    PROVE  IndInv'
BY DEF IndInv, TypeOK, NodeInv, Verdicts

\* The sequences that the code chooses are 32 bits wide.
LEMMA SequencesKnown ==
    ASSUME TypeOK
    PROVE  /\ DefaultSequence \in 0 .. Word - 1
           /\ TimeoutBlocks(request) \in 0 .. Word - 1
           /\ LockTimeToSequence(Leaves[2].locktime) = TimeoutBlocks(request)
<1>1. Word \in Nat /\ Word > 0 /\ request \in Nat
  BY LocktimeAssumption, Knows DEF KnownContract
<1>2. TimeoutBlocks(request) \in 0 .. Word - 1
  BY <1>1 DEF TimeoutBlocks
<1>3. 2 \in 1 .. Len(Leaves)
  BY Knows, LeavesAreClosures
<1>4. LockTimeToSequence(Leaves[2].locktime) = TimeoutBlocks(request)
  BY <1>3, Knows, LeavesAreClosures DEF LockTimeToSequence, BlockLocktime
<1> QED  BY <1>1, <1>2, <1>4 DEF DefaultSequence

\* A spend of the escrow by this code.
LEMMA ClaimEscrowKeeps ==
    ASSUME TypeOK, NEW leaf \in 1 .. 4, NEW keys \in KeyLists, NEW preimage \in Preimages,
           ClaimEscrow(leaf, keys, preimage)
    PROVE  IndInv'
<1>1. claim' \in [keys : KeyLists, preimage : Preimages]
  BY DEF ClaimEscrow
<1>2. UNCHANGED <<contract, request, age>> /\ contract = "escrow"
  BY DEF ClaimEscrow
<1>3. leaf \in 1 .. Len(Leaves)
  BY <1>2, Knows, LeavesAreClosures
<1>4. IsSequence(EscrowWitness(leaf, keys, preimage))
  <2>1. leaf = 1 \/ leaf = 2 \/ leaf \in {3, 4}
    OBVIOUS
  <2>2. CASE leaf = 1
    BY <2>2, PairIsSequence DEF EscrowWitness
  <2>3. CASE leaf = 2
    BY <2>3, PairIsSequence DEF EscrowWitness
  <2>4. CASE leaf \in {3, 4}
    BY <2>4, PairIsSequence DEF EscrowWitness
  <2> QED  BY <2>1, <2>2, <2>3, <2>4
<1>5. CASE Broadcast(leaf,
                     IF leaf = 2 THEN LockTimeToSequence(Leaves[2].locktime)
                                 ELSE DefaultSequence,
                     EscrowWitness(leaf, keys, preimage))
  BY <1>1, <1>2, <1>3, <1>4, <1>5, SequencesKnown, BroadcastKeeps
<1>6. CASE verdict' = "refused" /\ UNCHANGED <<spend, ip, stack>>
  BY <1>1, <1>2, <1>6, RefusalKeeps
<1> QED  BY <1>5, <1>6 DEF ClaimEscrow

\* A spend of the HTLC by this code.
LEMMA SpendHTLCKeeps ==
    ASSUME TypeOK, NEW leaf \in 1 .. 2, NEW key \in Parties, NEW preimage \in Preimages,
           SpendHTLC(leaf, key, preimage)
    PROVE  IndInv'
<1> DEFINE witness == IF leaf = 1 /\ preimage # None
                      THEN << Sig(key), Data(preimage) >> ELSE << Sig(key) >>
<1>1. claim' \in [keys : KeyLists, preimage : Preimages]
  BY DEF SpendHTLC, KeyLists
<1>2. UNCHANGED <<contract, request, age>> /\ contract = "htlc"
  BY DEF SpendHTLC
<1>3. leaf \in 1 .. Len(Leaves)
  BY <1>2, Knows, LeavesAreClosures
<1>4. IsSequence(witness)
  BY PairIsSequence
<1>5. Broadcast(leaf, IF leaf = 2 THEN LockTimeToSequence(Leaves[2].locktime)
                                 ELSE DefaultSequence, witness)
  BY DEF SpendHTLC
<1> QED  BY <1>1, <1>2, <1>3, <1>4, <1>5, SequencesKnown, BroadcastKeeps

\* A spend by a closure's Witness method.
LEMMA SpendClosureKeeps ==
    ASSUME TypeOK, NEW leaf \in 1 .. 4, NEW keys \in KeyLists, SpendClosure(leaf, keys)
    PROVE  IndInv'
<1> DEFINE c == Leaves[leaf]
<1>1. claim' \in [keys : KeyLists, preimage : Preimages]
  BY DEF SpendClosure, Preimages
<1>2. UNCHANGED <<contract, request, age>> /\ contract = "additive"
  BY DEF SpendClosure
<1>3. leaf \in 1 .. Len(Leaves)
  BY <1>2, Knows, LeavesAreClosures
<1>4. IsSequence(ClosureWitness(c.multisig))
  <2> DEFINE w == ClosureWitness(c.multisig)
  <2>1. Len(c.multisig.keys) \in Nat
    BY <1>3, Knows, LeavesAreClosures DEF IsClosure, IsSequence
  <2>2. w = [i \in 1 .. Len(c.multisig.keys) |-> w[i]]
    BY DEF ClosureWitness
  <2> HIDE DEF w
  <2> QED  BY <2>1, <2>2, FunctionIsSequence DEF w
<1>5. CASE Broadcast(leaf, IF leaf = 2 THEN LockTimeToSequence(c.locktime)
                                      ELSE DefaultSequence,
                     ClosureWitness(c.multisig))
  BY <1>1, <1>2, <1>3, <1>4, <1>5, SequencesKnown, BroadcastKeeps
<1>6. CASE verdict' = "refused" /\ UNCHANGED <<spend, ip, stack>>
  BY <1>1, <1>2, <1>6, RefusalKeeps
<1> QED  BY <1>5, <1>6 DEF SpendClosure

\* A spend by anybody else.
LEMMA SpendOtherwiseKeeps ==
    ASSUME TypeOK, SpendOtherwise
    PROVE  IndInv'
<1> PICK leaf \in 1 .. Len(Leaves), sequence \in Sequences(request),
         w \in Witnesses(request) : Broadcast(leaf, sequence, w)
  BY DEF SpendOtherwise
<1>1. /\ UNCHANGED <<contract, request, age>>
      /\ claim' \in [keys : KeyLists, preimage : Preimages]
      /\ Broadcast(leaf, sequence, w)
  BY DEF SpendOtherwise, TypeOK
<1>2. sequence \in 0 .. Word - 1 /\ IsSequence(w)
  <2>1. /\ <<request, age>> \in Cases
        /\ <<request, age>>[1] = request
    BY DEF TypeOK
  <2> QED  BY <2>1, EscrowScriptAssumption
<1> QED  BY <1>1, <1>2, BroadcastKeeps

\* The node runs one opcode.
LEMMA ExecuteKeeps ==
    ASSUME IndInv, Execute
    PROVE  IndInv'
<1> DEFINE c == Leaves[spend.leaf]
           op == LeafScript[ip]
<1>1. /\ TypeOK /\ verdict = "running" /\ Progress(c)
      /\ spend.leaf \in 1 .. Len(Leaves) /\ Mature(spend.sequence, age)
      /\ UNCHANGED <<contract, request, age, spend, claim>>
  BY DEF IndInv, NodeInv, Execute
<1>2. /\ IsClosure(c) /\ IsSequence(spend.witness)
      /\ Leaves' = Leaves /\ (Leaves[spend.leaf])' = c
  BY <1>1, Knows, LeavesAreClosures, LeavesKept
<1>3. Len(Script(c)) \in 0 .. 8
  BY <1>1, Knows, LeafLength
<1>4. ip \in 1 .. Len(Script(c))
  <2>1. ip \in 0 .. 9 /\ ip <= Len(Script(c))
    BY <1>1 DEF TypeOK, Execute, LeafScript
  <2>2. ip # 0
    <3>1. ASSUME NEW d, Progress(d), IsClosure(d)
          PROVE  ip # 0
      <4>1. CASE d.kind = "condition" /\ InCondition
        BY <4>1 DEF InCondition
      <4>2. CASE d.kind = "csv" /\ InCSV(LockTimeToSequence(d.locktime))
        BY <4>2 DEF InCSV
      <4>3. CASE InMultisig(d.multisig, ip - Ahead(d))
        <5>1. ip - Ahead(d) >= 1 /\ ip - Ahead(d) \in Nat
          BY <3>1, <4>3, MultisigPlace DEF IsClosure
        <5>2. Ahead(d) \in Nat
          BY <3>1 DEF IsClosure, Ahead
        <5> QED  BY <5>1, <5>2
      <4> QED  BY <3>1, <4>1, <4>2, <4>3 DEF Progress
    <3> QED  BY <1>1, <1>2, <3>1
  <2> QED  BY <1>3, <2>1, <2>2
<1>5. CASE Executes(op) /\ stack' = After(op) /\ ip' = ip + 1 /\ verdict' = verdict
  <2>1. Step(Script(c)[ip])
    BY <1>1, <1>5 DEF Step, LeafScript
  <2>2. Progress(c)'
    <3>1. \A d : d = c => Progress(d)'
      BY <1>1, <1>2, <1>4, <2>1, LeafProgress
    <3> HIDE DEF c
    <3> QED  BY <1>2, <3>1 DEF c
  <2>3. Len(stack') <= Len(spend'.witness) + 2
    BY <1>1, <1>2, <2>2, ProgressBounds
  <2>4. ip' \in 0 .. 9
    <3>1. \A l \in 0 .. 8 : \A i \in 1 .. l : i + 1 \in 0 .. 9
      OBVIOUS
    <3> QED  BY <1>3, <1>4, <1>5, <3>1
  <2>5. TypeOK'
    BY <1>1, <1>5, <2>3, <2>4 DEF TypeOK
  <2>6. NodeInv'
    BY <1>1, <1>2, <1>5, <2>2 DEF NodeInv
  <2> QED  BY <2>5, <2>6 DEF IndInv
<1>6. CASE verdict' = "rejected" /\ UNCHANGED <<stack, ip>>
  BY <1>1, <1>6 DEF IndInv, TypeOK, NodeInv, Verdicts
<1> QED  BY <1>5, <1>6 DEF Execute

\* The node comes to the end of the leaf.
LEMMA FinishKeeps ==
    ASSUME IndInv, Finish
    PROVE  IndInv'
<1> DEFINE c == Leaves[spend.leaf]
<1>1. /\ TypeOK /\ verdict = "running" /\ Progress(c)
      /\ spend.leaf \in 1 .. Len(Leaves) /\ Mature(spend.sequence, age)
      /\ UNCHANGED <<contract, request, age, spend, claim, ip, stack>>
  BY DEF IndInv, NodeInv, Finish
<1>2. IsClosure(c) /\ Leaves' = Leaves
  BY <1>1, Knows, LeavesAreClosures, LeavesKept
<1>3. TypeOK' /\ verdict' \in {"accepted", "rejected"}
  BY <1>1 DEF TypeOK, Finish, Verdicts
<1>4. verdict' = "accepted" =>
         Unlocked(c) /\ SignedUpTo(c.multisig.keys, Len(c.multisig.keys))
  <2>1. ip \in Nat /\ ip > Len(Script(c))
    BY <1>1 DEF TypeOK, Finish, LeafScript
  <2>2. verdict' = "accepted" => Top(1) # Empty
    BY DEF Finish
  <2> QED  BY <1>1, <1>2, <2>1, <2>2, LeafEnd
<1>5. NodeInv'
  BY <1>1, <1>2, <1>3, <1>4 DEF NodeInv, Unlocked, Revealed, SignedUpTo, Signed
<1> QED  BY <1>3, <1>5 DEF IndInv

\* Nothing is forgotten while nothing happens.
LEMMA ProgressKept ==
    ASSUME UNCHANGED <<spend, stack, ip>>, NEW c, Progress(c)
    PROVE  Progress(c)'
<1>1. \A k : Below(k) => Below(k)'
  BY DEF Below
<1>2. Top(1)' = Top(1) /\ Top(2)' = Top(2)
  BY DEF Top
<1>3. \A ks, n : SignedUpTo(ks, n) => SignedUpTo(ks, n)'
  BY DEF SignedUpTo, Signed
<1>4. \A x, ks, n : Counts(x, ks, n) => Counts(x, ks, n)'
  BY <1>3 DEF Counts
<1>5. Revealed => Revealed'
  BY DEF Revealed
<1>6. \A x : IsHash(x) => IsHash(x)'
  BY DEF IsHash
<1>7. InCondition => InCondition'
  BY <1>1, <1>2, <1>5, <1>6 DEF InCondition
<1>8. \A n : InCSV(n) => InCSV(n)'
  BY <1>1, <1>2 DEF InCSV
<1>9. \A ks, q : InChecksig(ks, q) => InChecksig(ks, q)'
  BY <1>1, <1>2, <1>3 DEF InChecksig
<1>10. \A ks, q : InChecksigAdd(ks, q) => InChecksigAdd(ks, q)'
  BY <1>1, <1>2, <1>3, <1>4 DEF InChecksigAdd
<1>11. \A m, q : InMultisig(m, q) => InMultisig(m, q)'
  BY <1>9, <1>10 DEF InMultisig
<1>12. Unlocked(c) => Unlocked(c)'
  BY <1>5 DEF Unlocked
<1> QED  BY <1>7, <1>8, <1>11, <1>12 DEF Progress, Ahead

\* Every step keeps the invariant.
LEMMA NextInv == IndInv /\ [Next]_vars => IndInv'
<1> SUFFICES ASSUME IndInv, [Next]_vars
             PROVE  IndInv'
  OBVIOUS
<1>1. TypeOK
  BY DEF IndInv
<1>2. ASSUME NEW leaf \in 1 .. 4, NEW keys \in KeyLists, NEW preimage \in Preimages,
             ClaimEscrow(leaf, keys, preimage)
      PROVE  IndInv'
  BY <1>1, <1>2, ClaimEscrowKeeps
<1>3. ASSUME NEW leaf \in 1 .. 2, NEW key \in Parties, NEW preimage \in Preimages,
             SpendHTLC(leaf, key, preimage)
      PROVE  IndInv'
  BY <1>1, <1>3, SpendHTLCKeeps
<1>4. ASSUME NEW leaf \in 1 .. 4, NEW keys \in KeyLists, SpendClosure(leaf, keys)
      PROVE  IndInv'
  BY <1>1, <1>4, SpendClosureKeeps
<1>5. CASE SpendOtherwise
  BY <1>1, <1>5, SpendOtherwiseKeeps
<1>6. CASE Execute
  BY <1>6, ExecuteKeeps
<1>7. CASE Finish
  BY <1>7, FinishKeeps
<1>8. CASE UNCHANGED vars
  <2>1. Leaves' = Leaves
    BY <1>8, LeavesKept DEF vars
  <2>2. TypeOK'
    BY <1>1, <1>8 DEF vars, TypeOK
  <2>3. ASSUME NEW c, c = Leaves[spend.leaf], Progress(c)
        PROVE  Progress(Leaves[spend.leaf])'
    <3>1. Progress(c)' /\ c = (Leaves[spend.leaf])'
      BY <1>8, <2>1, <2>3, ProgressKept DEF vars
    <3> QED  BY <3>1
  <2>4. NodeInv'
    BY <1>8, <2>1, <2>3 DEF IndInv, NodeInv, vars, Unlocked, Revealed, SignedUpTo, Signed
  <2> QED  BY <2>2, <2>4 DEF IndInv
<1> QED  BY <1>2, <1>3, <1>4, <1>5, <1>6, <1>7, <1>8 DEF Next

\* What the node knows at each opcode, whatever witnesses and whatever numbers
\* of 32 bits others put into the input, for every timeout and every age.
THEOREM Invariant == Spec => []IndInv
BY InitInv, NextInv, PTL DEF Spec

\* The variables have their types, and no leaf is longer than eight opcodes.
THEOREM TypeCorrect == Spec => []TypeOK
<1>1. IndInv => TypeOK
  BY DEF IndInv
<1> QED  BY <1>1, Invariant, PTL
-----------------------------------------------------------------------------
(* Who has spent an output. *)

\* The keys of each leaf.
LEMMA KeysOfLeaves ==
    ASSUME KnownContract, NEW i \in 1 .. Len(Leaves)
    PROVE  Leaves[i].multisig.keys =
             IF contract = "htlc" THEN <<"service">>
             ELSE << <<"seller">>, <<"buyer">>,
                     <<"oracle", "seller">>, <<"oracle", "buyer">> >>[i]
<1>1. i \in 1 .. (IF contract = "htlc" THEN 2 ELSE 4)
  BY LeavesAreClosures
<1>2. CASE contract = "htlc"
  <2>1. Leaves = HTLCClosures(TimeoutBlocks(request))
    BY <1>2 DEF Leaves, Closures
  <2>2. i = 1 \/ i = 2
    BY <1>1, <1>2
  <2> QED  BY <1>2, <2>1, <2>2 DEF HTLCClosures, Condition, CSV, MultisigOf
<1>3. CASE contract # "htlc"
  <2>1. PICK t \in {"checksig", "checksigadd"} :
           Leaves = EscrowClosures(t, TimeoutBlocks(request))
    BY <1>3 DEF Leaves, Closures, KnownContract, Contracts
  <2>2. i = 1 \/ i = 2 \/ i = 3 \/ i = 4
    BY <1>1, <1>3
  <2>3. CASE i = 1
    BY <1>3, <2>1, <2>3 DEF EscrowClosures, Condition, MultisigOf
  <2>4. CASE i = 2
    BY <1>3, <2>1, <2>4 DEF EscrowClosures, CSV, MultisigOf
  <2>5. CASE i = 3
    BY <1>3, <2>1, <2>5 DEF EscrowClosures, Multisig, MultisigOf
  <2>6. CASE i = 4
    BY <1>3, <2>1, <2>6 DEF EscrowClosures, Multisig, MultisigOf
  <2> QED  BY <2>2, <2>3, <2>4, <2>5, <2>6
<1> QED  BY <1>2, <1>3

\* What an accepted spend has shown.
LEMMA AcceptedSpend ==
    ASSUME ShortTimeouts, IndInv, verdict = "accepted"
    PROVE  LET i  == spend.leaf
               ks == Leaves[i].multisig.keys
           IN  /\ i \in 1 .. Len(Leaves)
               /\ \A j \in 1 .. Len(ks) : Signed(ks[j])
               /\ i = 1 => Revealed
               /\ i = 2 => age >= request
<1> DEFINE i == spend.leaf
           c == Leaves[i]
<1>1. /\ TypeOK /\ i \in 1 .. Len(Leaves) /\ Mature(spend.sequence, age)
      /\ Unlocked(c) /\ SignedUpTo(c.multisig.keys, Len(c.multisig.keys))
  BY DEF IndInv, NodeInv
<1>2. /\ c.kind = IF i = 1 THEN "condition" ELSE IF i = 2 THEN "csv" ELSE "multisig"
      /\ i = 2 => c.locktime = BlockLocktime(TimeoutBlocks(request))
  BY <1>1, Knows, LeavesAreClosures
<1>3. i = 1 => Revealed
  BY <1>1, <1>2 DEF Unlocked
<1>4. ASSUME i = 2
      PROVE  age >= request
  <2>1. /\ request \in Nat /\ age \in Nat /\ request < Mask
        /\ spend.sequence \in Nat
    <3>1. <<request, age>> \in Cases /\ spend.sequence \in 0 .. Word - 1
      BY <1>1 DEF TypeOK
    <3> QED  BY <3>1, EscrowScriptAssumption DEF ShortTimeouts
  <2>2. LockTimeToSequence(c.locktime) = request
    BY <1>2, <1>4, <2>1, BlocksHaveNoFlag
       DEF LockTimeToSequence, BlockLocktime, TimeoutBlocks
  <2>3. CheckSequence(request, spend.sequence)
    BY <1>1, <1>2, <1>4, <2>2 DEF Unlocked
  <2> QED  BY <1>1, <2>1, <2>3, NotEarly
<1> QED  BY <1>1, <1>3, <1>4 DEF SignedUpTo

\* Whatever the leaf, the witness and the sequence, and whoever made them, the
\* seller is paid with the secret or the oracle, and the buyer with the oracle
\* or the timeout that was asked for; an HTLC is the service's alone.
THEOREM NobodySpendsAlone ==
    ASSUME ShortTimeouts
    PROVE  Spec => []SpentByConsent
<1>1. ASSUME IndInv, verdict = "accepted"
      PROVE  IF contract # "htlc"
             THEN \/ Signed("seller") /\ (Revealed \/ Signed("oracle"))
                  \/ Signed("buyer") /\ (Signed("oracle") \/ age >= request)
             ELSE Signed("service") /\ (Revealed \/ age >= request)
  <2> DEFINE i  == spend.leaf
             ks == Leaves[i].multisig.keys
  <2>1. /\ i \in 1 .. Len(Leaves)
        /\ \A j \in 1 .. Len(ks) : Signed(ks[j])
        /\ i = 1 => Revealed
        /\ i = 2 => age >= request
    BY <1>1, AcceptedSpend
  <2>2. KnownContract
    BY <1>1, Knows DEF IndInv
  <2>3. /\ i \in 1 .. (IF contract = "htlc" THEN 2 ELSE 4)
        /\ ks = IF contract = "htlc" THEN <<"service">>
                ELSE << <<"seller">>, <<"buyer">>,
                        <<"oracle", "seller">>, <<"oracle", "buyer">> >>[i]
    BY <2>1, <2>2, KeysOfLeaves, LeavesAreClosures
  <2> HIDE DEF i, ks
  <2>4. CASE contract = "htlc"
    <3>1. ks = <<"service">> /\ (i = 1 \/ i = 2)
      BY <2>3, <2>4
    <3> QED  BY <2>1, <2>4, <3>1
  <2>5. CASE contract # "htlc"
    <3>1. i = 1 \/ i = 2 \/ i = 3 \/ i = 4
      BY <2>3, <2>5
    <3>2. CASE i = 1
      BY <2>1, <2>3, <2>5, <3>2
    <3>3. CASE i = 2
      BY <2>1, <2>3, <2>5, <3>3
    <3>4. CASE i = 3
      BY <2>1, <2>3, <2>5, <3>4
    <3>5. CASE i = 4
      BY <2>1, <2>3, <2>5, <3>5
    <3> QED  BY <3>1, <3>2, <3>3, <3>4, <3>5
  <2> QED  BY <2>4, <2>5
<1>2. IndInv => SpentByConsent
  BY <1>1 DEF SpentByConsent
<1> QED  BY <1>2, Invariant, PTL

\* The buyer reclaims no escrow before the timeout that was asked for, if it
\* has no more bits than a locktime.
THEOREM TimeoutIsKept ==
    ASSUME ShortTimeouts
    PROVE  Spec => []NotReclaimedEarly
<1>1. IndInv => NotReclaimedEarly
  BY AcceptedSpend DEF NotReclaimedEarly
<1> QED  BY <1>1, Invariant, PTL
-----------------------------------------------------------------------------
(* Reading a leaf back. *)

\* Two sequences with the same items are the same.
LEMMA SameItems ==
    ASSUME NEW s, NEW t, IsSequence(s), IsSequence(t), Len(s) = Len(t),
           \A i \in 1 .. Len(t) : s[i] = t[i]
    PROVE  s = t
BY DEF IsSequence

\* The last items of a sequence.
LEMMA LastItems ==
    ASSUME NEW s, NEW t, IsSequence(s), IsSequence(t), NEW a \in Nat,
           Len(s) = a + Len(t), \A i \in 1 .. Len(t) : s[a + i] = t[i]
    PROVE  From(s, a + 1) = t
<1> DEFINE u == SubSeq(s, a + 1, Len(s))
<1>1. Len(s) \in Nat /\ Len(t) \in Nat
  BY DEF IsSequence
<1>2. \A i \in a + 1 .. Len(s) : s[i] \in Items(s)
  BY <1>1 DEF Items
<1>3. /\ u \in Seq(Items(s))
      /\ Len(u) = IF a + 1 <= Len(s) THEN Len(s) - (a + 1) + 1 ELSE 0
      /\ \A i \in 1 .. Len(s) - (a + 1) + 1 : u[i] = s[a + 1 + i - 1]
  BY <1>1, <1>2, SubSeqProperties
<1> HIDE DEF u
<1>4. IsSequence(u) /\ Len(u) = Len(t)
  BY <1>1, <1>3, IsSequenceOf
<1>5. ASSUME NEW i \in 1 .. Len(t)
      PROVE  u[i] = t[i]
  <2>1. i \in 1 .. Len(s) - (a + 1) + 1 /\ a + 1 + i - 1 = a + i
    BY <1>1
  <2> QED  BY <1>3, <2>1
<1>6. u = t
  BY <1>4, <1>5, SameItems
<1> QED  BY <1>6 DEF From, u

\* Pairs of a key and an opcode give the keys.
LEMMA PairsDecode ==
    ASSUME NEW ks, IsSequence(ks), Len(ks) >= 1, NEW s, IsSequence(s),
           Len(s) = 2 * Len(ks),
           \A n \in 0 .. Len(ks) - 1 : s[2 * n + 1] = Push(Key(ks[n + 1]))
    PROVE  ArePairs(s) /\ KeysOf(s) = ks
<1> DEFINE N == Len(ks)
<1>1. N \in Nat /\ N >= 1
  BY DEF IsSequence
<1>2. (2 * N) % 2 = 0 /\ (2 * N) \div 2 = N /\ 2 * N # 0
  BY <1>1
<1>3. s # << >>
  <2>1. Len(s) # 0
    BY <1>2
  <2> QED  BY <2>1, PairIsSequence
<1>4. ASSUME NEW i \in 1 .. Len(s), i % 2 = 1
      PROVE  s[i][1] = "PUSH" /\ s[i][2][1] = "key"
  <2>1. (i - 1) \div 2 \in 0 .. N - 1 /\ 2 * ((i - 1) \div 2) + 1 = i
    <3>1. i \in 1 .. 2 * N
      OBVIOUS
    <3> HIDE DEF N
    <3> QED  BY <1>1, <1>4, <3>1
  <2>2. s[i] = Push(Key(ks[(i - 1) \div 2 + 1]))
    BY <2>1
  <2> QED  BY <2>2 DEF Push, Key
<1>5. ArePairs(s)
  BY <1>2, <1>3, <1>4 DEF ArePairs
<1>6. ASSUME NEW i \in 1 .. N
      PROVE  s[2 * i - 1][2][2] = ks[i]
  <2>1. i - 1 \in 0 .. N - 1 /\ 2 * (i - 1) + 1 = 2 * i - 1 /\ (i - 1) + 1 = i
    <3> HIDE DEF N
    <3> QED  BY <1>1
  <2>2. s[2 * (i - 1) + 1] = Push(Key(ks[(i - 1) + 1]))
    BY <2>1
  <2> QED  BY <2>1, <2>2 DEF Push, Key
<1>7. KeysOf(s) = ks
  <2>1. KeysOf(s) = [i \in 1 .. N |-> s[2 * i - 1][2][2]]
    BY <1>2 DEF KeysOf
  <2>2. ks = [i \in 1 .. N |-> ks[i]]
    BY DEF IsSequence
  <2> QED  BY <1>6, <2>1, <2>2
<1> QED  BY <1>5, <1>7

\* The first form of a multisig is read back.
LEMMA ChecksigDecodes ==
    ASSUME NEW ks, IsSequence(ks), Len(ks) >= 1
    PROVE  /\ IsChecksig(ChecksigScript(ks))
           /\ KeysOf(ChecksigScript(ks)) = ks
<1> DEFINE s == ChecksigScript(ks)
<1>1. /\ IsSequence(s) /\ Len(s) = 2 * Len(ks)
      /\ \A n \in 0 .. Len(ks) - 1 : s[2 * n + 1] = Push(Key(ks[n + 1]))
  BY ChecksigItems
<1> HIDE DEF s
<1>2. ArePairs(s) /\ KeysOf(s) = ks
  BY <1>1, PairsDecode
<1> QED  BY <1>2 DEF IsChecksig, s

\* The number of keys has an opcode of its own up to 16.
LEMMA ChecksigAddDecodes ==
    ASSUME NEW ks, IsSequence(ks), Len(ks) >= 1, Len(ks) <= 16
    PROVE  LET s == ChecksigAddScript(ks)
           IN  ~IsChecksig(s) /\ IsChecksigAdd(s) /\ KeysOf(Sum(s)) = ks
<1> DEFINE s == ChecksigAddScript(ks)
           N == Len(ks)
<1>1. N \in Nat /\ N >= 1 /\ N <= 16
  BY DEF IsSequence
<1>2. /\ IsSequence(s) /\ Len(s) = 2 * N + 2
      /\ \A n \in 0 .. N - 1 : s[2 * n + 1] = Push(Key(ks[n + 1]))
      /\ s[2 * N + 1] = PushOf(N) /\ s[2 * N + 2] = <<"NUMEQUAL">>
  BY ChecksigAddItems
<1> HIDE DEF s
<1>3. ~IsChecksig(s)
  <2>1. SUFFICES ASSUME ArePairs(s), s = ChecksigScript(KeysOf(s))
                 PROVE  FALSE
    BY DEF IsChecksig
  <2> DEFINE ls == KeysOf(s)
  <2>2. IsSequence(ls) /\ Len(ls) = N + 1
    <3>1. Len(s) \div 2 = N + 1
      BY <1>1, <1>2
    <3>2. ls = [i \in 1 .. N + 1 |-> ls[i]]
      BY <3>1 DEF KeysOf
    <3> HIDE DEF ls
    <3> QED  BY <1>1, <3>2, FunctionIsSequence
  <2> HIDE DEF ls
  <2>3. N \in 0 .. Len(ls) - 1 /\ N + 1 = Len(ls)
    BY <1>1, <2>2
  <2>4. s[2 * N + 2] = <<"CHECKSIG">>
    BY <2>1, <2>2, <2>3, ChecksigItems DEF ls
  <2> QED  BY <1>2, <2>4
<1>4. Sum(s) = SubSeq(s, 1, 2 * N)
  BY <1>1, <1>2 DEF Sum
<1>5. /\ IsSequence(Sum(s)) /\ Len(Sum(s)) = 2 * N
      /\ \A i \in 1 .. 2 * N : Sum(s)[i] = s[i]
  <2>1. 2 * N \in 0 .. Len(s)
    BY <1>1, <1>2
  <2> QED  BY <1>2, <1>4, <2>1, FirstItems
<1>6. \A n \in 0 .. N - 1 : Sum(s)[2 * n + 1] = Push(Key(ks[n + 1]))
  <2>1. \A n \in 0 .. N - 1 : 2 * n + 1 \in 1 .. 2 * N
    BY <1>1
  <2> QED  BY <1>2, <1>5, <2>1
<1>7. ArePairs(Sum(s)) /\ KeysOf(Sum(s)) = ks
  BY <1>1, <1>5, <1>6, PairsDecode
<1>8. Len(s) > 2 /\ s[Len(s) - 1][1] = "SMALLINT"
  <2>1. Len(s) - 1 = 2 * N + 1 /\ Len(s) > 2
    BY <1>1, <1>2
  <2> QED  BY <1>1, <1>2, <2>1 DEF PushOf
<1>9. s = ChecksigAddScript(KeysOf(Sum(s)))
  BY <1>7 DEF s
<1> QED  BY <1>3, <1>7, <1>8, <1>9 DEF IsChecksigAdd, s

\* A multisig is read back in the form it was made in.
LEMMA MultisigDecodes ==
    ASSUME NEW ks, IsSequence(ks), Len(ks) >= 1, Len(ks) <= 16,
           NEW t \in {"checksig", "checksigadd"}
    PROVE  LET s == MultisigScript(MultisigOf(t, ks))
           IN  IsMultisig(s) /\ DecodeMultisig(s) = MultisigOf(t, ks)
<1>1. CASE t = "checksig"
  <2>1. MultisigScript(MultisigOf(t, ks)) = ChecksigScript(ks)
    BY <1>1 DEF MultisigScript, MultisigOf
  <2> QED  BY <1>1, <2>1, ChecksigDecodes DEF IsMultisig, DecodeMultisig
<1>2. CASE t = "checksigadd"
  <2>1. MultisigScript(MultisigOf(t, ks)) = ChecksigAddScript(ks)
    BY <1>2 DEF MultisigScript, MultisigOf
  <2> QED  BY <1>2, <2>1, ChecksigAddDecodes DEF IsMultisig, DecodeMultisig
<1> QED  BY <1>1, <1>2

\* What a leaf needs in order to be read back.
IsReadable(c) ==
    /\ IsClosure(c)
    /\ Len(c.multisig.keys) >= 1 /\ Len(c.multisig.keys) <= 16
    /\ c.multisig = MultisigOf(c.multisig.type, c.multisig.keys)

\* So is the multisig at the end of a leaf.
LEMMA MultisigAtEnd ==
    ASSUME NEW c, IsReadable(c)
    PROVE  LET m == From(Script(c), Ahead(c) + 1)
           IN  IsMultisig(m) /\ DecodeMultisig(m) = c.multisig
<1> DEFINE s == Script(c)
           m == MultisigScript(c.multisig)
<1>1. IsSequence(m)
  BY MultisigItems DEF IsReadable, IsClosure
<1>2. /\ IsSequence(s) /\ Len(s) = Ahead(c) + Len(m)
      /\ \A i \in 1 .. Len(m) : s[Ahead(c) + i] = m[i]
  BY LeafItems DEF IsReadable
<1>3. Ahead(c) \in Nat
  BY DEF Ahead, IsReadable, IsClosure
<1>4. IsMultisig(m) /\ DecodeMultisig(m) = c.multisig
  BY MultisigDecodes DEF IsReadable, IsClosure
<1> HIDE DEF s, m
<1>5. From(s, Ahead(c) + 1) = m
  BY <1>1, <1>2, <1>3, LastItems
<1> QED  BY <1>4, <1>5 DEF s

\* A timeout leaf is read back if its number is.
LEMMA CSVDecodes ==
    ASSUME NEW m, NEW l, IsReadable(CSV(m, l)),
           CanDecode(PushOf(LockTimeToSequence(l))),
           BIP68DecodeSequence(PushOf(LockTimeToSequence(l))) = l
    PROVE  DecodeClosure(Script(CSV(m, l))) = CSV(m, l)
<1> DEFINE c == CSV(m, l)
           s == Script(c)
<1>1. c.kind = "csv" /\ c.multisig = m /\ c.locktime = l
  BY DEF CSV
<1> HIDE DEF c
<1>2. /\ s[1] = PushOf(LockTimeToSequence(l)) /\ s[2] = <<"CSV">> /\ s[3] = <<"DROP">>
      /\ Len(s) = 3 + Len(MultisigScript(m))
  BY <1>1, LeafItems DEF IsReadable, Ahead, c
<1>3. IsMultisig(From(s, 4)) /\ DecodeMultisig(From(s, 4)) = m
  BY <1>1, MultisigAtEnd DEF Ahead, c
<1>4. Len(s) > 3
  <2>1. \/ Len(MultisigScript(m)) = 2 * Len(m.keys)
        \/ Len(MultisigScript(m)) = 2 * Len(m.keys) + 2
    BY <1>1, MultisigItems DEF IsReadable, IsClosure, c
  <2>2. Len(m.keys) \in Nat /\ Len(m.keys) >= 1
    BY <1>1 DEF IsReadable, IsClosure, IsSequence, c
  <2> QED  BY <1>2, <2>1, <2>2
<1>5. s[1][1] \in {"SMALLINT", "NUMBER"}
  BY <1>2 DEF PushOf
<1> HIDE DEF s
<1>6. IsCSV(s)
  BY <1>2, <1>3, <1>4, <1>5 DEF IsCSV
<1> QED  BY <1>2, <1>3, <1>6 DEF DecodeClosure, s, c

\* A leaf that is only a multisig is read back.
LEMMA PlainMultisigDecodes ==
    ASSUME NEW m, IsReadable(Multisig(m))
    PROVE  DecodeClosure(Script(Multisig(m))) = Multisig(m)
<1> DEFINE c == Multisig(m)
           s == Script(c)
<1>1. c.kind = "multisig" /\ c.multisig = m
  BY DEF Multisig
<1> HIDE DEF c
<1>2. /\ IsSequence(s) /\ Ahead(c) = 0
      /\ Len(s) = 0 + Len(MultisigScript(m))
      /\ \A i \in 1 .. Len(MultisigScript(m)) : s[0 + i] = MultisigScript(m)[i]
  BY <1>1, LeafItems DEF IsReadable, Ahead, c
<1>3. IsSequence(MultisigScript(m))
  BY <1>1, MultisigItems DEF IsReadable, IsClosure, c
<1>4. s = MultisigScript(m)
  <2>1. Len(MultisigScript(m)) \in Nat
    BY <1>3 DEF IsSequence
  <2> HIDE DEF s
  <2>2. Len(s) = Len(MultisigScript(m))
          /\ \A i \in 1 .. Len(MultisigScript(m)) : s[i] = MultisigScript(m)[i]
    BY <1>2, <2>1
  <2> QED  BY <1>2, <1>3, <2>2, SameItems
<1>5. IsMultisig(s) /\ DecodeMultisig(s) = m
  BY <1>1, <1>4, MultisigDecodes DEF IsReadable, IsClosure, c
<1>6. s[2] # <<"CSV">>
  <2>1. IsSequence(m.keys) /\ Len(m.keys) \in Nat /\ Len(m.keys) >= 1
    BY <1>1 DEF IsReadable, IsClosure, IsSequence, c
  <2>2. 0 \in 0 .. Len(m.keys) - 1 /\ 2 * 0 + 2 = 2
    BY <2>1
  <2>3. ChecksigScript(m.keys)[2][1] \in {"CHECKSIG", "CHECKSIGVERIFY"}
    <3>1. ChecksigScript(m.keys)[2 * 0 + 2]
            = << IF 0 + 1 = Len(m.keys) THEN "CHECKSIG" ELSE "CHECKSIGVERIFY" >>
      BY <2>1, <2>2, ChecksigItems
    <3> QED  BY <2>2, <3>1
  <2>4. ChecksigAddScript(m.keys)[2][1] = "CHECKSIG"
    <3>1. ChecksigAddScript(m.keys)[2 * 0 + 2]
            = << IF 0 = 0 THEN "CHECKSIG" ELSE "CHECKSIGADD" >>
      BY <2>1, <2>2, ChecksigAddItems
    <3> QED  BY <2>2, <3>1
  <2>5. MultisigScript(m)[2][1] # "CSV"
    BY <2>3, <2>4 DEF MultisigScript
  <2> QED  BY <1>4, <2>5
<1> HIDE DEF s
<1>7. ~IsCSV(s)
  BY <1>6 DEF IsCSV
<1> QED  BY <1>5, <1>7 DEF DecodeClosure, s, c

\* The leaf with the secret is read back.
LEMMA ConditionDecodes ==
    ASSUME NEW m, IsReadable(Condition(m, HashIs(Data("secret"))))
    PROVE  DecodeClosure(Script(Condition(m, HashIs(Data("secret")))))
             = Condition(m, HashIs(Data("secret")))
<1> DEFINE h == HashIs(Data("secret"))
           c == Condition(m, h)
           s == Script(c)
<1>1. c.kind = "condition" /\ c.multisig = m /\ c.condition = h
  BY DEF Condition
<1> HIDE DEF c
<1>2. /\ IsSequence(s)
      /\ Len(s) = 4 + Len(MultisigScript(m))
      /\ s[1] = <<"SHA256">> /\ s[2] = Push(Sha256(Data("secret")))
      /\ s[3] = <<"EQUAL">> /\ s[4] = <<"VERIFY">>
  BY <1>1, LeafItems DEF IsReadable, Ahead, c
<1>3. IsMultisig(From(s, 4 + 1)) /\ DecodeMultisig(From(s, 4 + 1)) = m
  BY <1>1, MultisigAtEnd DEF Ahead, c
<1>4. Len(s) \in Nat /\ Len(s) >= 6
  <2>1. \/ Len(MultisigScript(m)) = 2 * Len(m.keys)
        \/ Len(MultisigScript(m)) = 2 * Len(m.keys) + 2
    BY <1>1, MultisigItems DEF IsReadable, IsClosure, c
  <2>2. Len(m.keys) \in Nat /\ Len(m.keys) >= 1
    BY <1>1 DEF IsReadable, IsClosure, IsSequence, c
  <2> QED  BY <1>2, <2>1, <2>2
<1> HIDE DEF s
<1>5. /\ s[1][1] = "SHA256" /\ s[2][1] = "PUSH" /\ s[3][1] = "EQUAL"
      /\ s[4][1] = "VERIFY"
  BY <1>2 DEF Push
<1>6. ~IsCSV(s)
  BY <1>5 DEF IsCSV
<1>7. ~IsChecksig(s)
  <2>1. 1 \in 1 .. Len(s) /\ 1 % 2 = 1
    BY <1>4
  <2> QED  BY <1>5, <2>1 DEF IsChecksig, ArePairs
<1>8. ~IsChecksigAdd(s)
  <2>1. Len(s) - 2 \in 0 .. Len(s) /\ 1 \in 1 .. Len(s) - 2 /\ 1 % 2 = 1
    BY <1>4
  <2>2. Len(Sum(s)) = Len(s) - 2 /\ Sum(s)[1] = s[1]
    BY <1>2, <2>1, FirstItems DEF Sum
  <2>3. ~ArePairs(Sum(s))
    BY <1>5, <2>1, <2>2 DEF ArePairs
  <2> QED  BY <2>3 DEF IsChecksigAdd
<1>9. FirstVerify(s) = 4 /\ Verifies(s) # {}
  <2>1. 4 \in Verifies(s)
    BY <1>2, <1>4 DEF Verifies
  <2>2. ASSUME NEW i \in Verifies(s)
        PROVE  4 <= i
    <3>1. i \in Nat /\ i >= 1 /\ s[i][1] = "VERIFY"
      BY <1>4 DEF Verifies
    <3>2. i # 1 /\ i # 2 /\ i # 3
      BY <1>5, <3>1
    <3> QED  BY <3>1, <3>2
  <2>3. ASSUME NEW i \in Verifies(s), \A j \in Verifies(s) : i <= j
        PROVE  i = 4
    <3>1. i \in Nat
      BY <1>4 DEF Verifies
    <3> QED  BY <2>1, <2>2, <2>3, <3>1
  <2> QED  BY <2>1, <2>2, <2>3 DEF FirstVerify
<1>10. SubSeq(s, 1, 3) = h
  <2>1. 3 \in 0 .. Len(s)
    BY <1>4
  <2>2. /\ IsSequence(SubSeq(s, 1, 3)) /\ Len(SubSeq(s, 1, 3)) = 3
        /\ \A i \in 1 .. 3 : SubSeq(s, 1, 3)[i] = s[i]
    BY <1>2, <2>1, FirstItems
  <2>3. /\ IsSequence(h) /\ Len(h) = 3
        /\ h[1] = s[1] /\ h[2] = s[2] /\ h[3] = s[3]
    BY <1>2 DEF HashIs, IsSequence
  <2> HIDE DEF h
  <2>4. \A i \in 1 .. 3 : s[i] = h[i]
    BY <2>3
  <2> QED  BY <2>2, <2>3, <2>4, SameItems
<1>11. IsCondition(s)
  BY <1>3, <1>9 DEF IsCondition
<1>12. DecodeClosure(s) = Condition(DecodeMultisig(From(s, FirstVerify(s) + 1)),
                                   SubSeq(s, 1, FirstVerify(s) - 1))
  BY <1>6, <1>7, <1>8, <1>11 DEF DecodeClosure, IsMultisig
<1>13. FirstVerify(s) - 1 = 3
  BY <1>9
<1> QED  BY <1>3, <1>9, <1>10, <1>12, <1>13 DEF s, c

\* Every leaf of every contract is read back from its script as it was made,
\* if the timeout is no opcode and has no more bits than a locktime.
THEOREM DecodingInverts ==
    ASSUME ReadableTimeouts
    PROVE  Spec => []LeavesDecode
<1>1. ASSUME TypeOK, NEW i \in 1 .. Len(Leaves)
      PROVE  DecodeClosure(Script(Leaves[i])) = Leaves[i]
  <2> DEFINE c == Leaves[i]
  <2>1. KnownContract
    BY <1>1, Knows
  <2>2. /\ IsClosure(c)
        /\ Len(c.multisig.keys) = IF i \in {3, 4} THEN 2 ELSE 1
        /\ i \in 1 .. (IF contract = "htlc" THEN 2 ELSE 4)
    BY <2>1, LeavesAreClosures
  <2>3. request \in Nat /\ request < Mask /\ request # 0 /\ request \notin 81 .. 96
    <3>1. <<request, age>> \in Cases
      BY <1>1 DEF TypeOK
    <3> QED  BY <3>1, EscrowScriptAssumption DEF ReadableTimeouts, ShortTimeouts
  <2>4. TimeoutBlocks(request) = request
    BY <2>3, BlocksHaveNoFlag DEF TimeoutBlocks
  <2>5. \E t, ks : \/ i = 1 /\ c = Condition(MultisigOf(t, ks), HashIs(Data("secret")))
                   \/ i = 2 /\ c = CSV(MultisigOf(t, ks), BlockLocktime(request))
                   \/ i \in {3, 4} /\ c = Multisig(MultisigOf(t, ks))
    <3>1. CASE contract = "htlc"
      <4>1. Leaves = HTLCClosures(request)
        BY <2>4, <3>1 DEF Leaves, Closures
      <4>2. i = 1 \/ i = 2
        BY <2>2, <3>1
      <4> QED  BY <4>1, <4>2 DEF HTLCClosures
    <3>2. CASE contract # "htlc"
      <4>1. PICK t : Leaves = EscrowClosures(t, request)
        BY <2>1, <2>4, <3>2 DEF Leaves, Closures, KnownContract, Contracts
      <4>2. i = 1 \/ i = 2 \/ i = 3 \/ i = 4
        BY <2>2, <3>2
      <4>3. CASE i = 1
        BY <4>1, <4>3 DEF EscrowClosures
      <4>4. CASE i = 2
        BY <4>1, <4>4 DEF EscrowClosures
      <4>5. CASE i = 3
        BY <4>1, <4>5 DEF EscrowClosures
      <4>6. CASE i = 4
        BY <4>1, <4>6 DEF EscrowClosures
      <4> QED  BY <4>2, <4>3, <4>4, <4>5, <4>6
    <3> QED  BY <3>1, <3>2
  <2>6. PICK t, ks : \/ i = 1 /\ c = Condition(MultisigOf(t, ks), HashIs(Data("secret")))
                     \/ i = 2 /\ c = CSV(MultisigOf(t, ks), BlockLocktime(request))
                     \/ i \in {3, 4} /\ c = Multisig(MultisigOf(t, ks))
    BY <2>5
  <2> HIDE DEF c
  <2>7. IsReadable(c)
    <3>1. c.multisig = MultisigOf(t, ks)
      BY <2>6 DEF Condition, CSV, Multisig
    <3>2. c.multisig = MultisigOf(c.multisig.type, c.multisig.keys)
      BY <3>1 DEF MultisigOf
    <3> QED  BY <2>2, <3>2 DEF IsReadable
  <2>8. LockTimeToSequence(BlockLocktime(request)) = request
    BY DEF LockTimeToSequence, BlockLocktime
  <2>9. DecodeClosure(Script(c)) = c
    <3>1. CASE c = Condition(MultisigOf(t, ks), HashIs(Data("secret")))
      BY <2>7, <3>1, ConditionDecodes
    <3>2. CASE c = CSV(MultisigOf(t, ks), BlockLocktime(request))
      BY <2>3, <2>7, <2>8, <3>2, BlocksDecode, CSVDecodes
    <3>3. CASE c = Multisig(MultisigOf(t, ks))
      BY <2>7, <3>3, PlainMultisigDecodes
    <3> QED  BY <2>6, <3>1, <3>2, <3>3
  <2> QED  BY <2>9 DEF c
<1>2. TypeOK => LeavesDecode
  BY <1>1 DEF LeavesDecode
<1> QED  BY <1>2, TypeCorrect, PTL
=============================================================================
