---------------------------- MODULE EntitledProofs ----------------------------
(***************************************************************************)
(* Whoever is entitled is paid: the node rejects no spend that this code   *)
(* built for the keys of a leaf, with the secret where it is asked for and *)
(* at the timeout or after it, for every timeout that fits a locktime.     *)
(*                                                                         *)
(* EscrowScriptProofs shows what a leaf demands; here is shown that the    *)
(* code's witnesses have it in the order in which the opcodes take it, and *)
(* that nothing is left over at the end of the leaf.                       *)
(***************************************************************************)
EXTENDS EscrowScriptProofs

\* The node executes op if it can.
Runs(op) == /\ spend' = spend
            /\ Executes(op) => stack' = After(op) /\ ip' = ip + 1

\* An item is pushed on what the stack holds.
LEMMA PushHolds ==
    ASSUME NEW l \in Nat, NEW k \in Nat, Holds(l, k), NEW x,
           stack' = Append(stack, x), spend' = spend
    PROVE  /\ Holds(l, k + 1)' /\ Top(1)' = x
           /\ l + k >= 1 => Top(2)' = Top(1)
<1>1. Below(k + 1)' /\ Top(1)' = x /\ (Len(stack) >= 1 => Top(2)' = Top(1))
  BY PushKeeps DEF Holds
<1>2. Len(stack') = Len(stack) + 1
  BY AppendItems DEF Holds, Below
<1> QED  BY <1>1, <1>2 DEF Holds

\* Items are taken off.
LEMMA DropHolds ==
    ASSUME NEW l \in Nat, NEW k \in Nat, Holds(l, k),
           NEW n \in Nat, k <= n, n <= l + k, stack' = Without(n), spend' = spend
    PROVE  Holds(l + k - n, 0)'
<1>1. Len(stack) = l + k /\ Below(k)
  BY DEF Holds
<1>2. Below(0)'
  BY <1>1, DropKeeps
<1>3. Len(stack') = l + k - n
  BY <1>1, WithoutItems
<1> QED  BY <1>2, <1>3 DEF Holds

\* Items are taken off, and one is left in their place.
LEMMA ReplaceHolds ==
    ASSUME NEW l \in Nat, NEW k \in Nat, Holds(l, k),
           NEW n \in Nat, k <= n, n <= l + k,
           NEW x, stack' = Append(Without(n), x), spend' = spend
    PROVE  Holds(l + k - n, 1)' /\ Top(1)' = x
<1>1. Len(stack) = l + k /\ Below(k)
  BY DEF Holds
<1>2. Below(1)' /\ Top(1)' = x
  BY <1>1, ReplaceKeeps
<1>3. IsSequence(Without(n)) /\ Len(Without(n)) = l + k - n
  BY <1>1, WithoutItems
<1>4. Len(stack') = l + k - n + 1
  BY <1>3, AppendItems
<1> QED  BY <1>2, <1>4 DEF Holds

\* Below the top k is the last item that is left of the witness.
LEMMA NextItem ==
    ASSUME NEW l \in Nat, NEW k \in Nat, Holds(l, k), l >= 1
    PROVE  Top(k + 1) = spend.witness[l]
<1>1. Len(stack) + 1 - (k + 1) = l /\ l \in 1 .. Len(stack) - k
  BY DEF Holds
<1> QED  BY <1>1 DEF Holds, Below, Top
-----------------------------------------------------------------------------
(* Each opcode goes on when it finds what it needs. *)

\* A push of data.
LEMMA PushRuns ==
    ASSUME NEW l \in Nat, NEW k \in Nat, Holds(l, k), NEW x, Runs(Push(x))
    PROVE  /\ Step(Push(x))
           /\ Holds(l, k + 1)' /\ Top(1)' = x
           /\ l + k >= 1 => Top(2)' = Top(1)
<1>1. Executes(Push(x))
  BY DEF Executes, Operands, Succeeds, Push, Holds
<1>2. Step(Push(x)) /\ stack' = Append(stack, x) /\ spend' = spend
  BY <1>1 DEF Step, Runs, After, Push
<1> QED  BY <1>2, PushHolds

\* A push of a number.
LEMMA NumberRuns ==
    ASSUME NEW l \in Nat, NEW k \in Nat, Holds(l, k), NEW n, Runs(PushOf(n))
    PROVE  /\ Step(PushOf(n))
           /\ Holds(l, k + 1)' /\ Top(1)' = Number(n)
           /\ l + k >= 1 => Top(2)' = Top(1)
<1>1. Executes(PushOf(n))
  BY DEF Executes, Operands, Succeeds, PushOf, Holds
<1>2. Step(PushOf(n)) /\ stack' = Append(stack, Number(n)) /\ spend' = spend
  BY <1>1 DEF Step, Runs, After, PushOf
<1> QED  BY <1>2, PushHolds

\* SHA256 of the last item that is left of the witness.
LEMMA HashRuns ==
    ASSUME NEW l \in Nat, Holds(l + 1, 0), NEW x, spend.witness[l + 1] = x,
           Runs(<<"SHA256">>)
    PROVE  Step(<<"SHA256">>) /\ Holds(l, 1)' /\ Top(1)' = Sha256(x)
<1>1. Top(0 + 1) = x /\ Len(stack) = l + 1 + 0
  BY NextItem DEF Holds
<1>2. Executes(<<"SHA256">>)
  BY <1>1 DEF Executes, Operands, Succeeds
<1>3. /\ Step(<<"SHA256">>) /\ spend' = spend
      /\ stack' = Append(Without(1), Sha256(Top(1)))
  BY <1>2 DEF Step, Runs, After
<1>4. Holds(l + 1 + 0 - 1, 1)' /\ Top(1)' = Sha256(Top(1))
  BY <1>3, ReplaceHolds
<1>5. l + 1 + 0 - 1 = l
  OBVIOUS
<1> QED  BY <1>1, <1>3, <1>4, <1>5

\* EQUAL and NUMEQUAL of two items that are the same.
LEMMA EqualRuns ==
    ASSUME NEW l \in Nat, Holds(l, 2), Top(2) = Top(1),
           NEW name \in {"EQUAL", "NUMEQUAL"}, Runs(<<name>>)
    PROVE  Step(<<name>>) /\ Holds(l, 1)' /\ Top(1)' = True
<1>1. Executes(<<name>>)
  BY DEF Executes, Operands, Succeeds, Holds
<1>2. Step(<<name>>) /\ spend' = spend /\ stack' = Append(Without(2), True)
  BY <1>1 DEF Step, Runs, After, Truth
<1>3. Holds(l + 2 - 2, 1)' /\ Top(1)' = True
  BY <1>2, ReplaceHolds
<1>4. l + 2 - 2 = l
  OBVIOUS
<1> QED  BY <1>2, <1>3, <1>4

\* VERIFY of something true.
LEMMA VerifyRuns ==
    ASSUME NEW l \in Nat, Holds(l, 1), Top(1) = True, Runs(<<"VERIFY">>)
    PROVE  Step(<<"VERIFY">>) /\ Holds(l, 0)'
<1>1. Executes(<<"VERIFY">>)
  BY DEF Executes, Operands, Succeeds, Holds, True, Empty, Number
<1>2. Step(<<"VERIFY">>) /\ spend' = spend /\ stack' = Without(1)
  BY <1>1 DEF Step, Runs, After
<1>3. Holds(l + 1 - 1, 0)'
  BY <1>2, DropHolds
<1>4. l + 1 - 1 = l
  OBVIOUS
<1> QED  BY <1>2, <1>3, <1>4

\* CSV in an input whose sequence is high enough.
LEMMA SequenceRuns ==
    ASSUME NEW l \in Nat, Holds(l, 1), NEW n, Top(1) = Number(n),
           CheckSequence(n, spend.sequence), Runs(<<"CSV">>)
    PROVE  Step(<<"CSV">>) /\ Holds(l, 1)'
<1>1. Executes(<<"CSV">>)
  BY DEF Executes, Operands, Succeeds, Holds, Number
<1>2. Step(<<"CSV">>) /\ spend' = spend /\ stack' = stack
  BY <1>1 DEF Step, Runs, After
<1> QED  BY <1>2 DEF Holds, Below

\* DROP of the number.
LEMMA DropRuns ==
    ASSUME NEW l \in Nat, Holds(l, 1), Runs(<<"DROP">>)
    PROVE  Step(<<"DROP">>) /\ Holds(l, 0)'
<1>1. Executes(<<"DROP">>)
  BY DEF Executes, Operands, Succeeds, Holds
<1>2. Step(<<"DROP">>) /\ spend' = spend /\ stack' = Without(1)
  BY <1>1 DEF Step, Runs, After
<1>3. Holds(l + 1 - 1, 0)'
  BY <1>2, DropHolds
<1>4. l + 1 - 1 = l
  OBVIOUS
<1> QED  BY <1>2, <1>3, <1>4

\* CHECKSIGVERIFY of the next signature.
LEMMA ChecksigVerifyRuns ==
    ASSUME NEW l \in Nat, Holds(l + 1, 1), NEW p, Top(1) = Key(p),
           spend.witness[l + 1] = Sig(p), Runs(<<"CHECKSIGVERIFY">>)
    PROVE  Step(<<"CHECKSIGVERIFY">>) /\ Holds(l, 0)'
<1>1. Top(1 + 1) = Sig(p) /\ Len(stack) = l + 1 + 1
  BY NextItem DEF Holds
<1>2. Executes(<<"CHECKSIGVERIFY">>)
  BY <1>1 DEF Executes, Operands, Succeeds, SignatureFits, Key
<1>3. Step(<<"CHECKSIGVERIFY">>) /\ spend' = spend /\ stack' = Without(2)
  BY <1>2 DEF Step, Runs, After
<1>4. Holds(l + 1 + 1 - 2, 0)'
  BY <1>3, DropHolds
<1>5. l + 1 + 1 - 2 = l
  OBVIOUS
<1> QED  BY <1>3, <1>4, <1>5

\* CHECKSIG of the next signature.
LEMMA ChecksigRuns ==
    ASSUME NEW l \in Nat, Holds(l + 1, 1), NEW p, Top(1) = Key(p),
           spend.witness[l + 1] = Sig(p), Runs(<<"CHECKSIG">>)
    PROVE  Step(<<"CHECKSIG">>) /\ Holds(l, 1)' /\ Top(1)' = True
<1>1. Top(1 + 1) = Sig(p) /\ Len(stack) = l + 1 + 1
  BY NextItem DEF Holds
<1>2. SignatureFits
  BY <1>1 DEF SignatureFits, Key
<1>3. Executes(<<"CHECKSIG">>)
  BY <1>1, <1>2 DEF Executes, Operands, Succeeds
<1>4. Step(<<"CHECKSIG">>) /\ spend' = spend /\ stack' = Append(Without(2), True)
  BY <1>2, <1>3 DEF Step, Runs, After, Truth
<1>5. Holds(l + 1 + 1 - 2, 1)' /\ Top(1)' = True
  BY <1>4, ReplaceHolds
<1>6. l + 1 + 1 - 2 = l
  OBVIOUS
<1> QED  BY <1>4, <1>5, <1>6

\* CHECKSIGADD of the next signature.
LEMMA ChecksigAddRuns ==
    ASSUME NEW l \in Nat, Holds(l + 1, 2), NEW p, Top(1) = Key(p),
           NEW m, Top(2) = Number(m),
           spend.witness[l + 1] = Sig(p), Runs(<<"CHECKSIGADD">>)
    PROVE  Step(<<"CHECKSIGADD">>) /\ Holds(l, 1)' /\ Top(1)' = Number(m + 1)
<1>1. Top(2 + 1) = Sig(p) /\ Len(stack) = l + 1 + 2
  BY NextItem DEF Holds
<1>2. AddendFits
  BY <1>1 DEF AddendFits, Key
<1>3. Executes(<<"CHECKSIGADD">>)
  BY <1>1, <1>2 DEF Executes, Operands, Succeeds
<1>4. /\ Step(<<"CHECKSIGADD">>) /\ spend' = spend
      /\ stack' = Append(Without(3), Number(m + 1))
  BY <1>2, <1>3 DEF Step, Runs, After, Number
<1>5. Holds(l + 1 + 2 - 3, 1)' /\ Top(1)' = Number(m + 1)
  BY <1>4, ReplaceHolds
<1>6. l + 1 + 2 - 3 = l
  OBVIOUS
<1> QED  BY <1>4, <1>5, <1>6
-----------------------------------------------------------------------------
(* Each opcode of a leaf. *)

\* The witness has the signatures of ks, the last one first.
Signatures(ks) ==
    \A i \in 1 .. Len(ks) : spend.witness[i] = Sig(ks[Len(ks) + 1 - i])

\* Of N signatures the one that key m + 1 asks for is the last that is left.
LEMMA NextSignature ==
    ASSUME NEW ks, IsSequence(ks), Signatures(ks), NEW m \in 0 .. Len(ks) - 1
    PROVE  /\ Len(ks) - (m + 1) \in Nat
           /\ Len(ks) - m = Len(ks) - (m + 1) + 1
           /\ spend.witness[Len(ks) - (m + 1) + 1] = Sig(ks[m + 1])
<1>1. Len(ks) \in Nat
  BY DEF IsSequence
<1>2. /\ Len(ks) - (m + 1) \in Nat /\ Len(ks) - m = Len(ks) - (m + 1) + 1
      /\ Len(ks) - m \in 1 .. Len(ks) /\ Len(ks) + 1 - (Len(ks) - m) = m + 1
  BY <1>1
<1> QED  BY <1>2 DEF Signatures

\* In the first form each key takes its signature, and the last leaves TRUE.
LEMMA ChecksigOn ==
    ASSUME NEW ks, IsSequence(ks), Signatures(ks), NEW q, OnChecksig(ks, q),
           q \in 1 .. Len(ChecksigScript(ks)), Runs(ChecksigScript(ks)[q])
    PROVE  Step(ChecksigScript(ks)[q]) /\ OnChecksig(ks, q + 1)'
<1> DEFINE s == ChecksigScript(ks)
           N == Len(ks)
<1>1. N \in Nat
  BY DEF IsSequence
<1>2. /\ Len(s) = 2 * N
      /\ \A n \in 0 .. N - 1 :
            /\ s[2 * n + 1] = Push(Key(ks[n + 1]))
            /\ s[2 * n + 2] = << IF n + 1 = N THEN "CHECKSIG" ELSE "CHECKSIGVERIFY" >>
  BY ChecksigItems
<1>3. Runs(s[q])
  OBVIOUS
<1> HIDE DEF s
<1>4. ASSUME NEW m \in 0 .. N - 1, q = 2 * m + 1, Holds(N - m, 0)
      PROVE  Step(s[q]) /\ OnChecksig(ks, q + 1)'
  <2>1. s[q] = Push(Key(ks[m + 1])) /\ N - m \in Nat
    BY <1>1, <1>2, <1>4
  <2>2. Step(s[q]) /\ Holds(N - m, 0 + 1)' /\ Top(1)' = Key(ks[m + 1])
    BY <1>3, <1>4, <2>1, PushRuns
  <2>3. q + 1 = 2 * m + 2
    BY <1>4
  <2> QED  BY <2>2, <2>3 DEF OnChecksig
<1>5. ASSUME NEW m \in 0 .. N - 1, q = 2 * m + 2,
             Holds(N - m, 1), Top(1) = Key(ks[m + 1])
      PROVE  Step(s[q]) /\ OnChecksig(ks, q + 1)'
  <2>1. /\ N - (m + 1) \in Nat /\ Holds(N - (m + 1) + 1, 1)
        /\ spend.witness[N - (m + 1) + 1] = Sig(ks[m + 1])
    BY <1>5, NextSignature
  <2>2. CASE m + 1 = N
    <3>1. s[q] = <<"CHECKSIG">>
      BY <1>2, <1>5, <2>2
    <3>2. Step(s[q]) /\ Holds(N - (m + 1), 1)' /\ Top(1)' = True
      BY <1>3, <1>5, <2>1, <3>1, ChecksigRuns
    <3>3. N - (m + 1) = 0 /\ q + 1 = 2 * N + 1
      BY <1>1, <1>5, <2>2
    <3> QED  BY <3>2, <3>3 DEF OnChecksig
  <2>3. CASE m + 1 # N
    <3>1. s[q] = <<"CHECKSIGVERIFY">>
      BY <1>2, <1>5, <2>3
    <3>2. Step(s[q]) /\ Holds(N - (m + 1), 0)'
      BY <1>3, <1>5, <2>1, <3>1, ChecksigVerifyRuns
    <3>3. m + 1 \in 0 .. N - 1 /\ q + 1 = 2 * (m + 1) + 1
      BY <1>1, <1>5, <2>3
    <3> QED  BY <3>2, <3>3 DEF OnChecksig
  <2> QED  BY <2>2, <2>3
<1>6. q # 2 * N + 1
  BY <1>1, <1>2 DEF s
<1>7. Step(s[q]) /\ OnChecksig(ks, q + 1)'
  BY <1>4, <1>5, <1>6 DEF OnChecksig
<1> QED  BY <1>7 DEF s

\* In the second form, the first key is on top of all signatures.
LEMMA AddKey ==
    ASSUME NEW ks, NEW q \in Nat, q + 1 = 2, Holds(Len(ks), 1)', Top(1)' = Key(ks[1])
    PROVE  OnChecksigAdd(ks, q + 1)'
BY DEF OnChecksigAdd

\* The sum is on top of the signatures that are left.
LEMMA AddSum ==
    ASSUME NEW ks, NEW m \in 1 .. Len(ks), NEW q \in Nat, q + 1 = 2 * m + 1,
           Holds(Len(ks) - m, 1)', Top(1)' = Number(m)
    PROVE  OnChecksigAdd(ks, q + 1)'
BY DEF OnChecksigAdd

\* The next key is on top of the sum.
LEMMA AddNextKey ==
    ASSUME NEW ks, NEW m \in 1 .. Len(ks) - 1, NEW q \in Nat, q + 1 = 2 * m + 2,
           Holds(Len(ks) - m, 2)', Top(1)' = Key(ks[m + 1]), Top(2)' = Number(m)
    PROVE  OnChecksigAdd(ks, q + 1)'
BY DEF OnChecksigAdd

\* The number of keys is on top of the sum, which is the same.
LEMMA AddTotal ==
    ASSUME NEW ks, NEW q \in Nat, q + 1 = 2 * Len(ks) + 2, Holds(0, 2)', Top(1)' = Top(2)'
    PROVE  OnChecksigAdd(ks, q + 1)'
BY DEF OnChecksigAdd

\* In the second form each key takes its signature and adds one, and the sum
\* is the number of keys.
LEMMA ChecksigAddOn ==
    ASSUME NEW ks, IsSequence(ks), Len(ks) >= 1, Signatures(ks),
           NEW q, OnChecksigAdd(ks, q),
           q \in 1 .. Len(ChecksigAddScript(ks)), Runs(ChecksigAddScript(ks)[q])
    PROVE  Step(ChecksigAddScript(ks)[q]) /\ OnChecksigAdd(ks, q + 1)'
<1> DEFINE s == ChecksigAddScript(ks)
           N == Len(ks)
<1>1. N \in Nat /\ N >= 1
  BY DEF IsSequence
<1>2. /\ Len(s) = 2 * N + 2
      /\ \A n \in 0 .. N - 1 :
            /\ s[2 * n + 1] = Push(Key(ks[n + 1]))
            /\ s[2 * n + 2] = << IF n = 0 THEN "CHECKSIG" ELSE "CHECKSIGADD" >>
      /\ s[2 * N + 1] = PushOf(N)
      /\ s[2 * N + 2] = <<"NUMEQUAL">>
  BY ChecksigAddItems
<1>3. Runs(s[q]) /\ q \in Nat
  BY <1>1, <1>2
<1>0. 0 \in 0 .. N - 1 /\ 2 * 0 + 1 = 1 /\ 2 * 0 + 2 = 2 /\ 0 + 1 = 1 /\ N - 0 = N
  BY <1>1
<1> HIDE DEF s
<1>4. ASSUME q = 1, Holds(N, 0)
      PROVE  Step(s[q]) /\ OnChecksigAdd(ks, q + 1)'
  <2>1. s[q] = Push(Key(ks[1]))
    BY <1>0, <1>2, <1>4
  <2>2. Step(s[q]) /\ Holds(N, 0 + 1)' /\ Top(1)' = Key(ks[1])
    BY <1>1, <1>3, <1>4, <2>1, PushRuns
  <2>3. q + 1 = 2
    BY <1>4
  <2> QED  BY <2>2, <2>3, AddKey
<1>5. ASSUME q = 2, Holds(N, 1), Top(1) = Key(ks[1])
      PROVE  Step(s[q]) /\ OnChecksigAdd(ks, q + 1)'
  <2>1. s[q] = <<"CHECKSIG">>
    BY <1>0, <1>2, <1>5
  <2>2. N - 1 \in Nat /\ N = N - 1 + 1 /\ spend.witness[N - 1 + 1] = Sig(ks[1])
    <3>1. /\ N - (0 + 1) \in Nat /\ N - 0 = N - (0 + 1) + 1
          /\ spend.witness[N - (0 + 1) + 1] = Sig(ks[0 + 1])
      BY <1>0, NextSignature
    <3> QED  BY <1>0, <3>1
  <2>3. Step(s[q]) /\ Holds(N - 1, 1)' /\ Top(1)' = Number(1)
    BY <1>3, <1>5, <2>1, <2>2, ChecksigRuns DEF True
  <2>4. 1 \in 1 .. N /\ q + 1 = 2 * 1 + 1
    BY <1>1, <1>5
  <2> QED  BY <2>3, <2>4, AddSum
<1>6. ASSUME NEW m \in 1 .. N, q = 2 * m + 1, Holds(N - m, 1), Top(1) = Number(m)
      PROVE  Step(s[q]) /\ OnChecksigAdd(ks, q + 1)'
  <2>0. N - m \in Nat /\ N - m + 1 >= 1
    BY <1>1, <1>6
  <2>1. CASE m = N
    <3>1. s[q] = PushOf(N)
      BY <1>2, <1>6, <2>1
    <3>2. Step(s[q]) /\ Holds(N - m, 1 + 1)' /\ Top(1)' = Number(N) /\ Top(2)' = Top(1)
      BY <1>3, <1>6, <2>0, <3>1, NumberRuns
    <3>3. N - m = 0 /\ q + 1 = 2 * N + 2
      BY <1>1, <1>6, <2>1
    <3>4. Top(1)' = Top(2)'
      BY <1>6, <2>1, <3>2
    <3> QED  BY <1>3, <3>2, <3>3, <3>4, AddTotal
  <2>2. CASE m # N
    <3>1. m \in 1 .. N - 1 /\ m \in 0 .. N - 1
      BY <1>1, <1>6, <2>2
    <3>2. s[q] = Push(Key(ks[m + 1]))
      BY <1>2, <1>6, <3>1
    <3>3. Step(s[q]) /\ Holds(N - m, 1 + 1)' /\ Top(1)' = Key(ks[m + 1]) /\ Top(2)' = Top(1)
      BY <1>3, <1>6, <2>0, <3>2, PushRuns
    <3>4. q + 1 = 2 * m + 2
      BY <1>6
    <3> QED  BY <1>6, <3>1, <3>3, <3>4, AddNextKey
  <2> QED  BY <2>1, <2>2
<1>7. ASSUME NEW m \in 1 .. N - 1, q = 2 * m + 2, Holds(N - m, 2),
             Top(1) = Key(ks[m + 1]), Top(2) = Number(m)
      PROVE  Step(s[q]) /\ OnChecksigAdd(ks, q + 1)'
  <2>1. m \in 0 .. N - 1 /\ m # 0 /\ m + 1 \in 1 .. N
    BY <1>1, <1>7
  <2>2. s[q] = <<"CHECKSIGADD">>
    BY <1>2, <1>7, <2>1
  <2>3. /\ N - (m + 1) \in Nat /\ Holds(N - (m + 1) + 1, 2)
        /\ spend.witness[N - (m + 1) + 1] = Sig(ks[m + 1])
    BY <1>7, <2>1, NextSignature
  <2>4. Step(s[q]) /\ Holds(N - (m + 1), 1)' /\ Top(1)' = Number(m + 1)
    BY <1>3, <1>7, <2>2, <2>3, ChecksigAddRuns
  <2>5. q + 1 = 2 * (m + 1) + 1
    BY <1>7
  <2>6. \A j \in 1 .. N : j = m + 1 => OnChecksigAdd(ks, q + 1)'
    BY <1>3, <2>4, <2>5, AddSum
  <2> QED  BY <2>1, <2>4, <2>6
<1>8. ASSUME q = 2 * N + 2, Holds(0, 2), Top(1) = Top(2)
      PROVE  Step(s[q]) /\ OnChecksigAdd(ks, q + 1)'
  <2>1. s[q] = <<"NUMEQUAL">>
    BY <1>2, <1>8
  <2>2. Step(s[q]) /\ Holds(0, 1)' /\ Top(1)' = True
    BY <1>3, <1>8, <2>1, EqualRuns
  <2>3. q + 1 = 2 * N + 3
    BY <1>1, <1>8
  <2> QED  BY <2>2, <2>3 DEF OnChecksigAdd
<1>9. q # 2 * N + 3
  BY <1>1, <1>2 DEF s
<1>10. Step(s[q]) /\ OnChecksigAdd(ks, q + 1)'
  BY <1>4, <1>5, <1>6, <1>7, <1>8, <1>9 DEF OnChecksigAdd
<1> QED  BY <1>10 DEF s

\* Where a multisig ends, one item is left, and it is true.
LEMMA MultisigEnds ==
    ASSUME NEW m, IsSequence(m.keys), Len(m.keys) >= 1, NEW q, OnMultisig(m, q)
    PROVE  /\ q \in Nat /\ q >= 1
           /\ Len(MultisigScript(m)) \in Nat
           /\ q > Len(MultisigScript(m)) => Holds(0, 1) /\ Top(1) = True
<1>1. Len(m.keys) \in Nat
  BY DEF IsSequence
<1>2. CASE m.type = "checksig"
  <2>1. OnChecksig(m.keys, q)
    BY <1>2 DEF OnMultisig
  <2>2. Len(MultisigScript(m)) = 2 * Len(m.keys)
    BY <1>2, MultisigItems
  <2> QED  BY <1>1, <2>1, <2>2 DEF OnChecksig
<1>3. CASE m.type # "checksig"
  <2>1. OnChecksigAdd(m.keys, q)
    BY <1>3 DEF OnMultisig
  <2>2. Len(MultisigScript(m)) = 2 * Len(m.keys) + 2
    BY <1>3, MultisigItems
  <2> QED  BY <1>1, <2>1, <2>2 DEF OnChecksigAdd
<1> QED  BY <1>2, <1>3

\* Each opcode of a multisig finds its signature.
LEMMA MultisigOn ==
    ASSUME NEW m, IsSequence(m.keys), Len(m.keys) >= 1, Signatures(m.keys),
           NEW q, OnMultisig(m, q),
           q \in 1 .. Len(MultisigScript(m)), Runs(MultisigScript(m)[q])
    PROVE  Step(MultisigScript(m)[q]) /\ OnMultisig(m, q + 1)'
<1>1. CASE m.type = "checksig"
  <2>1. MultisigScript(m) = ChecksigScript(m.keys) /\ OnChecksig(m.keys, q)
    BY <1>1 DEF MultisigScript, OnMultisig
  <2>2. Step(MultisigScript(m)[q]) /\ OnChecksig(m.keys, q + 1)'
    BY <2>1, ChecksigOn
  <2> QED  BY <1>1, <2>2 DEF OnMultisig
<1>2. CASE m.type # "checksig"
  <2>1. MultisigScript(m) = ChecksigAddScript(m.keys) /\ OnChecksigAdd(m.keys, q)
    BY <1>2 DEF MultisigScript, OnMultisig
  <2>2. Step(MultisigScript(m)[q]) /\ OnChecksigAdd(m.keys, q + 1)'
    BY <2>1, ChecksigAddOn
  <2> QED  BY <1>2, <2>2 DEF OnMultisig
<1> QED  BY <1>1, <1>2
-----------------------------------------------------------------------------
(* Each opcode of a leaf, from what is ahead of the multisig to the end. *)

\* The signatures are those of the closure's keys.
LEMMA FitSignatures ==
    ASSUME NEW c, WitnessFits(c)
    PROVE  Signatures(c.multisig.keys)
BY DEF WitnessFits, Signatures

\* When what is ahead of the multisig has been passed, all signatures are left.
LEMMA MultisigStarts ==
    ASSUME NEW c, IsClosure(c), Holds(Len(c.multisig.keys), 0)', ip' = Ahead(c) + 1
    PROVE  OnTheWay(c)'
<1> DEFINE ks == c.multisig.keys
<1>1. Len(ks) \in Nat /\ Len(ks) >= 1 /\ Ahead(c) \in Nat
  BY DEF IsClosure, IsSequence, Ahead
<1>2. ip' - Ahead(c) = 1
  BY <1>1
<1>3. OnChecksig(ks, 1)'
  <2>1. 0 \in 0 .. Len(ks) - 1 /\ 1 = 2 * 0 + 1 /\ Len(ks) - 0 = Len(ks)
    BY <1>1
  <2> QED  BY <2>1 DEF OnChecksig
<1>4. OnChecksigAdd(ks, 1)'
  BY DEF OnChecksigAdd
<1>5. OnMultisig(c.multisig, ip - Ahead(c))'
  BY <1>2, <1>3, <1>4 DEF OnMultisig, Ahead
<1> QED  BY <1>5 DEF OnTheWay

\* The opcodes that ask for the secret find it.
LEMMA ConditionOn ==
    ASSUME NEW c, IsClosure(c), c.kind = "condition", WitnessFits(c),
           OnCondition(Len(c.multisig.keys)), Runs(Script(c)[ip])
    PROVE  Step(Script(c)[ip]) /\ OnTheWay(c)'
<1> DEFINE s == Script(c)
           N == Len(c.multisig.keys)
           h == Sha256(Data("secret"))
<1>1. s[1] = <<"SHA256">> /\ s[2] = Push(h) /\ s[3] = <<"EQUAL">> /\ s[4] = <<"VERIFY">>
  BY LeafItems
<1>2. N \in Nat /\ spend.witness[N + 1] = Data("secret") /\ Runs(s[ip])
  BY DEF IsClosure, IsSequence, WitnessFits
<1> HIDE DEF s, h
<1>3. ASSUME ip = 1, Holds(N + 1, 0)
      PROVE  Step(s[ip]) /\ OnTheWay(c)'
  <2>1. s[ip] = <<"SHA256">>
    BY <1>1, <1>3
  <2>2. Step(s[ip]) /\ Holds(N, 1)' /\ Top(1)' = h
    BY <1>2, <1>3, <2>1, HashRuns DEF h
  <2>3. ip' = 2
    BY <1>3, <2>2 DEF Step
  <2> QED  BY <2>2, <2>3 DEF OnTheWay, OnCondition, h
<1>4. ASSUME ip = 2, Holds(N, 1), Top(1) = h
      PROVE  Step(s[ip]) /\ OnTheWay(c)'
  <2>1. s[ip] = Push(h) /\ N + 1 >= 1
    BY <1>1, <1>2, <1>4
  <2>2. Step(s[ip]) /\ Holds(N, 1 + 1)' /\ Top(1)' = h /\ Top(2)' = Top(1)
    BY <1>2, <1>4, <2>1, PushRuns
  <2>3. ip' = 3
    BY <1>4, <2>2 DEF Step
  <2> QED  BY <1>4, <2>2, <2>3 DEF OnTheWay, OnCondition, h
<1>5. ASSUME ip = 3, Holds(N, 2), Top(2) = Top(1)
      PROVE  Step(s[ip]) /\ OnTheWay(c)'
  <2>1. s[ip] = <<"EQUAL">>
    BY <1>1, <1>5
  <2>2. Step(s[ip]) /\ Holds(N, 1)' /\ Top(1)' = True
    BY <1>2, <1>5, <2>1, EqualRuns
  <2>3. ip' = 4
    BY <1>5, <2>2 DEF Step
  <2> QED  BY <2>2, <2>3 DEF OnTheWay, OnCondition
<1>6. ASSUME ip = 4, Holds(N, 1), Top(1) = True
      PROVE  Step(s[ip]) /\ OnTheWay(c)'
  <2>1. s[ip] = <<"VERIFY">>
    BY <1>1, <1>6
  <2>2. Step(s[ip]) /\ Holds(N, 0)'
    BY <1>2, <1>6, <2>1, VerifyRuns
  <2>3. ip' = Ahead(c) + 1
    BY <1>6, <2>2 DEF Step, Ahead
  <2> QED  BY <2>2, <2>3, MultisigStarts
<1>7. Step(s[ip]) /\ OnTheWay(c)'
  BY <1>3, <1>4, <1>5, <1>6 DEF OnCondition, h
<1> QED  BY <1>7 DEF s

\* The opcodes that ask for the timeout find a sequence that is high enough.
LEMMA CSVOn ==
    ASSUME NEW c, IsClosure(c), c.kind = "csv", WitnessFits(c),
           OnCSV(Len(c.multisig.keys), LockTimeToSequence(c.locktime)),
           Runs(Script(c)[ip])
    PROVE  Step(Script(c)[ip]) /\ OnTheWay(c)'
<1> DEFINE s == Script(c)
           N == Len(c.multisig.keys)
           n == LockTimeToSequence(c.locktime)
<1>1. s[1] = PushOf(n) /\ s[2] = <<"CSV">> /\ s[3] = <<"DROP">>
  BY LeafItems
<1>2. N \in Nat /\ CheckSequence(n, spend.sequence) /\ Runs(s[ip])
  BY DEF IsClosure, IsSequence, WitnessFits
<1> HIDE DEF s, n
<1>3. ASSUME ip = 1, Holds(N, 0)
      PROVE  Step(s[ip]) /\ OnTheWay(c)'
  <2>1. s[ip] = PushOf(n)
    BY <1>1, <1>3
  <2>2. Step(s[ip]) /\ Holds(N, 0 + 1)' /\ Top(1)' = Number(n)
    BY <1>2, <1>3, <2>1, NumberRuns
  <2>3. ip' = 2
    BY <1>3, <2>2 DEF Step
  <2> QED  BY <2>2, <2>3 DEF OnTheWay, OnCSV, n
<1>4. ASSUME ip = 2, Holds(N, 1), Top(1) = Number(n)
      PROVE  Step(s[ip]) /\ OnTheWay(c)'
  <2>1. s[ip] = <<"CSV">>
    BY <1>1, <1>4
  <2>2. Step(s[ip]) /\ Holds(N, 1)'
    BY <1>2, <1>4, <2>1, SequenceRuns
  <2>3. ip' = 3
    BY <1>4, <2>2 DEF Step
  <2> QED  BY <2>2, <2>3 DEF OnTheWay, OnCSV
<1>5. ASSUME ip = 3, Holds(N, 1)
      PROVE  Step(s[ip]) /\ OnTheWay(c)'
  <2>1. s[ip] = <<"DROP">>
    BY <1>1, <1>5
  <2>2. Step(s[ip]) /\ Holds(N, 0)'
    BY <1>2, <1>5, <2>1, DropRuns
  <2>3. ip' = Ahead(c) + 1
    BY <1>5, <2>2 DEF Step, Ahead
  <2> QED  BY <2>2, <2>3, MultisigStarts
<1>6. Step(s[ip]) /\ OnTheWay(c)'
  BY <1>3, <1>4, <1>5 DEF OnCSV, n
<1> QED  BY <1>6 DEF s

\* Each opcode of a leaf finds what it needs.
LEMMA LeafOn ==
    ASSUME NEW c, IsClosure(c), WitnessFits(c), OnTheWay(c),
           ip \in 1 .. Len(Script(c)), Runs(Script(c)[ip])
    PROVE  Step(Script(c)[ip]) /\ OnTheWay(c)'
<1> DEFINE m == c.multisig
           q == ip - Ahead(c)
<1>1. CASE c.kind = "condition" /\ OnCondition(Len(m.keys))
  BY <1>1, ConditionOn
<1>2. CASE c.kind = "csv" /\ OnCSV(Len(m.keys), LockTimeToSequence(c.locktime))
  BY <1>2, CSVOn
<1>3. CASE OnMultisig(m, q)
  <2>1. IsSequence(m.keys) /\ Len(m.keys) >= 1 /\ Signatures(m.keys)
    BY FitSignatures DEF IsClosure
  <2>2. q \in Nat /\ q >= 1 /\ Len(MultisigScript(m)) \in Nat
    BY <1>3, <2>1, MultisigEnds
  <2>3. /\ Len(Script(c)) = Ahead(c) + Len(MultisigScript(m))
        /\ \A i \in 1 .. Len(MultisigScript(m)) :
              Script(c)[Ahead(c) + i] = MultisigScript(m)[i]
    BY LeafItems
  <2>4. Ahead(c) \in Nat /\ ip \in Nat
    BY <2>2, <2>3 DEF Ahead, IsClosure
  <2>5. q \in 1 .. Len(MultisigScript(m)) /\ Ahead(c) + q = ip
    BY <2>2, <2>3, <2>4
  <2>6. Script(c)[ip] = MultisigScript(m)[q] /\ Runs(MultisigScript(m)[q])
    BY <2>3, <2>5
  <2>7. Step(MultisigScript(m)[q]) /\ \A i : i = q => OnMultisig(m, i + 1)'
    BY <1>3, <2>1, <2>5, <2>6, MultisigOn
  <2>8. ip' - Ahead(c) = q + 1
    BY <2>4, <2>7 DEF Step
  <2> QED  BY <2>6, <2>7, <2>8 DEF OnTheWay, Ahead
<1> QED  BY <1>1, <1>2, <1>3 DEF OnTheWay

\* At the end of a leaf one item is left, and it is true.
LEMMA LeafPasses ==
    ASSUME NEW c, IsClosure(c), OnTheWay(c), ip \in Nat, ip > Len(Script(c))
    PROVE  Len(stack) = 1 /\ Top(1) = True
<1> DEFINE m == c.multisig
           q == ip - Ahead(c)
<1>1. IsSequence(m.keys) /\ Len(m.keys) >= 1
  BY DEF IsClosure
<1>2. /\ Len(Script(c)) = Ahead(c) + Len(MultisigScript(m))
      /\ Len(MultisigScript(m)) \in Nat
  BY <1>1, LeafItems, MultisigItems DEF IsSequence
<1>3. ~(c.kind = "condition" /\ OnCondition(Len(m.keys)))
  BY <1>2 DEF Ahead, OnCondition
<1>4. ~(c.kind = "csv" /\ OnCSV(Len(m.keys), LockTimeToSequence(c.locktime)))
  BY <1>2 DEF Ahead, OnCSV
<1>5. OnMultisig(m, q)
  BY <1>3, <1>4 DEF OnTheWay
<1>6. Ahead(c) \in Nat
  BY DEF Ahead, IsClosure
<1>7. q \in Nat /\ (q > Len(MultisigScript(m)) => Holds(0, 1) /\ Top(1) = True)
  BY <1>1, <1>5, MultisigEnds
<1>8. q > Len(MultisigScript(m))
  BY <1>2, <1>6, <1>7
<1> QED  BY <1>7, <1>8 DEF Holds
-----------------------------------------------------------------------------
(* The spends that this code builds. *)

\* An input with the default sequence, which has the highest bit, waits for
\* nothing.
LEMMA DefaultIsMature ==
    ASSUME NEW n
    PROVE  Mature(DefaultSequence, n)
<1>1. /\ DisableFlag \in Nat /\ DisableFlag > 1
      /\ DefaultSequence = 1 * DisableFlag + (DisableFlag - 1)
  <2>1. /\ DisableFlag \in Nat /\ TypeFlag \in Nat /\ TypeFlag # 0
        /\ TypeFlag < DisableFlag /\ Word = 2 * DisableFlag
    BY LocktimeAssumption
  <2> QED  BY <2>1 DEF DefaultSequence
<1>2. \A d \in Nat : d > 1 => (1 * d + (d - 1)) \div d = 1
  OBVIOUS
<1>3. DefaultSequence \div DisableFlag = 1
  BY <1>1, <1>2
<1> QED  BY <1>3 DEF Mature, Bit

SequenceOf(leaf) == IF leaf = 2 THEN LockTimeToSequence(Leaves[2].locktime)
                                ELSE DefaultSequence

\* At the timeout the sequence of the timeout leaf is neither too high for the
\* age of the output nor too low for the leaf.
LEMMA SequenceFits ==
    ASSUME ShortTimeouts, TypeOK, NEW leaf \in 1 .. Len(Leaves),
           leaf = 2 => age >= request
    PROVE  /\ Mature(SequenceOf(leaf), age)
           /\ Leaves[leaf].kind = "csv" =>
                 CheckSequence(LockTimeToSequence(Leaves[leaf].locktime), SequenceOf(leaf))
<1>1. Leaves[leaf].kind = IF leaf = 1 THEN "condition"
                          ELSE IF leaf = 2 THEN "csv" ELSE "multisig"
  BY Knows, LeavesAreClosures
<1>2. CASE leaf = 2
  <2>1. request \in Nat /\ age \in Nat /\ request < Mask
    <3>1. <<request, age>> \in Cases
      BY DEF TypeOK
    <3> QED  BY <3>1, EscrowScriptAssumption DEF ShortTimeouts
  <2>2. SequenceOf(leaf) = request /\ LockTimeToSequence(Leaves[leaf].locktime) = request
    <3>1. TimeoutBlocks(request) = request
      BY <2>1, BlocksHaveNoFlag DEF TimeoutBlocks
    <3> QED  BY <1>2, <3>1, SequencesKnown DEF SequenceOf
  <2>3. CheckSequence(request, request) /\ Mature(request, age)
    BY <1>2, <2>1, NotLate
  <2> QED  BY <2>2, <2>3
<1>3. CASE leaf # 2
  BY <1>1, <1>3, DefaultIsMature DEF SequenceOf
<1> QED  BY <1>2, <1>3

\* What the witness of a spend by somebody entitled has: the signatures, last
\* first, and the secret above them.
Complies(witness, leaf) ==
    LET ks == Leaves[leaf].multisig.keys
    IN  /\ IsSequence(witness)
        /\ Len(witness) = Len(ks) + (IF leaf = 1 THEN 1 ELSE 0)
        /\ \A i \in 1 .. Len(ks) : witness[i] = Sig(ks[Len(ks) + 1 - i])
        /\ leaf = 1 => witness[Len(ks) + 1] = Data("secret")

\* The witnesses of the leaves with one key and with two.
LEMMA ShortWitnessComplies ==
    ASSUME NEW leaf \in Nat, NEW k, NEW l, NEW w,
           LET ks == Leaves[leaf].multisig.keys
           IN  \/ leaf = 1 /\ ks = <<k>> /\ w = << Sig(k), Data("secret") >>
               \/ leaf # 1 /\ ks = <<k>> /\ w = << Sig(k) >>
               \/ leaf # 1 /\ ks = <<l, k>> /\ w = << Sig(k), Sig(l) >>
    PROVE  Complies(w, leaf)
<1> DEFINE ks == Leaves[leaf].multisig.keys
<1> HIDE DEF ks
<1>1. CASE leaf = 1 /\ ks = <<k>> /\ w = << Sig(k), Data("secret") >>
  <2>1. /\ IsSequence(w) /\ Len(w) = 2 /\ w[1] = Sig(k) /\ w[2] = Data("secret")
        /\ Len(ks) = 1 /\ ks[1] = k
    BY <1>1, PairIsSequence
  <2>2. \A i \in 1 .. 1 : i = 1
    OBVIOUS
  <2> QED  BY <1>1, <2>1, <2>2 DEF Complies, ks
<1>2. CASE leaf # 1 /\ ks = <<k>> /\ w = << Sig(k) >>
  <2>1. /\ IsSequence(w) /\ Len(w) = 1 /\ w[1] = Sig(k)
        /\ Len(ks) = 1 /\ ks[1] = k
    BY <1>2, PairIsSequence
  <2>2. \A i \in 1 .. 1 : i = 1
    OBVIOUS
  <2> QED  BY <1>2, <2>1, <2>2 DEF Complies, ks
<1>3. CASE leaf # 1 /\ ks = <<l, k>> /\ w = << Sig(k), Sig(l) >>
  <2>1. /\ IsSequence(w) /\ Len(w) = 2 /\ w[1] = Sig(k) /\ w[2] = Sig(l)
        /\ Len(ks) = 2 /\ ks[1] = l /\ ks[2] = k
    BY <1>3, PairIsSequence
  <2>2. \A i \in 1 .. 2 : i = 1 \/ i = 2
    OBVIOUS
  <2> QED  BY <1>3, <2>1, <2>2 DEF Complies, ks
<1> QED  BY <1>1, <1>2, <1>3 DEF ks

\* Such a spend starts.
LEMMA EntitledStarts ==
    ASSUME ShortTimeouts, TypeOK, UNCHANGED <<contract, request, age>>,
           NEW leaf \in 1 .. Len(Leaves), leaf = 2 => age >= request,
           NEW witness, Complies(witness, leaf),
           Broadcast(leaf, SequenceOf(leaf), witness)
    PROVE  /\ verdict' = "running"
           /\ WitnessFits(Leaves[spend.leaf])' /\ OnTheWay(Leaves[spend.leaf])'
<1> DEFINE c  == Leaves[leaf]
           ks == c.multisig.keys
<1>1. /\ IsClosure(c) /\ Leaves' = Leaves
      /\ c.kind = IF leaf = 1 THEN "condition" ELSE IF leaf = 2 THEN "csv" ELSE "multisig"
  BY Knows, LeavesAreClosures, LeavesKept
<1>2. /\ Mature(SequenceOf(leaf), age)
      /\ c.kind = "csv" =>
            CheckSequence(LockTimeToSequence(c.locktime), SequenceOf(leaf))
  BY SequenceFits
<1>3. /\ spend'.leaf = leaf /\ spend'.sequence = SequenceOf(leaf)
      /\ spend'.witness = witness /\ stack' = witness /\ ip' = 1
      /\ verdict' = "running"
  BY <1>2 DEF Broadcast
<1>4. /\ IsSequence(witness)
      /\ Len(witness) = Len(ks) + (IF leaf = 1 THEN 1 ELSE 0)
      /\ \A i \in 1 .. Len(ks) : witness[i] = Sig(ks[Len(ks) + 1 - i])
      /\ leaf = 1 => witness[Len(ks) + 1] = Data("secret")
  BY DEF Complies
<1>5. (Leaves[spend.leaf])' = c
  BY <1>1, <1>3
<1> HIDE DEF c
<1>6. \A d : d = c => WitnessFits(d)' /\ OnTheWay(d)'
  <2> SUFFICES ASSUME NEW d, d = c
               PROVE  WitnessFits(d)' /\ OnTheWay(d)'
    OBVIOUS
  <2> DEFINE N == Len(d.multisig.keys)
  <2>1. N \in Nat /\ IsClosure(d)
    BY <1>1 DEF IsClosure, IsSequence
  <2>2. WitnessFits(d)'
    BY <1>1, <1>2, <1>3, <1>4 DEF WitnessFits
  <2>3. Below(0)' /\ Len(stack') = N + (IF leaf = 1 THEN 1 ELSE 0)
    <3>1. IsSequence(witness) /\ Len(witness) \in Nat
      BY <1>4 DEF IsSequence
    <3>2. Below(0)'
      BY <1>3, <3>1 DEF Below
    <3>3. Len(stack') = Len(ks) + (IF leaf = 1 THEN 1 ELSE 0) /\ ks = d.multisig.keys
      BY <1>3, <1>4
    <3> QED  BY <3>2, <3>3
  <2>4. CASE leaf = 1
    <3>1. Holds(N + 1, 0)'
      BY <2>1, <2>3, <2>4 DEF Holds
    <3>2. OnCondition(N)'
      BY <1>3, <3>1 DEF OnCondition
    <3> QED  BY <1>1, <2>2, <2>4, <3>2 DEF OnTheWay
  <2>5. CASE leaf = 2
    <3>1. Holds(N, 0)'
      BY <2>1, <2>3, <2>5 DEF Holds
    <3>2. OnCSV(N, LockTimeToSequence(d.locktime))'
      BY <1>3, <3>1 DEF OnCSV
    <3> QED  BY <1>1, <2>2, <2>5, <3>2 DEF OnTheWay
  <2>6. CASE leaf # 1 /\ leaf # 2
    <3>1. Holds(N, 0)'
      BY <2>1, <2>3, <2>6 DEF Holds
    <3>2. ip' = Ahead(d) + 1
      BY <1>1, <1>3, <2>6 DEF Ahead
    <3> QED  BY <2>1, <2>2, <3>1, <3>2, MultisigStarts
  <2> QED  BY <2>4, <2>5, <2>6
<1> QED  BY <1>3, <1>5, <1>6

\* So it does whichever program has built it.
LEMMA BroadcastEntitled ==
    ASSUME ShortTimeouts, TypeOK, UNCHANGED <<contract, request, age>>,
           NEW leaf \in 1 .. Len(Leaves), NEW witness,
           Broadcast(leaf, SequenceOf(leaf), witness),
           Entitled' => Complies(witness, leaf)
    PROVE  EntitledInv'
<1>1. verdict' # "none" /\ spend'.leaf = leaf
  BY DEF Broadcast
<1>2. ASSUME Entitled'
      PROVE  /\ verdict' = "running"
             /\ WitnessFits(Leaves[spend.leaf])' /\ OnTheWay(Leaves[spend.leaf])'
  <2>1. leaf = 2 => age >= request
    BY <1>1, <1>2 DEF Entitled
  <2> QED  BY <1>2, <2>1, EntitledStarts
<1> QED  BY <1>1, <1>2 DEF EntitledInv

\* Nothing is asked of a spend that is refused by the program, or accepted.
LEMMA NotRunning == verdict' \in {"refused", "accepted"} => EntitledInv'
BY DEF EntitledInv

\* ClaimEscrow gives the signatures of its callers, who name the oracle first,
\* in the order in which the leaf takes them.
LEMMA ClaimEscrowEntitled ==
    ASSUME ShortTimeouts, TypeOK,
           NEW leaf \in 1 .. 4, NEW keys \in KeyLists, NEW preimage \in Preimages,
           ClaimEscrow(leaf, keys, preimage)
    PROVE  EntitledInv'
<1>1. /\ UNCHANGED <<contract, request, age>> /\ contract = "escrow"
      /\ claim' = [keys |-> keys, preimage |-> preimage]
  BY DEF ClaimEscrow
<1>2. leaf \in 1 .. Len(Leaves)
  BY <1>1, Knows, LeavesAreClosures
<1>3. CASE Broadcast(leaf, SequenceOf(leaf), EscrowWitness(leaf, keys, preimage))
  <2> DEFINE w  == EscrowWitness(leaf, keys, preimage)
             ks == Leaves[leaf].multisig.keys
  <2>1. ASSUME Entitled'
        PROVE  Complies(w, leaf)
    <3>1. spend'.leaf = leaf
      BY <1>3 DEF Broadcast
    <3>2. keys = Signers(leaf) /\ (leaf = 1 => preimage = "secret")
      BY <1>1, <2>1, <3>1 DEF Entitled, HasSigners
    <3>3. ks = Signers(leaf)
      BY <1>1, <1>2, Knows, KeysOfLeaves DEF Signers
    <3>4. leaf = 1 \/ leaf = 2 \/ leaf = 3 \/ leaf = 4
      OBVIOUS
    <3> HIDE DEF ks
    <3>5. CASE leaf = 1
      <4>1. w = << Sig("seller"), Data("secret") >> /\ ks = <<"seller">>
        BY <3>2, <3>3, <3>5 DEF EscrowWitness, Signers
      <4> QED  BY <3>5, <4>1, ShortWitnessComplies DEF ks
    <3>6. CASE leaf = 2
      <4>1. w = << Sig("buyer") >> /\ ks = <<"buyer">>
        BY <3>2, <3>3, <3>6 DEF EscrowWitness, Signers
      <4> QED  BY <3>6, <4>1, ShortWitnessComplies DEF ks
    <3>7. CASE leaf = 3
      <4>1. w = << Sig("seller"), Sig("oracle") >> /\ ks = <<"oracle", "seller">>
        BY <3>2, <3>3, <3>7 DEF EscrowWitness, Signers
      <4> QED  BY <3>7, <4>1, ShortWitnessComplies DEF ks
    <3>8. CASE leaf = 4
      <4>1. w = << Sig("buyer"), Sig("oracle") >> /\ ks = <<"oracle", "buyer">>
        BY <3>2, <3>3, <3>8 DEF EscrowWitness, Signers
      <4> QED  BY <3>8, <4>1, ShortWitnessComplies DEF ks
    <3> QED  BY <3>4, <3>5, <3>6, <3>7, <3>8
  <2> QED  BY <1>1, <1>2, <1>3, <2>1, BroadcastEntitled
<1>4. CASE verdict' = "refused"
  BY <1>4, NotRunning
<1> QED  BY <1>3, <1>4 DEF ClaimEscrow, SequenceOf

\* SpendHTLC gives the service's signature, and the preimage where it is asked for.
LEMMA SpendHTLCEntitled ==
    ASSUME ShortTimeouts, TypeOK,
           NEW leaf \in 1 .. 2, NEW key \in Parties, NEW preimage \in Preimages,
           SpendHTLC(leaf, key, preimage)
    PROVE  EntitledInv'
<1> DEFINE w  == IF leaf = 1 /\ preimage # None
                 THEN << Sig(key), Data(preimage) >> ELSE << Sig(key) >>
           ks == Leaves[leaf].multisig.keys
<1>1. /\ UNCHANGED <<contract, request, age>> /\ contract = "htlc"
      /\ claim' = [keys |-> <<key>>, preimage |-> preimage]
      /\ Broadcast(leaf, SequenceOf(leaf), w)
  BY DEF SpendHTLC, SequenceOf
<1>2. leaf \in 1 .. Len(Leaves)
  BY <1>1, Knows, LeavesAreClosures
<1>3. ASSUME Entitled'
      PROVE  Complies(w, leaf)
  <2>1. spend'.leaf = leaf
    BY <1>1 DEF Broadcast
  <2>2. key = "service" /\ (leaf = 1 => preimage = "secret")
    BY <1>1, <1>3, <2>1 DEF Entitled, HasSigners
  <2>3. ks = <<"service">>
    BY <1>1, <1>2, Knows, KeysOfLeaves
  <2> HIDE DEF ks
  <2>4. CASE leaf = 1
    <3>1. w = << Sig("service"), Data("secret") >>
      BY <2>2, <2>4 DEF None
    <3> QED  BY <2>3, <2>4, <3>1, ShortWitnessComplies DEF ks
  <2>5. CASE leaf = 2
    <3>1. w = << Sig("service") >>
      BY <2>2, <2>5
    <3> QED  BY <2>3, <2>5, <3>1, ShortWitnessComplies DEF ks
  <2> QED  BY <2>4, <2>5
<1> QED  BY <1>1, <1>2, <1>3, BroadcastEntitled

\* A closure's Witness has the signatures in the order in which the leaf takes them.
LEMMA SpendClosureEntitled ==
    ASSUME ShortTimeouts, TypeOK, NEW leaf \in 1 .. 4, NEW keys \in KeyLists,
           SpendClosure(leaf, keys)
    PROVE  EntitledInv'
<1> DEFINE c  == Leaves[leaf]
           ks == c.multisig.keys
           w  == ClosureWitness(c.multisig)
<1>1. UNCHANGED <<contract, request, age>> /\ contract = "additive"
  BY DEF SpendClosure
<1>2. leaf \in 1 .. Len(Leaves)
  BY <1>1, Knows, LeavesAreClosures
<1>3. CASE CanSign(c, keys) /\ Broadcast(leaf, SequenceOf(leaf), w)
  <2>1. leaf # 1
    BY <1>2, <1>3, Knows, LeavesAreClosures DEF CanSign
  <2>2. IsSequence(w) /\ Len(w) = Len(ks)
    <3>1. Len(ks) \in Nat
      BY <1>2, Knows, LeavesAreClosures DEF IsClosure, IsSequence
    <3>2. w = [i \in 1 .. Len(ks) |-> w[i]]
      BY DEF ClosureWitness
    <3> HIDE DEF w
    <3> QED  BY <3>1, <3>2, FunctionIsSequence
  <2>3. \A i \in 1 .. Len(ks) : w[i] = Sig(ks[Len(ks) + 1 - i])
    BY DEF ClosureWitness
  <2>4. Len(ks) \in Nat
    BY <1>2, Knows, LeavesAreClosures DEF IsClosure, IsSequence
  <2> HIDE DEF w
  <2>5. Complies(w, leaf)
    BY <2>1, <2>2, <2>3, <2>4 DEF Complies
  <2> QED  BY <1>1, <1>2, <1>3, <2>5, BroadcastEntitled
<1>4. CASE verdict' = "refused"
  BY <1>4, NotRunning
<1> QED  BY <1>3, <1>4 DEF SpendClosure, SequenceOf

\* Any other spend is nobody's claim.
LEMMA SpendOtherwiseEntitled ==
    ASSUME EntitledInv, SpendOtherwise
    PROVE  EntitledInv'
<1>1. claim' = NoClaim
  BY DEF EntitledInv, SpendOtherwise
<1> QED  BY <1>1 DEF EntitledInv, Entitled, NoClaim
-----------------------------------------------------------------------------
(* The node. *)

\* Who is entitled does not change while the node runs.
LEMMA EntitledKept ==
    ASSUME UNCHANGED <<contract, request, age, spend, claim>>
    PROVE  /\ Entitled' = Entitled /\ Leaves' = Leaves
           /\ \A c : WitnessFits(c) => WitnessFits(c)'
<1>1. Leaves' = Leaves
  BY LeavesKept
<1>2. Entitled' = Entitled
  BY <1>1 DEF Entitled, HasSigners
<1>3. \A c : WitnessFits(c) => WitnessFits(c)'
  BY DEF WitnessFits
<1> QED  BY <1>1, <1>2, <1>3

\* The first opcode is opcode 1.
LEMMA OnTheWayPlace ==
    ASSUME NEW c, IsClosure(c), OnTheWay(c)
    PROVE  ip # 0
<1>1. CASE c.kind = "condition" /\ OnCondition(Len(c.multisig.keys))
  BY <1>1 DEF OnCondition
<1>2. CASE OnCSV(Len(c.multisig.keys), LockTimeToSequence(c.locktime))
  BY <1>2 DEF OnCSV
<1>3. CASE OnMultisig(c.multisig, ip - Ahead(c))
  <2>1. ip - Ahead(c) >= 1 /\ ip - Ahead(c) \in Nat
    BY <1>3, MultisigEnds DEF IsClosure
  <2>2. Ahead(c) \in Nat
    BY DEF IsClosure, Ahead
  <2> QED  BY <2>1, <2>2
<1> QED  BY <1>1, <1>2, <1>3 DEF OnTheWay

\* The node goes on at every opcode of a spend by somebody entitled.
LEMMA ExecuteEntitled ==
    ASSUME IndInv, EntitledInv, Execute
    PROVE  EntitledInv'
<1> DEFINE c == Leaves[spend.leaf]
<1>1. /\ TypeOK /\ verdict = "running" /\ spend.leaf \in 1 .. Len(Leaves)
      /\ UNCHANGED <<contract, request, age, spend, claim>>
      /\ verdict' # "none"
  BY DEF IndInv, NodeInv, Execute
<1>2. IsClosure(c) /\ (Leaves[spend.leaf])' = c /\ Len(Script(c)) \in 0 .. 8
  BY <1>1, Knows, LeavesAreClosures, LeavesKept, LeafLength
<1>3. Entitled' = Entitled /\ \A d : WitnessFits(d) => WitnessFits(d)'
  BY <1>1, EntitledKept
<1>4. ASSUME Entitled
      PROVE  verdict' = "running" /\ WitnessFits(c)' /\ OnTheWay(c)'
  <2>1. WitnessFits(c) /\ OnTheWay(c)
    BY <1>1, <1>4 DEF EntitledInv
  <2>2. ip \in 1 .. Len(Script(c))
    <3>1. ip \in 0 .. 9 /\ ip <= Len(Script(c))
      BY <1>1 DEF TypeOK, Execute, LeafScript
    <3>2. ip # 0
      BY <1>2, <2>1, OnTheWayPlace
    <3> QED  BY <1>2, <3>1, <3>2
  <2>3. Runs(Script(c)[ip])
    BY <1>1 DEF Execute, Runs, LeafScript
  <2>4. Step(Script(c)[ip]) /\ \A d : d = c => OnTheWay(d)'
    BY <1>2, <2>1, <2>2, <2>3, LeafOn
  <2>5. verdict' = "running"
    BY <1>1, <2>4 DEF Execute, Step, LeafScript
  <2> HIDE DEF c
  <2>6. OnTheWay(c)' /\ WitnessFits(c)'
    BY <1>2, <1>3, <2>1, <2>4 DEF c
  <2> QED  BY <2>5, <2>6
<1> QED  BY <1>1, <1>2, <1>3, <1>4 DEF EntitledInv

\* At the end of the leaf it accepts.
LEMMA FinishEntitled ==
    ASSUME IndInv, EntitledInv, Finish
    PROVE  EntitledInv'
<1> DEFINE c == Leaves[spend.leaf]
<1>1. /\ TypeOK /\ verdict = "running" /\ spend.leaf \in 1 .. Len(Leaves)
      /\ UNCHANGED <<contract, request, age, spend, claim>>
      /\ verdict' # "none" /\ verdict' # "running"
  BY DEF IndInv, NodeInv, Finish
<1>2. IsClosure(c) /\ Entitled' = Entitled
  BY <1>1, Knows, LeavesAreClosures, EntitledKept
<1>3. ASSUME Entitled
      PROVE  verdict' = "accepted"
  <2>1. OnTheWay(c)
    BY <1>1, <1>3 DEF EntitledInv
  <2>2. ip \in Nat /\ ip > Len(Script(c))
    BY <1>1 DEF TypeOK, Finish, LeafScript
  <2>3. Len(stack) = 1 /\ Top(1) = True
    BY <1>2, <2>1, <2>2, LeafPasses
  <2> QED  BY <2>3 DEF Finish, True, Empty, Number
<1> QED  BY <1>1, <1>2, <1>3 DEF EntitledInv

\* Nothing changes while nothing happens.
LEMMA EntitledStutters ==
    ASSUME EntitledInv, UNCHANGED vars
    PROVE  EntitledInv'
<1>1. /\ Entitled' = Entitled /\ Leaves' = Leaves
      /\ \A c : WitnessFits(c) => WitnessFits(c)'
  BY EntitledKept DEF vars
<1>2. \A l, k : Holds(l, k) => Holds(l, k)'
  BY DEF Holds, Below, vars
<1>3. Top(1)' = Top(1) /\ Top(2)' = Top(2) /\ ip' = ip
  BY DEF Top, vars
<1>4. \A n : OnCondition(n) => OnCondition(n)'
  BY <1>2, <1>3 DEF OnCondition
<1>5. \A n, b : OnCSV(n, b) => OnCSV(n, b)'
  BY <1>2, <1>3 DEF OnCSV
<1>6. \A ks, q : OnChecksig(ks, q) => OnChecksig(ks, q)'
  BY <1>2, <1>3 DEF OnChecksig
<1>7. \A ks, q : OnChecksigAdd(ks, q) => OnChecksigAdd(ks, q)'
  BY <1>2, <1>3 DEF OnChecksigAdd
<1>8. \A m, q : OnMultisig(m, q) => OnMultisig(m, q)'
  BY <1>6, <1>7 DEF OnMultisig
<1>9. \A c : OnTheWay(c) => OnTheWay(c)'
  BY <1>3, <1>4, <1>5, <1>8 DEF OnTheWay, Ahead
<1>10. (Leaves[spend.leaf])' = Leaves[spend.leaf] /\ claim' = claim /\ verdict' = verdict
  BY <1>1 DEF vars
<1> QED  BY <1>1, <1>9, <1>10 DEF EntitledInv

\* Whoever is entitled is not turned away: for every timeout that fits a
\* locktime, and in both forms of a multisig, the node rejects no spend that
\* ClaimEscrow, SpendHTLC or a closure's Witness builds for the keys of a leaf,
\* with the secret and at the timeout or after it where the leaf asks for them.
THEOREM EntitledAreNotRejected ==
    ASSUME ShortTimeouts
    PROVE  Spec => []EntitledInv
<1>1. Init => EntitledInv
  BY DEF Init, EntitledInv
<1>2. ASSUME IndInv, EntitledInv, [Next]_vars
      PROVE  EntitledInv'
  <2>1. TypeOK
    BY <1>2 DEF IndInv
  <2>2. ASSUME NEW leaf \in 1 .. 4, NEW keys \in KeyLists, NEW preimage \in Preimages,
               ClaimEscrow(leaf, keys, preimage)
        PROVE  EntitledInv'
    BY <2>1, <2>2, ClaimEscrowEntitled
  <2>3. ASSUME NEW leaf \in 1 .. 2, NEW key \in Parties, NEW preimage \in Preimages,
               SpendHTLC(leaf, key, preimage)
        PROVE  EntitledInv'
    BY <2>1, <2>3, SpendHTLCEntitled
  <2>4. ASSUME NEW leaf \in 1 .. 4, NEW keys \in KeyLists, SpendClosure(leaf, keys)
        PROVE  EntitledInv'
    BY <2>1, <2>4, SpendClosureEntitled
  <2>5. CASE SpendOtherwise
    BY <1>2, <2>5, SpendOtherwiseEntitled
  <2>6. CASE Execute
    BY <1>2, <2>6, ExecuteEntitled
  <2>7. CASE Finish
    BY <1>2, <2>7, FinishEntitled
  <2>8. CASE UNCHANGED vars
    BY <1>2, <2>8, EntitledStutters
  <2> QED  BY <1>2, <2>2, <2>3, <2>4, <2>5, <2>6, <2>7, <2>8 DEF Next
<1> QED  BY <1>1, <1>2, Invariant, PTL DEF Spec

\* In short: no spend by somebody entitled is ever rejected.
THEOREM NoEntitledSpendIsRejected ==
    ASSUME ShortTimeouts
    PROVE  Spec => [](verdict = "rejected" => ~Entitled)
<1>1. EntitledInv => (verdict = "rejected" => ~Entitled)
  BY DEF EntitledInv
<1> QED  BY <1>1, EntitledAreNotRejected, PTL
=============================================================================
