---------------------------- MODULE EscrowScript ----------------------------
(***************************************************************************)
(* Who can spend the outputs of the system, and when: the closures of      *)
(* internal/script, the four leaves of the escrow and the two of the HTLC, *)
(* the witnesses that ClaimEscrow, SpendHTLC and the closures assemble,    *)
(* and the node that executes a leaf on a witness, one opcode per step.    *)
(*                                                                         *)
(* A closure's multisig has two forms: a CHECKSIG for each key, or a sum   *)
(* of CHECKSIGADDs.  The escrow and the HTLC use the first.  The contract  *)
(* "additive" is the escrow in the second form, which the package offers.  *)
(*                                                                         *)
(* A signature is good for the transaction it is in, and names its signer; *)
(* SHA256 is a constructor, so that it has no collisions.                  *)
(***************************************************************************)
EXTENDS Locktime, Sequences

CONSTANTS
    Cases,        \* pairs of a value given to --timeout and of the
                  \* confirmations the output has when it is spent
    Witnesses(_), \* stacks and sequences that others than this code try
    Sequences(_)  \* on an output with this timeout

IsSequence(s) == Len(s) \in Nat /\ s = [i \in 1 .. Len(s) |-> s[i]]

ASSUME EscrowScriptAssumption ==
    /\ Cases \subseteq Nat \X Nat
    /\ \A c \in Cases : /\ \A w \in Witnesses(c[1]) : IsSequence(w)
                       /\ Sequences(c[1]) \subseteq 0 .. Word - 1

\* No timeout needs more bits than a locktime has, or none is mistaken for an
\* opcode either.  The code tests neither.
ShortTimeouts    == \A c \in Cases : c[1] < Mask
ReadableTimeouts == ShortTimeouts /\ \A c \in Cases : c[1] # 0 /\ c[1] \notin 81 .. 96

VARIABLES
    contract,   \* the output that is spent: the escrow or an HTLC
    request,    \* what --timeout was when the output was made
    age,        \* its confirmations when the spend is broadcast
    spend,      \* the spend: leaf, sequence and witness
    claim,      \* the arguments of ClaimEscrow or SpendHTLC that built it
    ip,         \* the opcode the node executes next
    stack,      \* top last
    verdict     \* of the program that builds the spend, then of the node

vars == <<contract, request, age, spend, claim, ip, stack, verdict>>

Contracts == {"escrow", "htlc", "additive"}
Parties   == {"seller", "buyer", "oracle", "service"}
Verdicts  == {"none", "refused", "running", "accepted", "rejected"}

\* Items of a stack.
Sig(k)    == <<"sig", k>>
Key(k)    == <<"key", k>>
Data(x)   == <<"data", x>>
Sha256(x) == <<"sha256", x>>
Number(n) == <<"number", n>>
True      == Number(1)
Empty     == Number(0)

Push(x) == <<"PUSH", x>>
-----------------------------------------------------------------------------
(* Closures, and the leaves made of them. *)

MultisigOf(t, ks) == [type |-> t, keys |-> ks]

Multisig(m)     == [kind |-> "multisig", multisig |-> m]
CSV(m, l)       == [kind |-> "csv", multisig |-> m, locktime |-> l]
Condition(m, x) == [kind |-> "condition", multisig |-> m, condition |-> x]

HashIs(x) == << <<"SHA256">>, Push(Sha256(x)), <<"EQUAL">> >>

\* Each key is pushed and followed by its opcode.
WithKeys(ks, ops) ==
    [i \in 1 .. 2 * Len(ks) |->
        IF i % 2 = 1 THEN Push(Key(ks[(i + 1) \div 2])) ELSE <<ops[i \div 2]>>]

ChecksigScript(ks) ==
    WithKeys(ks, [i \in 1 .. Len(ks) |->
                    IF i = Len(ks) THEN "CHECKSIG" ELSE "CHECKSIGVERIFY"])

ChecksigAddScript(ks) ==
    WithKeys(ks, [i \in 1 .. Len(ks) |->
                    IF i = 1 THEN "CHECKSIG" ELSE "CHECKSIGADD"])
    \o << PushOf(Len(ks)), <<"NUMEQUAL">> >>

MultisigScript(m) == IF m.type = "checksig" THEN ChecksigScript(m.keys)
                                            ELSE ChecksigAddScript(m.keys)

\* Mutant of Script: the leaf asks for a block less than the inputs are given.
ScriptShort(c) ==
    (CASE c.kind = "multisig"  -> << >>
       [] c.kind = "csv"       -> << PushOf(LockTimeToSequence(c.locktime) - 1),
                                     <<"CSV">>, <<"DROP">> >>
       [] c.kind = "condition" -> Append(c.condition, <<"VERIFY">>))
    \o MultisigScript(c.multisig)

Script(c) ==
    (CASE c.kind = "multisig"  -> << >>
       [] c.kind = "csv"       -> << PushOf(LockTimeToSequence(c.locktime)),
                                     <<"CSV">>, <<"DROP">> >>
       [] c.kind = "condition" -> Append(c.condition, <<"VERIFY">>))
    \o MultisigScript(c.multisig)

\* NewEscrowScript, with multisigs of the type t, and NewHTLCScript.
EscrowClosures(t, timeout) ==
    << Condition(MultisigOf(t, <<"seller">>), HashIs(Data("secret"))),
       CSV(MultisigOf(t, <<"buyer">>), BlockLocktime(timeout)),
       Multisig(MultisigOf(t, <<"oracle", "seller">>)),
       Multisig(MultisigOf(t, <<"oracle", "buyer">>)) >>

HTLCClosures(timeout) ==
    << Condition(MultisigOf("checksig", <<"service">>), HashIs(Data("secret"))),
       CSV(MultisigOf("checksig", <<"service">>), BlockLocktime(timeout)) >>

Closures(con, timeout) ==
    CASE con = "escrow"   -> EscrowClosures("checksig", timeout)
      [] con = "htlc"     -> HTLCClosures(timeout)
      [] con = "additive" -> EscrowClosures("checksigadd", timeout)

Leaves == Closures(contract, TimeoutBlocks(request))
-----------------------------------------------------------------------------
(* Reading a closure back from its script. *)

\* Pairs of a key and an opcode, and what the keys are.
ArePairs(s) == /\ s # << >> /\ Len(s) % 2 = 0
               /\ \A i \in 1 .. Len(s) :
                     i % 2 = 1 => s[i][1] = "PUSH" /\ s[i][2][1] = "key"

KeysOf(s) == [i \in 1 .. Len(s) \div 2 |-> s[2 * i - 1][2][2]]

IsChecksig(s) == ArePairs(s) /\ s = ChecksigScript(KeysOf(s))

\* The number of keys and OP_NUMEQUAL follow; a number that has no opcode of
\* its own is not recognised.
Sum(s) == SubSeq(s, 1, Len(s) - 2)

IsChecksigAdd(s) ==
    /\ Len(s) > 2 /\ s[Len(s) - 1][1] = "SMALLINT"
    /\ ArePairs(Sum(s))
    /\ s = ChecksigAddScript(KeysOf(Sum(s)))

IsMultisig(s) == IsChecksig(s) \/ IsChecksigAdd(s)

DecodeMultisig(s) == IF IsChecksig(s) THEN MultisigOf("checksig", KeysOf(s))
                     ELSE MultisigOf("checksigadd", KeysOf(Sum(s)))

From(s, i) == SubSeq(s, i, Len(s))

IsCSV(s) ==
    /\ Len(s) > 3 /\ s[2] = <<"CSV">> /\ s[3] = <<"DROP">>
    /\ s[1][1] \in {"SMALLINT", "NUMBER"} /\ CanDecode(s[1])
    /\ IsMultisig(From(s, 4))

Verifies(s) == {i \in 1 .. Len(s) : s[i] = <<"VERIFY">>}
FirstVerify(s) == CHOOSE i \in Verifies(s) : \A j \in Verifies(s) : i <= j

IsCondition(s) == Verifies(s) # {} /\ IsMultisig(From(s, FirstVerify(s) + 1))

\* The closure, or Unknown.
Unknown == [kind |-> "unknown"]

DecodeClosure(s) ==
    CASE IsCSV(s) -> CSV(DecodeMultisig(From(s, 4)), BIP68DecodeSequence(s[1]))
      [] ~IsCSV(s) /\ IsMultisig(s) -> Multisig(DecodeMultisig(s))
      [] ~IsCSV(s) /\ ~IsMultisig(s) /\ IsCondition(s) ->
            Condition(DecodeMultisig(From(s, FirstVerify(s) + 1)),
                      SubSeq(s, 1, FirstVerify(s) - 1))
      [] OTHER -> Unknown
-----------------------------------------------------------------------------
(* The spend. *)

None     == "none"
KeyLists == {<< >>} \cup {<<k>> : k \in Parties} \cup {<<k, l>> : k, l \in Parties}
Preimages == {None, "secret", "other"}
NoClaim  == [keys |-> << >>, preimage |-> None]
NoSpend  == [leaf |-> 0, sequence |-> 0, witness |-> << >>]

DefaultSequence == Word - 1

Init ==
    /\ contract \in Contracts
    /\ \E c \in Cases : request = c[1] /\ age = c[2]
    /\ spend = NoSpend
    /\ claim = NoClaim
    /\ ip = 0
    /\ stack = << >>
    /\ verdict = "none"

\* The node looks at the input's sequence before it executes the leaf.
Broadcast(leaf, sequence, witness) ==
    /\ spend' = [leaf |-> leaf, sequence |-> sequence, witness |-> witness]
    /\ stack' = witness
    /\ ip' = 1
    /\ verdict' = IF Mature(sequence, age) THEN "running" ELSE "rejected"

\* Leaves 1 to 4 are the code's EscrowLeaf 0 to 3.
Complete(leaf, keys, preimage) ==
    /\ keys # << >>
    /\ leaf = 1 => preimage # None
    /\ leaf \in {3, 4} => Len(keys) = 2

\* Mutant of EscrowWitness: the signatures of a dispute in script order.
EscrowWitnessInOrder(leaf, keys, preimage) ==
    CASE leaf = 1 -> << Sig(keys[1]), Data(preimage) >>
      [] leaf = 2 -> << Sig(keys[1]) >>
      [] leaf \in {3, 4} -> << Sig(keys[1]), Sig(keys[2]) >>

\* finalizeEscrowWitness.
EscrowWitness(leaf, keys, preimage) ==
    CASE leaf = 1 -> << Sig(keys[1]), Data(preimage) >>
      [] leaf = 2 -> << Sig(keys[1]) >>
      [] leaf \in {3, 4} -> << Sig(keys[2]), Sig(keys[1]) >>

ClaimEscrow(leaf, keys, preimage) ==
    /\ contract = "escrow"
    /\ verdict = "none"
    /\ claim' = [keys |-> keys, preimage |-> preimage]
    /\ \/ /\ Complete(leaf, keys, preimage)
          /\ Broadcast(leaf,
                       IF leaf = 2 THEN LockTimeToSequence(Leaves[2].locktime)
                                   ELSE DefaultSequence,
                       EscrowWitness(leaf, keys, preimage))
       \/ /\ ~Complete(leaf, keys, preimage)
          /\ verdict' = "refused"
          /\ UNCHANGED <<spend, ip, stack>>
    /\ UNCHANGED <<contract, request, age>>

SpendHTLC(leaf, key, preimage) ==
    /\ contract = "htlc"
    /\ verdict = "none"
    /\ claim' = [keys |-> <<key>>, preimage |-> preimage]
    /\ Broadcast(leaf,
                 IF leaf = 2 THEN LockTimeToSequence(Leaves[2].locktime)
                             ELSE DefaultSequence,
                 IF leaf = 1 /\ preimage # None
                 THEN << Sig(key), Data(preimage) >> ELSE << Sig(key) >>)
    /\ UNCHANGED <<contract, request, age>>

\* Mutant of ClosureWitness: the signatures in the order of the keys.
ClosureWitnessInOrder(m) == [i \in 1 .. Len(m.keys) |-> Sig(m.keys[i])]

\* The Witness method of the closures: the signature of every key, of which
\* the caller has a map, the last key's first.
ClosureWitness(m) == [i \in 1 .. Len(m.keys) |-> Sig(m.keys[Len(m.keys) + 1 - i])]

\* A condition's Witness is not implemented; the others need every signature.
CanSign(c, keys) ==
    /\ c.kind # "condition"
    /\ \A i \in DOMAIN c.multisig.keys :
          \E j \in DOMAIN keys : keys[j] = c.multisig.keys[i]

SpendClosure(leaf, keys) ==
    /\ contract = "additive"
    /\ verdict = "none"
    /\ claim' = [keys |-> keys, preimage |-> None]
    /\ LET c == Leaves[leaf]
       IN  \/ /\ CanSign(c, keys)
              /\ Broadcast(leaf,
                           IF leaf = 2 THEN LockTimeToSequence(c.locktime)
                                       ELSE DefaultSequence,
                           ClosureWitness(c.multisig))
           \/ /\ ~CanSign(c, keys)
              /\ verdict' = "refused"
              /\ UNCHANGED <<spend, ip, stack>>
    /\ UNCHANGED <<contract, request, age>>

\* Any other transaction: the output can be spent without this code, with any
\* sequence.  BIP 68 takes the sequence of a version 1 transaction for nothing
\* and CSV fails in it, as they do when the sequence has the disable flag.
SpendOtherwise ==
    /\ verdict = "none"
    /\ \E leaf \in 1 .. Len(Leaves), sequence \in Sequences(request),
          witness \in Witnesses(request) :
          Broadcast(leaf, sequence, witness)
    /\ UNCHANGED <<contract, request, age, claim>>
-----------------------------------------------------------------------------
(* The node executes the leaf. *)

LeafScript == Script(Leaves[spend.leaf])

Operands(name) == CASE name \in {"PUSH", "SMALLINT", "NUMBER"} -> 0
                    [] name \in {"SHA256", "VERIFY", "CSV", "DROP"} -> 1
                    [] name \in {"EQUAL", "NUMEQUAL", "CHECKSIG",
                                 "CHECKSIGVERIFY"} -> 2
                    [] name = "CHECKSIGADD" -> 3

Top(i) == stack[Len(stack) + 1 - i]
Without(n) == SubSeq(stack, 1, Len(stack) - n)
Truth(b)  == IF b THEN True ELSE Empty

SignatureFits == Top(2) = Sig(Top(1)[2])
AddendFits    == Top(3) = Sig(Top(1)[2])

\* A signature that is neither good nor empty fails the whole script.
Succeeds(op) ==
    CASE op[1] = "VERIFY"         -> Top(1) # Empty
      [] op[1] = "CHECKSIG"       -> SignatureFits \/ Top(2) = Empty
      [] op[1] = "CHECKSIGVERIFY" -> SignatureFits
      [] op[1] = "CHECKSIGADD"    -> AddendFits \/ Top(3) = Empty
      [] op[1] = "CSV"            -> CheckSequence(Top(1)[2], spend.sequence)
      [] OTHER                    -> TRUE

After(op) ==
    CASE op[1] = "PUSH"           -> Append(stack, op[2])
      [] op[1] \in {"SMALLINT", "NUMBER"} -> Append(stack, Number(op[2]))
      [] op[1] = "SHA256"         -> Append(Without(1), Sha256(Top(1)))
      [] op[1] \in {"EQUAL", "NUMEQUAL"} ->
            Append(Without(2), Truth(Top(1) = Top(2)))
      [] op[1] = "CHECKSIGADD"    ->
            Append(Without(3), Number(Top(2)[2] + (IF AddendFits THEN 1 ELSE 0)))
      [] op[1] = "CHECKSIG"       -> Append(Without(2), Truth(SignatureFits))
      [] op[1] = "CHECKSIGVERIFY" -> Without(2)
      [] op[1] \in {"VERIFY", "DROP"} -> Without(1)
      [] op[1] = "CSV"            -> stack

Executes(op) == Len(stack) >= Operands(op[1]) /\ Succeeds(op)

Execute ==
    /\ verdict = "running"
    /\ ip <= Len(LeafScript)
    /\ LET op == LeafScript[ip]
       IN  \/ /\ Executes(op)
              /\ stack' = After(op)
              /\ ip' = ip + 1
              /\ UNCHANGED verdict
           \/ /\ ~Executes(op)
              /\ verdict' = "rejected"
              /\ UNCHANGED <<stack, ip>>
    /\ UNCHANGED <<contract, request, age, spend, claim>>

\* One item has to remain, and to be true.
Finish ==
    /\ verdict = "running"
    /\ ip > Len(LeafScript)
    /\ verdict' = IF Len(stack) = 1 /\ Top(1) # Empty
                  THEN "accepted" ELSE "rejected"
    /\ UNCHANGED <<contract, request, age, spend, claim, ip, stack>>

Next ==
    \/ \E leaf \in 1 .. 4, keys \in KeyLists, preimage \in Preimages :
          ClaimEscrow(leaf, keys, preimage)
    \/ \E leaf \in 1 .. 2, key \in Parties, preimage \in Preimages :
          SpendHTLC(leaf, key, preimage)
    \/ \E leaf \in 1 .. 4, keys \in KeyLists : SpendClosure(leaf, keys)
    \/ SpendOtherwise
    \/ Execute
    \/ Finish

Spec == Init /\ [][Next]_vars /\ WF_vars(Execute \/ Finish)
-----------------------------------------------------------------------------
TypeOK ==
    /\ contract \in Contracts
    /\ <<request, age>> \in Cases
    /\ spend.leaf \in 0 .. 4 /\ spend.sequence \in 0 .. Word - 1
    /\ IsSequence(spend.witness)
    /\ claim \in [keys : KeyLists, preimage : Preimages]
    /\ verdict \in Verdicts
    /\ ip \in 0 .. 9
    /\ Len(stack) <= Len(spend.witness) + 2

Signed(k)    == \E i \in DOMAIN spend.witness : spend.witness[i] = Sig(k)
Revealed     == \E i \in DOMAIN spend.witness : spend.witness[i] = Data("secret")

\* PROTOCOL.md, "Neither party, oracle, nor service can unilaterally spend the
\* escrow" and "Buyer cannot reclaim early": whatever the leaf and the witness,
\* the seller needs the secret or the oracle, and the buyer needs the oracle or
\* the timeout that was asked for.  The service alone takes back its HTLC, at
\* the timeout or with the preimage.
SpentByConsent ==
    verdict = "accepted" =>
        IF contract # "htlc"
        THEN \/ Signed("seller") /\ (Revealed \/ Signed("oracle"))
             \/ Signed("buyer") /\ (Signed("oracle") \/ age >= request)
        ELSE Signed("service") /\ (Revealed \/ age >= request)

\* The keys a leaf asks for, in the order the callers of ClaimEscrow give them.
Signers(leaf) == <<<<"seller">>, <<"buyer">>,
                   <<"oracle", "seller">>, <<"oracle", "buyer">>>>[leaf]

HasSigners ==
    CASE contract = "escrow"   -> claim.keys = Signers(spend.leaf)
      [] contract = "htlc"     -> claim.keys = <<"service">>
      [] contract = "additive" -> CanSign(Leaves[spend.leaf], claim.keys)

Entitled ==
    /\ claim # NoClaim
    /\ HasSigners
    /\ spend.leaf = 1 => claim.preimage = "secret"
    /\ spend.leaf = 2 => age >= request

\* Every spend that ClaimEscrow, SpendHTLC or Witness builds for a leaf's keys,
\* with the secret and after the timeout where they are needed, is accepted:
\* the order of the witness fits the script, the sequence fits the CSV.
EntitledIsPaid == (verdict = "running" /\ Entitled) ~> (verdict = "accepted")

\* PROTOCOL.md:248, "Funds locked for timeout_blocks. Buyer cannot reclaim
\* early": the timeout leaf is not spent before the timeout that was asked for.
NotReclaimedEarly ==
    verdict = "accepted" /\ contract = "escrow" /\ spend.leaf = 2
        => age >= request

\* locktime.go:49, "decodes a BIP68 sequence from script bytes": every leaf is
\* read back from its script as it was made.
LeavesDecode ==
    \A i \in 1 .. Len(Leaves) : DecodeClosure(Script(Leaves[i])) = Leaves[i]
-----------------------------------------------------------------------------
(* What is known of a witness when the node has come to an opcode. *)

\* The hash of an item of the witness.
IsHash(x) == \E i \in DOMAIN spend.witness : x = Sha256(spend.witness[i])

\* The items below the top k are the witness's, still in their places.
Below(k) ==
    /\ IsSequence(stack)
    /\ k <= Len(stack) /\ Len(stack) - k <= Len(spend.witness)
    /\ \A i \in 1 .. Len(stack) - k : stack[i] = spend.witness[i]

SignedUpTo(ks, n) == \A i \in 1 .. n : Signed(ks[i])

\* A number that is n only if the first n keys have signed.
Counts(x, ks, n) ==
    \E m \in 0 .. n : x = Number(m) /\ (m = n => SignedUpTo(ks, n))

\* The opcodes ahead of the multisig, and what they demand.
Ahead(c) == CASE c.kind = "multisig"  -> 0
              [] c.kind = "csv"       -> 3
              [] c.kind = "condition" -> 4

Unlocked(c) ==
    /\ c.kind = "condition" => Revealed
    /\ c.kind = "csv" =>
          CheckSequence(LockTimeToSequence(c.locktime), spend.sequence)

InCondition ==
    \/ ip = 1 /\ Below(0)
    \/ ip = 2 /\ Below(1) /\ IsHash(Top(1))
    \/ /\ ip = 3 /\ Below(2) /\ Top(1) = Sha256(Data("secret"))
       /\ IsHash(Top(2))
    \/ ip = 4 /\ Below(1) /\ (Top(1) # Empty => Revealed)

InCSV(n) ==
    \/ ip = 1 /\ Below(0)
    \/ ip = 2 /\ Below(1) /\ Top(1) = Number(n)
    \/ ip = 3 /\ Below(1) /\ CheckSequence(n, spend.sequence)

\* At opcode q of a multisig, in each of its two forms.
InChecksig(ks, q) ==
    \/ \E n \in 0 .. Len(ks) - 1 : q = 2 * n + 1 /\ Below(0) /\ SignedUpTo(ks, n)
    \/ \E n \in 0 .. Len(ks) - 1 :
          q = 2 * n + 2 /\ Below(1) /\ Top(1) = Key(ks[n + 1]) /\ SignedUpTo(ks, n)
    \/ /\ q = 2 * Len(ks) + 1 /\ Below(1)
       /\ Top(1) # Empty => SignedUpTo(ks, Len(ks))

InChecksigAdd(ks, q) ==
    \/ q = 1 /\ Below(0)
    \/ q = 2 /\ Below(1) /\ Top(1) = Key(ks[1])
    \/ \E n \in 1 .. Len(ks) : q = 2 * n + 1 /\ Below(1) /\ Counts(Top(1), ks, n)
    \/ \E n \in 1 .. Len(ks) - 1 :
          q = 2 * n + 2 /\ Below(2) /\ Top(1) = Key(ks[n + 1]) /\ Counts(Top(2), ks, n)
    \/ /\ q = 2 * Len(ks) + 2 /\ Below(2)
       /\ Top(1) = Number(Len(ks)) /\ Counts(Top(2), ks, Len(ks))
    \/ /\ q = 2 * Len(ks) + 3 /\ Below(1)
       /\ Top(1) # Empty => SignedUpTo(ks, Len(ks))

InMultisig(m, q) == IF m.type = "checksig" THEN InChecksig(m.keys, q)
                                           ELSE InChecksigAdd(m.keys, q)

Progress(c) ==
    \/ c.kind = "condition" /\ InCondition
    \/ c.kind = "csv" /\ InCSV(LockTimeToSequence(c.locktime))
    \/ Unlocked(c) /\ InMultisig(c.multisig, ip - Ahead(c))

\* The node runs a leaf of the output, in an input that is mature, and has
\* accepted only what the leaf demands.
NodeInv ==
    /\ verdict \in {"running", "accepted"} =>
          /\ spend.leaf \in 1 .. Len(Leaves)
          /\ Mature(spend.sequence, age)
    /\ verdict = "running" => Progress(Leaves[spend.leaf])
    /\ verdict = "accepted" =>
          LET c == Leaves[spend.leaf]
          IN  Unlocked(c) /\ SignedUpTo(c.multisig.keys, Len(c.multisig.keys))

IndInv == TypeOK /\ NodeInv
-----------------------------------------------------------------------------
(* What is on the stack of a spend by somebody entitled: items of the       *)
(* witness that are still to be used, and above them what the leaf made.    *)

\* The first l items of the witness, and k more.
Holds(l, k) == Below(k) /\ Len(stack) = l + k

\* The signatures are in the order in which the leaf takes them, last first,
\* with the secret above them, and the sequence is what the leaf demands.
WitnessFits(c) ==
    LET ks == c.multisig.keys
        n  == Len(ks)
    IN  /\ \A i \in 1 .. n : spend.witness[i] = Sig(ks[n + 1 - i])
        /\ c.kind = "condition" => spend.witness[n + 1] = Data("secret")
        /\ c.kind = "csv" =>
              CheckSequence(LockTimeToSequence(c.locktime), spend.sequence)

OnCondition(n) ==
    \/ ip = 1 /\ Holds(n + 1, 0)
    \/ ip = 2 /\ Holds(n, 1) /\ Top(1) = Sha256(Data("secret"))
    \/ /\ ip = 3 /\ Holds(n, 2)
       /\ Top(1) = Sha256(Data("secret")) /\ Top(2) = Top(1)
    \/ ip = 4 /\ Holds(n, 1) /\ Top(1) = True

OnCSV(n, blocks) ==
    \/ ip = 1 /\ Holds(n, 0)
    \/ ip = 2 /\ Holds(n, 1) /\ Top(1) = Number(blocks)
    \/ ip = 3 /\ Holds(n, 1)

OnChecksig(ks, q) ==
    \/ \E m \in 0 .. Len(ks) - 1 : q = 2 * m + 1 /\ Holds(Len(ks) - m, 0)
    \/ \E m \in 0 .. Len(ks) - 1 :
          q = 2 * m + 2 /\ Holds(Len(ks) - m, 1) /\ Top(1) = Key(ks[m + 1])
    \/ q = 2 * Len(ks) + 1 /\ Holds(0, 1) /\ Top(1) = True

OnChecksigAdd(ks, q) ==
    \/ q = 1 /\ Holds(Len(ks), 0)
    \/ q = 2 /\ Holds(Len(ks), 1) /\ Top(1) = Key(ks[1])
    \/ \E m \in 1 .. Len(ks) :
          q = 2 * m + 1 /\ Holds(Len(ks) - m, 1) /\ Top(1) = Number(m)
    \/ \E m \in 1 .. Len(ks) - 1 :
          /\ q = 2 * m + 2 /\ Holds(Len(ks) - m, 2)
          /\ Top(1) = Key(ks[m + 1]) /\ Top(2) = Number(m)
    \/ q = 2 * Len(ks) + 2 /\ Holds(0, 2) /\ Top(1) = Top(2)
    \/ q = 2 * Len(ks) + 3 /\ Holds(0, 1) /\ Top(1) = True

OnMultisig(m, q) == IF m.type = "checksig" THEN OnChecksig(m.keys, q)
                                           ELSE OnChecksigAdd(m.keys, q)

OnTheWay(c) ==
    LET n == Len(c.multisig.keys)
    IN  \/ c.kind = "condition" /\ OnCondition(n)
        \/ c.kind = "csv" /\ OnCSV(n, LockTimeToSequence(c.locktime))
        \/ OnMultisig(c.multisig, ip - Ahead(c))

\* The safety half of EntitledIsPaid: while the node runs a spend that this code
\* built for somebody entitled, the stack is at every opcode what the leaf needs
\* in order to go on, and the node never rejects it.
EntitledInv ==
    /\ verdict = "none" => claim = NoClaim
    /\ verdict \in {"running", "rejected"} /\ Entitled =>
          LET c == Leaves[spend.leaf]
          IN  verdict = "running" /\ WitnessFits(c) /\ OnTheWay(c)
=============================================================================
