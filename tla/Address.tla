------------------------------ MODULE Address ------------------------------
(***************************************************************************)
(* Addresses: pkg/escrow/bech32.go.  An escrow or HTLC address is encoded  *)
(* and handed to elementsd; a destination is typed or pasted by a user     *)
(* (--dest-address), perhaps with a mistake, and ClaimEscrow and SpendHTLC *)
(* decode it into the script that the money is sent to.                    *)
(*                                                                         *)
(* A text is a sequence of ASCII codes.  The accumulator of ConvertBits is *)
(* a word that wraps; its width is a constant, 32 bits in the code.        *)
(***************************************************************************)
EXTENDS Integers, Sequences

CONSTANTS
    Hrps,      \* networks' human-readable parts
    Programs,  \* witness programs that this code encodes
    Foreign,   \* data (version and groups of 5 bits) that others encode
    Typos,     \* characters that are typed in another's place
    Wrap       \* the accumulator wraps here: 2^32

ASSUME AddressAssumption ==
    /\ Wrap \in Nat /\ Wrap > 0 /\ Wrap % 2^16 = 0
    /\ Hrps \subseteq Seq(0 .. 127)
    /\ Programs \subseteq {p \in Seq(0 .. 255) : Len(p) < 256}
    /\ Foreign \subseteq Seq(0 .. 31)
    /\ Typos \subseteq 0 .. 127

VARIABLES
    origin,    \* what was encoded, and by whom
    text,      \* the address, as it is typed
    mistake,   \* made when it was typed
    paid       \* what the money is sent to

vars == <<origin, text, mistake, paid>>

\* No sequences of bytes.
Invalid == <<-1>>
Nothing == <<-2>>

\* Position i of the charset "qpzry9x8gf2tvdw0s3jn54khce6mua7l".
bech32Charset ==
    <<113, 112, 122, 114, 121, 57, 120, 56, 103, 102, 50, 116, 118, 100, 119, 48,
      115, 51, 106, 110, 53, 52, 107, 104, 99, 101, 54, 109, 117, 97, 55, 108>>

CharOf(d)  == bech32Charset[d + 1]
IsData(c)  == \E d \in 0 .. 31 : CharOf(d) = c
ValueOf(c) == CHOOSE d \in 0 .. 31 : CharOf(d) = c
Separator  == 49
-----------------------------------------------------------------------------
(* Groups of bits. *)

\* The accumulator after the first i values.
Accumulated(data, from) ==
    LET acc[i \in 0 .. Len(data)] ==
          IF i = 0 THEN 0 ELSE (acc[i - 1] * 2^from + data[i]) % Wrap
    IN  acc

\* Every full group, taken from the accumulator once its last bit is in.
FullGroups(data, from, to) ==
    LET acc == Accumulated(data, from)
    IN  [m \in 1 .. (Len(data) * from) \div to |->
            LET i == (m * to + from - 1) \div from
            IN  (acc[i] \div 2^(i * from - m * to)) % 2^to]

BitsLeft(data, from, to) == (Len(data) * from) % to

\* Mutant of LastGroup: the bits left over are not moved up.
LastGroupUnshifted(data, from, to) == Accumulated(data, from)[Len(data)] % 2^to

\* The bits left over, filled up with zeros.
LastGroup(data, from, to) ==
    (Accumulated(data, from)[Len(data)] * 2^(to - BitsLeft(data, from, to))) % 2^to

\* Mutant of ConvertBits: the padding is not looked at.
ConvertBitsLax(data, from, to, pad) ==
    IF pad /\ BitsLeft(data, from, to) > 0
    THEN Append(FullGroups(data, from, to), LastGroup(data, from, to))
    ELSE FullGroups(data, from, to)

ConvertBits(data, from, to, pad) ==
    IF pad /\ BitsLeft(data, from, to) > 0
    THEN Append(FullGroups(data, from, to), LastGroup(data, from, to))
    ELSE IF ~pad /\ (BitsLeft(data, from, to) >= from
                       \/ LastGroup(data, from, to) # 0)
    THEN Invalid
    ELSE FullGroups(data, from, to)
-----------------------------------------------------------------------------
(* The checksum.  Its word of 30 bits is a sequence of six groups of 5. *)

Groups(word) == [j \in 1 .. 6 |-> (word \div 32^(6 - j)) % 32]

bech32Const  == Groups(1)
bech32mConst == Groups(734539939)

gen == << Groups(996825010), Groups(642813549), Groups(513874426),
          Groups(1027748829), Groups(705979059) >>

\* The exclusive or of two groups, and of two words.
Bit(b, k) == (b \div 2^k) % 2

XorGroup == [a \in 0 .. 31 |-> [b \in 0 .. 31 |->
               LET x(k) == 2^k * ((Bit(a, k) + Bit(b, k)) % 2)
               IN  x(0) + x(1) + x(2) + x(3) + x(4)]]

Xor(v, w) == [j \in 1 .. 6 |-> XorGroup[v[j]][w[j]]]

\* The generators of the first n bits of b.
Generators(n) ==
    [b \in 0 .. 31 |->
        LET x[i \in 0 .. n] == IF i = 0 THEN Groups(0)
                               ELSE IF Bit(b, i - 1) = 1
                                    THEN Xor(x[i - 1], gen[i]) ELSE x[i - 1]
        IN  x[n]]

\* Mutant of Feedback: the loop ends one generator early.
FeedbackOfFour == Generators(4)

Feedback == Generators(5)

\* A value shifts the word by one group; the group that leaves it on the left
\* selects the generators, if it is not zero.
Shifted(c, v) == <<c[2], c[3], c[4], c[5], c[6], v>>
Fed(c, v) == IF c[1] = 0 THEN Shifted(c, v) ELSE Xor(Shifted(c, v), Feedback[c[1]])

bech32mPolymod(values) ==
    LET chk[i \in 0 .. Len(values)] ==
          IF i = 0 THEN Groups(1) ELSE Fed(chk[i - 1], values[i])
    IN  chk[Len(values)]

HrpExpand(hrp) == [i \in 1 .. Len(hrp) |-> hrp[i] \div 32] \o <<0>>
                    \o [i \in 1 .. Len(hrp) |-> hrp[i] % 32]

Checksum(hrp, data, const) ==
    Xor(bech32mPolymod(HrpExpand(hrp) \o data \o <<0, 0, 0, 0, 0, 0>>), const)

\* The code encodes with bech32mConst only, others with either.
Encoded(hrp, data, const) ==
    LET combined == data \o Checksum(hrp, data, const)
    IN  hrp \o <<Separator>> \o [i \in 1 .. Len(combined) |-> CharOf(combined[i])]

EncodeBech32m(hrp, program) ==
    Encoded(hrp, <<1>> \o ConvertBits(program, 8, 5, TRUE), bech32mConst)
-----------------------------------------------------------------------------
(* Reading an address. *)

Separators(t) == {i \in 1 .. Len(t) : t[i] = Separator}
LastSeparator(t) == CHOOSE i \in Separators(t) : \A j \in Separators(t) : j <= i

HrpPart(t)  == SubSeq(t, 1, LastSeparator(t) - 1)
DataPart(t) == SubSeq(t, LastSeparator(t) + 1, Len(t))
Values(t)   == [i \in 1 .. Len(DataPart(t)) |-> ValueOf(DataPart(t)[i])]

\* Both constants are taken, whatever the version.
WellFormed(t) ==
    /\ Separators(t) # {}
    /\ Len(DataPart(t)) >= 6
    /\ \A i \in 1 .. Len(DataPart(t)) : IsData(DataPart(t)[i])
    /\ bech32mPolymod(HrpExpand(HrpPart(t)) \o Values(t))
          \in {bech32Const, bech32mConst}
    /\ Len(DataPart(t)) > 6

\* The version and the program.
DecodeBech32(t) ==
    IF WellFormed(t)
    THEN LET v == Values(t)
         IN  <<v[1], ConvertBits(SubSeq(v, 2, Len(v) - 6), 5, 8, FALSE)>>
    ELSE <<0, Invalid>>

AddressToOutputScript(t) ==
    LET decoded == DecodeBech32(t)
        version == decoded[1]
        program == decoded[2]
    IN  IF program = Invalid THEN Invalid
        ELSE <<IF version = 0 THEN 0 ELSE 80 + version, Len(program) % 256>>
               \o program
-----------------------------------------------------------------------------
NoOrigin == [by |-> "nobody"]

Init ==
    /\ origin = NoOrigin
    /\ text = << >>
    /\ mistake = "none"
    /\ paid = Nothing

\* The address of an escrow or of an HTLC.
Encode(hrp, program) ==
    /\ origin = NoOrigin
    /\ origin' = [by |-> "escrow", program |-> program]
    /\ text' = EncodeBech32m(hrp, program)
    /\ UNCHANGED <<mistake, paid>>

\* The address of a wallet.
EncodeElsewhere(hrp, data, const) ==
    /\ origin = NoOrigin
    /\ origin' = [by |-> "wallet", const |-> const]
    /\ text' = Encoded(hrp, data, const)
    /\ UNCHANGED <<mistake, paid>>

\* One character is typed in the place of another, or two are swapped.
Mistyped(kind, t) ==
    /\ origin # NoOrigin
    /\ mistake = "none"
    /\ paid = Nothing
    /\ t # text
    /\ mistake' = kind
    /\ text' = t
    /\ UNCHANGED <<origin, paid>>

Replace(i, c) == Mistyped("replace", [text EXCEPT ![i] = c])
Swap(i)       == Mistyped("swap", [text EXCEPT ![i] = text[i + 1],
                                               ![i + 1] = text[i]])

\* A character is left out, or typed twice.
Omit(i)   == Mistyped("omit", SubSeq(text, 1, i - 1) \o SubSeq(text, i + 1, Len(text)))
Repeat(i) == Mistyped("repeat", SubSeq(text, 1, i) \o SubSeq(text, i, Len(text)))

\* ClaimEscrow and SpendHTLC.
Pay ==
    /\ origin # NoOrigin
    /\ paid = Nothing
    /\ paid' = AddressToOutputScript(text)
    /\ UNCHANGED <<origin, text, mistake>>

Next ==
    \/ \E hrp \in Hrps, p \in Programs : Encode(hrp, p)
    \/ \E hrp \in Hrps, d \in Foreign, c \in {bech32Const, bech32mConst} :
          EncodeElsewhere(hrp, d, c)
    \/ \E i \in 1 .. Len(text) : \/ \E c \in Typos : Replace(i, c)
                                 \/ Omit(i)
                                 \/ Repeat(i)
    \/ \E i \in 1 .. Len(text) - 1 : Swap(i)
    \/ Pay

Spec == Init /\ [][Next]_vars
-----------------------------------------------------------------------------
Script == paid \notin {Nothing, Invalid}

\* BIP 173's definition of the groups: the bits of the program from the first
\* to the last, five by five, zeros at the end.
BitOf(p, n) == IF n < 8 * Len(p) THEN (p[n \div 8 + 1] \div 2^(7 - (n % 8))) % 2 ELSE 0
GroupsOf(p) == [m \in 1 .. (8 * Len(p) + 4) \div 5 |->
                  LET b(j) == BitOf(p, 5 * (m - 1) + j)
                  IN  16 * b(0) + 8 * b(1) + 4 * b(2) + 2 * b(3) + b(4)]

\* Money sent to an address that the code encoded goes to that version-1
\* program, whoever decodes it: this code or a node that follows BIP 350.
EncodingIsRead ==
    origin.by = "escrow" /\ mistake = "none" =>
        /\ SubSeq(Values(text), 2, Len(Values(text)) - 6) = GroupsOf(origin.program)
        /\ paid # Nothing =>
              paid = <<81, Len(origin.program)>> \o origin.program

\* No money is sent to a mistyped address.  A character left out or typed
\* twice is sure to be found with the constant of bech32m alone.
MistakeIsRefused ==
    \/ mistake = "none"
    \/ mistake \in {"omit", "repeat"} /\ origin.by = "wallet"
         /\ origin.const = bech32Const
    \/ paid \in {Nothing, Invalid}

\* Two texts of one network never mean the same script but for the constant of
\* their checksum: a text that is accepted is the one that its script encodes.
AcceptedIsCanonical ==
    Script =>
        LET version == IF paid[1] = 0 THEN 0 ELSE paid[1] - 80
            program == SubSeq(paid, 3, Len(paid))
            groups  == <<version>> \o ConvertBits(program, 8, 5, TRUE)
        IN  \E c \in {bech32Const, bech32mConst} :
               Encoded(HrpPart(text), groups, c) = text
=============================================================================
