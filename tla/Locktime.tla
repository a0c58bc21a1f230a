------------------------------ MODULE Locktime ------------------------------
(***************************************************************************)
(* Relative locktimes: internal/script/locktime.go, the script push of a   *)
(* locktime, and what a node makes of it (BIP 68, BIP 112).  The widths of *)
(* the bit fields are constants, so that values beyond every one of them   *)
(* fit into an instance.                                                   *)
(***************************************************************************)
EXTENDS Integers

CONSTANTS
    Mask,            \* sequenceLockTimeMask + 1: 2^16
    TypeFlag,        \* sequenceLockTimeTypeFlag: 2^22
    DisableFlag,     \* sequenceLockTimeDisableFlag: 2^31
    Word,            \* uint32 wraps here: 2^32
    SecondsMod,      \* seconds in a unit of a time lock: 512
    SecondsPerBlock

ASSUME LocktimeAssumption ==
    /\ {Mask, TypeFlag, DisableFlag, Word, SecondsMod, SecondsPerBlock}
          \subseteq Nat \ {0}
    /\ Mask <= TypeFlag /\ TypeFlag < DisableFlag
    /\ Word = 2 * DisableFlag   \* the highest bit

Bit(n, flag) == (n \div flag) % 2 = 1

\* createAction: uint32(c.Uint64("timeout")), unchecked.
TimeoutBlocks(request) == request % Word

\* Mutant of BlockLocktime: off by one.
BlockLocktimeShort(n) == [type |-> "block", value |-> n - 1]

\* BIP68Sequence checks seconds only; a number of blocks passes as it is.
BlockLocktime(n) == [type |-> "block", value |-> n]

ValidLocktime(l) ==
    l.type = "second" => /\ l.value <= (Mask - 1) * SecondsMod
                         /\ l.value % SecondsMod = 0

LockTimeToSequence(l) == IF l.type = "block" THEN l.value
                         ELSE TypeFlag + l.value \div SecondsMod

\* The script builder's AddInt64: 0 and 1 to 16 have opcodes of their own.
PushOf(n) == IF n <= 16 THEN <<"SMALLINT", n>> ELSE <<"NUMBER", n>>

\* BIP68DecodeSequenceFromBytes is given the byte of the opcode (OP_0 is 0,
\* OP_1 to OP_16 are 81 to 96) or the bytes that were pushed.
ScriptNumber(push) == IF push[1] = "NUMBER" THEN push[2] ELSE push[2] + 80

\* Mutant of SmallIntOf: the opcode is taken for the number.
SmallIntRaw(n) == n

SmallIntOf(n) == IF n \in 81 .. 96 THEN n - 80 ELSE n

\* A push of OP_0 is no minimal number; a disabled sequence is an error.
CanDecode(push) == /\ push # <<"SMALLINT", 0>>
                   /\ ~Bit(SmallIntOf(ScriptNumber(push)), DisableFlag)

BIP68DecodeSequence(push) ==
    LET n == SmallIntOf(ScriptNumber(push))
    IN  IF Bit(n, TypeFlag)
        THEN [type |-> "second", value |-> (n % Mask) * SecondsMod]
        ELSE BlockLocktime(n)
-----------------------------------------------------------------------------
(* The node. *)

\* OP_CHECKSEQUENCEVERIFY on the operand n, in an input with this sequence.
CheckSequence(n, sequence) ==
    \/ Bit(n, DisableFlag)
    \/ /\ ~Bit(sequence, DisableFlag)
       /\ Bit(n, TypeFlag) = Bit(sequence, TypeFlag)
       /\ n % Mask <= sequence % Mask

\* An input with this sequence may spend an output of `age` confirmations.
Mature(sequence, age) ==
    \/ Bit(sequence, DisableFlag)
    \/ IF Bit(sequence, TypeFlag)
       THEN age * SecondsPerBlock >= (sequence % Mask) * SecondsMod
       ELSE age >= sequence % Mask
=============================================================================
