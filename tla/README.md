# A TLA+ model of the Liquid Ark escrow

The program moves a buyer's Lightning payment into a taproot output on Liquid
(the *escrow*), and from there to the seller or back to the buyer. Each
subcommand of `cmd/escrow` is a process of its own. It loads a JSON file, makes a
few blocking calls to `elementsd` and to LND, and saves the file. There is no
daemon, no lock, no log and no retry, so what goes wrong goes wrong between two
calls, or between two commands.

The modules here model those commands call by call, alone and all together, the two
nodes they talk to, the scripts that decide who may spend, and the addresses that
money is sent to. TLC checks small instances; TLAPS proves the main safety
properties for any number of runs and any amounts.

## 1. Inventory

| Component | Source | State | Operations |
|---|---|---|---|
| Deal state machine | `pkg/escrow/deal.go` | one record: state, keys, secret, outpoint, claim transaction | `NewDeal`, `Join`, `SetEscrowAddress`, `Fund`, `Ship`, `Release`, `Refund`, `Dispute` |
| File store | `pkg/escrow/store.go` | one JSON file per deal | `Save` (`os.WriteFile`), `Load`, `List` |
| `escrow fund` | `commands.go` `fundAction`, `swap/fund.go`, `swap/liquid_htlc.go` | in memory only: preimage, service key, HTLC | lock the HTLC, add the HODL invoice, poll, claim to the escrow address, settle, record |
| `escrow release`, `refund`, `dispute`, `ship` | `commands.go`, `swap/escrow_claim.go`, `swap/payout.go` | copy of the deal | spend the escrow output, pay the recipient, close the deal |
| `escrow recoverykit`, `recover` | `commands.go`, `pkg/escrow/recovery.go` | the kit, outside the file store | make a kit, spend the escrow output with it |
| `escrow create`, `join`, `status` | `commands.go` | copy of the deal | write the first deal, draw the buyer's keys, print |
| Scripts and closures | `internal/script/`, `pkg/escrow/escrow.go`, `swap/liquid_htlc.go` | none | make and decode leaves, assemble witnesses |
| Relative locktimes | `internal/script/locktime.go` | none | BIP 68 encoding and decoding |
| LND client | `swap/lnd.go` | LND: an invoice per run, a payment per run | add, look up, settle invoice; send payment |
| elementsd client | `swap/rpc.go`, `swap/htlc.go`, `swap/tx.go` | the chain: HTLC and escrow outputs, confirmations | send, broadcast, look up, mine |
| Addresses | `pkg/escrow/bech32.go`, `elements.go` | none | encode a taproot address, decode a destination into its script |
| Core Lightning client, flags, end-to-end harness | `swap/cln.go`, `cmd/escrow/main.go`, `cmd/escrow-test` | none that a command branches on | not modelled |

How they interact: a command calls the deal's methods directly and the two nodes
over HTTP, one request at a time. Commands meet only in the deal file, in the
escrow output and at LND. There are no callbacks and no goroutines that share
state.

What is hard to test:

* **Partial failure.** Every call may fail before or after its effect. The
  client gives up after 30 seconds while LND may go on for 60.
* **Crashes.** The preimage and the key of the HTLC are in memory only.
* **Interleaving.** Two commands load one file, change their own copies and save
  whole copies over each other. Saving truncates the file before writing it.
* **Checks after the fact.** `deal.Fund` and `deal.Release` run after the money
  has moved, on the copy that was loaded before.
* **Stale answers.** The invoice is ACCEPTED when polled and may be canceled
  before it is settled.
* **Sequences of commands.** A join, a fund and a release each leave behind what the
  next one trusts: an address, an outpoint, a kit. Any of them may be stale.
* **Boundaries.** Two dust limits, a fee that is paid twice, 16 bits of locktime
  in 32 bits of argument, small integers that are opcodes.

What makes each part correct:

* fund: the payment is taken only if the escrow output exists; it exists only if
  the payment was held; a FUNDED file names an output whose swap went through.
* ending a deal: one spend, at most one payment, to the party the command is for;
  a closed file names both; a payment that succeeded reaches the file.
* scripts: nobody spends without the consent or the delay of PROTOCOL.md, and
  whoever is entitled is not refused by a witness in the wrong order.
* all commands together: an outpoint in a file, a kit or a process's memory has the
  keys and the amount it was made with, and the service pays nobody for an output
  whose buyer has not paid.
* addresses: what is encoded is what other software reads, and a mistyped
  destination is refused.
* locktimes: what is encoded is decoded, and is not shorter than was asked for.

## 2. Modules

```
Deal <- Command <- JoinDeal
                <- FundSwap    <- FundSwapProofs     FundSwap    => AtomicSwap
                <- ClaimPayout <- ClaimPayoutProofs  ClaimPayout => EscrowOutcome
Deal <- EscrowSystem (JoinDeal, FundSwap, ClaimPayout)  => EscrowService (AtomicSwap, EscrowOutcome)
                     <- EscrowSystemProofs <- EscrowServiceProofs
Locktime <- EscrowScript       <- EscrowScriptProofs <- EntitledProofs
Address  <- ChecksumProofs     <- AddressProofs
```

`<-` is EXTENDS, `=>` is refinement (INSTANCE ... WITH). The `MC` modules give
the constants of the instances their values. Parentheses are INSTANCE.

**Deal** (`deal.go`). The record and its seven transitions as operators: `CanX`
is the guard of method `X`. Everything `Join` and `SetEscrowAddress` store
together (key, secret, hash, address) is one field `buyer`. The module also has
the two amounts the rest depends on: `AboveDust`, `EscrowValue`.

**Command** (`store.go` and what all commands share). `pc[r]` is the call run `r`
makes next and `copy[r]` the deal it has in memory. A call of a run in `Faulty`
may fail with its effect (`Answered`) or without it (`Refused`), after which the
command has returned and its memory is lost; `Die` is a crash. `Save` is two
steps, and a `Torn` file does not parse. When two runs write at once the file may
stay torn, because the shorter text leaves the tail of the longer.

**JoinDeal** (`createAction`, `joinAction`). `create` writes the first file and prints
the token; any number of joins read the file or rebuild the deal from the token
(`Loaded`), draw the keys that bear their name and save. A missing file and a torn
one are the same to `joinAction`, and so they are in the model.

**FundSwap** (`fundAction`, `fund.go`, `liquid_htlc.go`). One action per blocking
call: `Load`, `Lock` (SendToAddress), `Confirm`, `AddHoldInvoice`, `Poll`,
`ClaimHTLC`, `Settle`, `Record` (FindVoutByAddress and deal.Fund), `Truncate` and
`Write`. LND is `invoice`, and `Pay`, `Expire`, `CancelHeld` are what happens
there without the command. elementsd is `htlc`.

**AtomicSwap**. PROTOCOL.md's swap without processes: per swap a payment that is
offered, held, then taken or given back, and an escrow that exists or not.

**ClaimPayout** (the commands that end a deal). `kind[r]` is the command, with
`dispute` split by winner and `recover` by owner. `Load` makes every test that
comes before the first call, then `Lookup` (GetTxOut, only in recover),
`ClaimEscrow`, `SendPayment`, `AwaitPayment`, `Truncate`, `Write`. `Spendable` is
ClaimEscrow's own tests and the node's: the outpoint, the amount signed for, dust,
the timeout and whether the output is unspent. `Outputs` are the transactions that
paid to the escrow address, one in `claim_payout` and one per run of fund in
`escrow_system`, for each of which `mature` says whether its timeout has passed.
`ExportKit` is `recoverykit`; a kit without an outpoint is as good as none, because
`recover` refuses it before it does anything.

The amount is worth a word. The commands and the kit use `deal.Amount`, but the
HTLC's fee has left less in the output, and the node refuses a signature over
another value. So the shipped commands cannot end a deal at all, and
`cmd/escrow-test` passes the real value. `Informed` is the set of runs that pass
it; `claim_payout` uses it so that the rest of the commands happens, and
`claim_recovery` shows what happens without it. The proofs hold for any `Informed`.

**EscrowOutcome**. The end of a deal without commands: each output is claimed once for
one party, to whom one payment follows, or it is recovered once.

**EscrowSystem** (all commands). JoinDeal, FundSwap and ClaimPayout as three instances
with their own program counters and memories, over one file, one kit and one chain.
The components start from whatever another might leave behind; here the others
leave it: `JoinStep` is a step of create or join, `FundStep` of fund, LND or the
buyer (with the kit that fund prints at its end), `EndStep` of a command that ends
the deal. An output can only mature once it exists.

**EscrowService**. What the whole service promises: an AtomicSwap and an EscrowOutcome
per output, where the second moves only when the first has taken the payment.

**Locktime** (`locktime.go`, and BIP 68 and BIP 112 as the node applies them). The
widths of the bit fields are constants.

**EscrowScript** (`internal/script`, `escrow.go`, `liquid_htlc.go`,
`escrow_claim.go`). Closures, the four leaves of the escrow and the two of the
HTLC, `DecodeClosure`, `ClaimEscrow` and `SpendHTLC` with every argument a caller
could give, `SpendOtherwise` for transactions this code did not make, and the node:
one opcode per `Execute`. What others put into an input is a parameter, any stacks
(`Witnesses`) and any numbers of the width of a sequence (`Sequences`), because a
buyer who is early will try a lower sequence than the leaf's, or one with flags. A signature names its signer, and SHA256 is a
constructor. The closures have a second form of a multisig, CHECKSIGADD, and a
`Witness` method of their own, which no contract uses. The contract `additive` is the
escrow with multisigs of that form, spent by `Witness` (`SpendClosure`).

**Address** (`bech32.go`). `ConvertBits` with its accumulator, the checksum and its
generators, encoding and decoding, on texts as sequences of ASCII codes. An address
is made by this code or by a wallet, is typed with one mistake or none, and is
decoded where `ClaimEscrow` and `SpendHTLC` do it (`Pay`).

## 3. Runs

| Run | Question | Answer |
|---|---|---|
| `fund_swap` | three overlapping runs of fund, two of them faulty: do payment, HTLC, invoice and file stay consistent, is it an atomic swap, does every run end, does a settled swap of the sound run reach the file? | yes |
| `fund_reclaim` | is a locked HTLC reclaimed, as `fund.go:65` says? | no |
| `fund_restart` | does the file lead to the escrow output after a crash, as PROTOCOL.md:127 says? | no |
| `fund_twice` | is a deal paid for once, as `recovery_fuzz_test.go:294` expects? | no |
| `claim_payout` | a faulty and a sound run, each of any command: one spend, one payment, a truthful file; does every command end, and a success reach the file? | yes |
| `claim_recovery` | can the buyer recover after the timeout, as PROTOCOL.md:187 says? | no |
| `escrow_system` | two joins, two funds and a command that ends the deal, all overlapping: is every outpoint its buyer's, is every payout backed by a payment, do the components keep their invariants, is it the abstract service? | yes |
| `join_rebuilds` | does a join replace only what "doesn't exist locally" (`commands.go:101`)? | no |
| `scripts` | every leaf on every witness of up to three items, on every witness the code builds, and, with locktimes and ages at the boundaries, on every sequence that might open it early: what does the node know at each opcode, does nobody spend alone or early, is an entitled spend accepted, a leaf decoded? | yes |
| `script_early` | is the timeout kept for any value of `--timeout` (PROTOCOL.md:248)? | no, 2^16 is encoded as 0 |
| `script_decode` | is every leaf decoded as it was made (`locktime.go:49`)? | no, 81 becomes 1 |
| `address` | is an encoded address BIP 350's and read back, a mistyped one refused, an accepted one canonical? | yes |

The runs with the answer "no" are expected violations. The shortest
counterexamples:

* `fund_reclaim`: lock, AddHoldInvoice fails. The only call of SpendHTLC uses leaf
  0, the refund leaf is spent by nothing, and its key is gone.
* `fund_restart`: the HTLC is claimed, then the process dies. The file says JOINED.
* `fund_twice`: both runs load JOINED, both are paid and settled, both deals say
  FUNDED, and the second file overwrites the first outpoint. No fault is needed.
* `claim_recovery`: kit, output mature, ClaimEscrow refused for its value.
* `join_rebuilds`: create is done; a first join truncates the file; a second reads
  it, rebuilds the deal from the token and saves it last. No fault is needed.

What `escrow_system` rules out is as instructive as what it finds. However joins and
funds overwrite each other, an outpoint never meets foreign keys, because every
command saves the whole deal it worked with and `CanJoin` keeps a deal from being
joined after it was funded (`OutpointIsBuyers` fails without that guard). The price is the
other way round: a late join's save can erase a FUNDED deal, and the buyer is then
left with the kit that fund printed. `PayoutIsBacked` needs fund to check the answer
of SettleInvoice before it records the outpoint.

Two differences between code and comments have no run of their own. `payout.go:35`
says that the escrow is claimed after the payout; the commands do it before, and
EscrowOutcome describes what they do. And a closed file need not stay closed: a
`ship` that loaded FUNDED before a release saves SHIPPED after it
(`ClosedTellsTruth` says only that a file that is closed tells the truth).

### Bounds

* Two runs, three in `fund_swap` (two may fail, one may not). Every conflict here is
  between one run's call and one other run's. The proofs of the safety properties
  need no bound, and cover the case of two faulty runs that `claim_payout` leaves
  out in order to have a sound one.
* Amounts 0, 545, 1046, 1047 in FundSwap: refused, below the wallet's dust limit,
  lockable but not claimable, the least that is claimable. 1546 and 1547 in
  ClaimPayout: the largest that cannot be spent again and the least that can.
* `claim_payout` has one output, immature or mature: the node compares nothing else
  of its age.
* `escrow_system`: one create, two joins, two funds, one command that ends the deal,
  one amount that is large enough for everything; the joins may fail and crash, the
  others are sound here because their faults are the subject of `fund_swap` and
  `claim_payout` and of their proofs. Joins differ in nothing but their names, nor do funds, no
  property names one, and none is a liveness property, so the two sets are
  symmetric. Two joins and two funds are the least with which two buyers' keys and
  two outputs can be mixed up.
* Scripts: `Mask = 128`, `TypeFlag = 512`, `DisableFlag = 2048`, `Word = 4096` in
  place of 2^16, 2^22, 2^31, 2^32. There is a gap between the counted bits and the
  flags as in BIP 68, every small integer and every opcode from 81 to 96 fits
  below `Mask`, and each field can be overrun. `scripts` tries all witnesses of up to
  three items of seven kinds, which is more than any leaf takes, on a timeout of 2,
  and what the code builds on timeouts of 1, 2, 16, 17, 80, 97 and 127, one block too
  early and in time. Others' sequences are all 4096 on a timeout of 17, for the buyer
  who is early. On the other timeouts they are those next to the timeout, to 0 and to
  the width of the field, also with bits set that BIP 68 ignores and with either
  flag; on the timeout of 2, where every witness is tried, six of them that
  differ in what the node makes of them. 0 and 81 to 96 belong to `script_decode`, 128 to `script_early`.
* Addresses: programs of one to five bytes whose bits start and end in every way,
  and one of 20 bytes, the hash of a key; two networks; versions 0, 1 and 31 with up to
  two groups and so with every kind of padding, with both constants; one mistake,
  with every character of the charset and three others at every place.
  `Wrap` is 2^22 in place of 2^32, because TLC's integers have 32 bits; a group
  never reads more than 12 bits of the accumulator.

Deadlock is not checked: commands end, and the last state of a run is its end.

### Fairness

`FundSwap` assumes weak fairness of each run's own steps (a process is not
suspended for ever; each call has the client's timeout) and of `Expire` (LND
cancels an unpaid invoice, fund.go asks for one hour). Nothing makes the buyer pay
or LND cancel a held payment. `ClaimPayout` assumes weak fairness of each run's
steps once it was started and of `Deliver` (LND resolves a payment within
`TimeoutSecs`). No command is ever obliged to start and no block to be mined.
`EscrowScript` assumes that the node finishes a script it started. Crashes and
failing calls carry no fairness.

`SettledIsFunded` and `PaidIsClosed` speak of runs outside `Faulty`: a call that
fails loses the record, which is what `fund_restart` says. They allow a torn file,
since an overlapping save can tear it for good. `PaidIsClosed` looks at the file
when the run is done, so that its own truncation does not count: the run must have
written its own end of the deal, whatever a stale command (`ship`, say) saves over it
later. `SettledIsFunded` can ask for more because SETTLED is for ever, and
`FundedIsKept` says the same of the file: once it says FUNDED, every later
content is FUNDED or torn, so that no run of fund takes the funding back by way of
the file it has truncated.

## 4. Proofs

Eight modules hold proofs. They hold for any sets of runs, faulty runs, buyers,
amounts, timeouts, ages, programs and texts, and any stacks and sequences (up to all
2^32) that others put into a transaction, under the named assumptions on constants (`DealAssumption`, `CommandAssumption`,
`ClaimPayoutAssumption`, `EscrowSystemAssumption`, `LocktimeAssumption`,
`EscrowScriptAssumption`, `AddressAssumption`), which TLC evaluates on every run of a
module that extends theirs. Where a theorem needs more, its statement says so.

`AddressAssumption` says what the texts are made of: human-readable parts and typed
characters are ASCII, programs are bytes and shorter than 256 (the script has one
byte for the length, `bech32.go:94`; a taproot program has 32), others' data are
groups of 5 bits, and the accumulator is a word of 16 bits or more (`uint32` in the
code, so that 2^16 divides `Wrap`).

| Theorem | States |
|---|---|
| `FundSwapProofs!Invariant`, `TypeCorrect` | `[]IndInv`, `[]TypeOK` |
| `PaidHasEscrow` | a settled invoice has a claimed HTLC |
| `EscrowWasHeld` | a claimed HTLC had a held payment |
| `FundedIsBacked` | a FUNDED file names a settled swap |
| `DustIsFree` | a deal that is dust never costs the buyer |
| `NoFundingIsUndone` | once FUNDED, the file stays FUNDED or being written |
| `SwapIsAtomic` | FundSwap implements AtomicSwap |
| `ClaimPayoutProofs!Invariant`, `TypeCorrect` | `[]IndInv`, `[]TypeOK` |
| `OnlyClaimerPays` | LND is asked to pay only by the run that spent the output |
| `ClosedIsTrue` | a closed file names the spend and a payment that succeeded |
| `DealEndsOnce` | ClaimPayout implements EscrowOutcome |
| `EscrowSystemProofs!Invariant` | `[]RecordInv` |
| `OutpointsKeepTheirBuyers` | a record that names an output has its keys and its amount |
| `PayoutsAreBacked` | a party is paid only for an output that a buyer has paid for |
| `EscrowServiceProofs!ComponentsKeepTheirInvariants` | the invariants of FundSwap and ClaimPayout hold with all commands together |
| `SystemIsTheService` | EscrowSystem implements EscrowService |
| `EscrowScriptProofs!NotEarly`, `NotLate` | a leaf that demands n blocks opens after exactly n, n below 2^16 |
| `BlocksDecode`, `OpcodesAreMistaken` | n is read back unless it is 0 or the byte of an opcode; 81 to 96 are read as 80 less |
| `EscrowScriptProofs!Invariant`, `TypeCorrect` | `[]IndInv`, `[]TypeOK` |
| `NobodySpendsAlone` | each party spends only with the consent or the delay of PROTOCOL.md (`ShortTimeouts`) |
| `TimeoutIsKept` | no escrow is reclaimed early, with any sequence (`ShortTimeouts`) |
| `DecodingInverts` | every leaf is read back as it was made (`ReadableTimeouts`) |
| `EntitledProofs!EntitledAreNotRejected` | `[]EntitledInv` (`ShortTimeouts`) |
| `NoEntitledSpendIsRejected` | the node rejects no spend that the code builds for the keys of a leaf, with the secret and at the timeout (`ShortTimeouts`) |
| `ChecksumProofs!ChecksumFits` | the six values that are appended fit the checksum, and no other six do |
| `AddressProofs!ProgramIsPaid` | decoding inverts encoding, for a program of any length |
| `ScriptIsCanonical` | a text that is taken is what its script encodes, with one of the two constants |
| `ReplacedIsNoticed`, `SwappedIsNoticed` | one character replaced, or two neighbours swapped, in the data of an address of any length change its checksum |
| `AddressEncodingIsRead` | `[]EncodingIsRead` |
| `AddressAcceptedIsCanonical` | `[]AcceptedIsCanonical` |

The argument. None of the properties is inductive: that Settle leaves the HTLC
claimed follows only from what a run at `settle` knows. `IndInv` in each module
adds this, per program counter (`RunInv`): a run at `claim` saw its invoice
ACCEPTED, so it is ACCEPTED or CANCELED since and the payment arrived; a run at
`settle` has its HTLC claimed; a run at `record` or later has its invoice SETTLED;
a run that saves has a FUNDED copy naming itself. `SwapInv` relates invoice,
payment and HTLC whatever the run does. Both are needed because a run may fail at
any call and leave the nodes where they are. In ClaimPayout, a run before its claim
is not the spender, a run at `pay` or `await` is, and a run that saves is either
ship or the paid spender. TLC checks each `IndInv` in `fund_swap` and `claim_payout`; the proofs
take `Init => IndInv`, `IndInv /\ [Next]_vars => IndInv'` action by action, and
the rest from `IndInv`. The refinements use it to show that Settle finds the escrow
in place and that SendPayment finds the service holding the money.

In EscrowSystem the two properties are about the file, and the file is whatever any
process has in memory. So `RecordInv` speaks of every record there is (`Records`): a
record that names an output is backed by the run of fund of that name (`BackedBy`),
and a record that can still be joined names none. The second half is what makes a
late join harmless, and it is the guard of `Join` that keeps it. `KnowsOutput` and
`KnowsDeal` say, per program counter, what a run of fund knows of its swap and what a
command that pays knows of the output it has spent. The proof has one lemma per
component (`JoinKeeps`, `FundKeeps`, `EndKeeps`), which says which new records its
steps make, and `NewRecordsBacked`, which says that each of them is backed.
`Backed` also says when a record names no output (before it is FUNDED, and only
then), because the components have to know where a run can be that loaded it.

The invariants of the components (the first half of `EscrowServiceProofs`) do not follow from the theorems
in `FundSwapProofs` and `ClaimPayoutProofs`: those are about specifications that start from
their own files and have nobody else save. What carries over is the division of
their invariants. Types, and what the file can name, are about the file, and
`RecordInv` gives them (`EndTypes`, `FileIsBacked`). What the runs know (`FundInv`,
`EndInv`) is about their own memory and the nodes, and the steps of a component
keep it (`FundStepKeeps`, `EndStepKeeps`) whatever the others save
(`OthersKeepFund`, `OthersKeepEnd`). One point is not obvious: EndInv says that a closed
file names a spend and a payment that succeeded, and other commands save files.
`OthersCloseNothing` shows that they save no closed one that was not there, because
create and join save records that name no output, and fund saves FUNDED ones.

With this the refinement of the service (the second half) is a step-by-step
argument. Fund's six steps that move money are steps of the swap (`FundImplements`),
ClaimEscrow, SendPayment and Deliver are steps of the end (`EndImplements`), and the
rest is a stutter. The spend of an output concerns both: EscrowService allows it only when
the swap has taken the payment, and the command knows nothing of the swap. It has
a record that names the output, and `RecordInv` says that the payment is SETTLED.

The scripts (`EscrowScriptProofs`) need to know what is on the node's stack at every
opcode of every leaf, and a witness may hold anything. `Below(k)` says that all but
the top k items are the witness's, still in place, so that what a CHECKSIG takes
off was signed by whoever made the transaction. `Progress` says what is known at each opcode:
in a CHECKSIG chain, that the keys before it have signed; in a CHECKSIGADD sum, that
the count is full only if they all have (`Counts`); ahead of the multisig, which hash or
sequence was asked for. `IndInv` is checked by TLC in `scripts` before it is proved, and each
opcode has a lemma of its own. At the end of a leaf it gives `Unlocked` and all
signatures, and with `NotEarly` the consent: a sequence that CSV lets pass counts at least
the leaf's blocks, has no flag and so makes the input wait for them, and any other
sequence fails one of the two tests. Two hypotheses remain, and both are about
`--timeout`, which no command tests: `ShortTimeouts` (it is below 2^16) and
`ReadableTimeouts` (it is not 0, nor from 81 to 96, either). `script_early` and `script_decode` show
what happens without them, so they cannot be dropped.

That is what a leaf demands; `EntitledProofs` shows the converse, that the witnesses
of the code meet the demand. `Progress` is too weak for it: it says of a stack that it
did not come about without a signature, not that the next signature is on it. So
`EntitledInv` says exactly what is left (`Holds(l, k)`: the first l items of the
witness and k more), opcode by opcode, for a spend by somebody entitled; it says nothing
of others. `WitnessFits` is where the order of the witness matters. A leaf takes from the top,
so the last key's signature has to come first, and `ClaimEscrowEntitled`,
`SpendHTLCEntitled` and `SpendClosureEntitled` show that the three programs that build
witnesses comply. At the end exactly one item is left (`LeafPasses`), which is what
the node asks for. The sequence has to be neither too low for the leaf nor too high for
the age (`SequenceFits`), and this is where `DefaultSequence` needs the highest bit:
`LocktimeAssumption` says that `Word` is twice `DisableFlag`, as 2^32 is of 2^31.
`IndInv` and `EntitledInv` together are inductive.

Address is sequential, and its invariant (`AddressInv`) only says where the text and
what is paid come from. The difficulty is in the loops. They are recursive functions
over the positions of a text, and what they compute is shown by induction over the set
of positions where it holds (`SetInduction`, `RangeInduction`), which follows from the
well-foundedness of `<`. Three arguments carry the rest.

* The accumulator of `ConvertBits` loses its high bits, so it never equals the number
  that the values make. But a group is read from its last 12 bits at most, and bit k
  from its end is bit k from the end of the values that were read
  (`AccumulatedBits`). So groups of 5 and of 8 are compared bit by bit with one
  string of bits, whatever was lost above them. `GroupsAreRead` (8 to 5 to 8) and `ReadGroups` (5
  to 8 to 5, where the padding must be short and zero) follow, and both tests of the
  padding in `bech32.go:116` are needed for the second.
* A step of the checksum (`Fed`) is linear. Six values pass through the word before
  any of them comes back as feedback, so adding the six values that bech32mEncode
  computes to six zeros adds them to the word, and the result is the constant exactly
  for them (`ChecksumFits`).
* The feedback of a group can be told from its last five bits (`FeedbackTells`, which is
  about the five generators in the code), so a step can be undone (`FedTells`): two
  texts whose words have parted never meet again while they agree. So one
  replaced value is noticed at any length (`OneValueTells`), and so are two
  neighbours in the wrong order (`OrderTells`).

The last two theorems say that the checksum changes, not that the address is refused. The
code takes either constant, and a text may be made with the one and mistyped into the other;
how far that can be depends on its length. `MistakeIsRefused` is about both constants,
and about characters left out and repeated, and stays with TLC.
They are about the data, too: a mistake in the human-readable part changes two values that are far
apart, or is the separator and moves the boundary of the data.

Model-checked only:

* Liveness (`FundTerminates`, `SettledIsFunded`, `ClaimTerminates`, `PaidIsClosed`, and
  of `EntitledIsPaid` that the node comes to an end), which needs fairness and ENABLED.
* `MistakeIsRefused`, for the reasons above: it depends on the texts, and may fail for
  longer ones than the run has.

## 5. What is not modelled

* Core Lightning (`cln.go`): only the end-to-end harness uses it, as the wallet of
  the buyer and the seller. `Pay` and `Deliver` stand for its effects. The harness
  itself (`cmd/escrow-test`) is a test of the same calls in one order.
* Bytes: base58check and JSON of kits and deals, PSETs, sighashes, the taproot tree
  and its tweak: library calls without a branch of this program. A spend is refused for its
  value, not for its bytes.
* Texts that are not ASCII, which `DecodeBech32` reads rune by rune, and the network
  of an address: `AddressToOutputScript` ignores the human-readable part. It also
  takes either checksum constant with any version, which `Address` models.
* The network parameter. ClaimEscrow signs for regtest unless told otherwise
  (`escrow_claim.go:53`), and no command tells it. It is a limit of the commands,
  with no state behind it.
* `EvaluateScriptToBool` and `List`: only tests call them, and they change nothing.
* The spend of the HTLC's refund leaf by a person who saved the key. No code does.
* Seller and buyer in two data directories: each file then has one writer fewer,
  and the file of the other party is copied by hand. JoinDeal has the join in a directory of
  its own.
* Reorganisations: a transaction that was accepted stays.

## 6. Plan

1. `Deal`, `Command`, `FundSwap` with `AtomicSwap`, because the swap is where money
   changes hands. *Done, proved.*
2. `ClaimPayout` with `EscrowOutcome`. *Done, proved.*
3. `Locktime`, `EscrowScript`. *Done, proved.*
4. `JoinDeal`, and `EscrowSystem` with `EscrowService`: the composition over one
   file. *Done, proved.*
5. `Address`. *Done, checked, proved but for `MistakeIsRefused` (item 9).*
6. Theorems about `Locktime` (a timeout below `Mask` is matured exactly after as
   many blocks; decoding inverts encoding outside 81 to 96) and `SpentByConsent`
   for every timeout below `Mask`. *Done, proved.*
7. That `EscrowSystem` implements `EscrowService` for any number of runs, and keeps the
   invariants of its components. *Done, proved.*
8. That the node rejects no spend by somebody entitled, which is the safety half of
   `EntitledIsPaid`. *Done, proved.*
9. That encoded addresses are read and accepted ones are canonical, for programs and
   texts of any length, and the part of `MistakeIsRefused` that depends on no
   length. *Done, proved.*

## 7. Findings

`PROJECT.json` lists seven, each with a run that shows it: three in which a document
or a test promises what the code does not do (`fund_reclaim`, `fund_restart`,
`fund_twice`), a file mistaken for a missing one (`join_rebuilds`), and three wrong
values: the amount in the kit (`claim_recovery`), the timeout of 2^16 blocks, the decoding of 81 to 96.
