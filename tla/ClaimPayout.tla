---------------------------- MODULE ClaimPayout ----------------------------
(***************************************************************************)
(* How a funded deal ends: the commands `escrow release`, `refund`,        *)
(* `dispute` and `recover`, with `ship` and `recoverykit`, any number of   *)
(* runs of them on one deal file, with swap.ClaimEscrow, swap.Payout and   *)
(* the two nodes.                                                          *)
(*                                                                         *)
(* elementsd is modelled by the outputs that were paid to the escrow       *)
(* address: `spent` names the run that spent each, and the mature ones are *)
(* older than the deal's timeout.  LND is the payment of each run.         *)
(* A spend is signed over the value the command believes the output to     *)
(* have.  The commands take deal.Amount for it; the runs in Informed pass  *)
(* the value the output has, as cmd/escrow-test does.                      *)
(***************************************************************************)
EXTENDS Command

CONSTANTS
    Informed,       \* the runs that pass the value of the escrow output
    Outputs         \* the transactions that pay to the escrow address

ASSUME ClaimPayoutAssumption ==
    /\ Informed \subseteq Runs
    /\ Outputs \subseteq Txs \ Runs

VARIABLES
    kit,     \* the recovery kit in its owner's hands: a copy of the deal
    kind,    \* the command each run executes
    spent,   \* elementsd: the run that spent each escrow output, or NoTx
    mature,  \* elementsd: the outputs whose CSV timeout has passed
    payout   \* LND: the payment of each run to its recipient

vars == <<pc, copy, file, kit, kind, spent, mature, payout>>

\* `dispute --winner seller` and `--winner buyer`; `recover` with the kit of
\* the buyer and of the seller.
Closing  == {"release", "refund", "awardSeller", "awardBuyer"}
Recovery == {"recoverBuyer", "recoverSeller"}
Kinds    == Closing \cup Recovery \cup {"ship"}

PCs     == {"idle", "lookup", "claim", "pay", "await", "save", "write"} \cup Final
Payouts == {"none", "inflight", "paid", "failed"}

\* What a deal names as its escrow output is one.
EscrowDeals == {d \in Deals : d.fund \in Outputs \cup {NoTx}}

TypeOK ==
    /\ pc \in [Runs -> PCs]
    /\ copy \in [Runs -> EscrowDeals \cup {Torn}]
    /\ file \in EscrowDeals \cup {Torn}
    /\ kit \in EscrowDeals \cup {Torn}  \* Torn: none was made
    /\ kind \in [Runs -> Kinds \cup {"none"}]
    /\ spent \in [Outputs -> Runs \cup {NoTx}]
    /\ mature \subseteq Outputs
    /\ payout \in [Runs -> Payouts]

\* Deals as the other commands leave them: created, joined, funded; with the
\* seller's key or, when the buyer's join rebuilt the deal, without it.
InitialDeals ==
    UNION {LET d == NewDeal(a)
               j == Join([d EXCEPT !.seller = k], b)
           IN  {d, j} \cup {Fund(j, o) : o \in Outputs}
           : a \in Amounts, k \in BOOLEAN, b \in Buyers}

Init ==
    /\ pc = [r \in Runs |-> "idle"]
    /\ copy = [r \in Runs |-> Torn]
    /\ file \in InitialDeals
    /\ kit = Torn
    /\ kind = [r \in Runs |-> "none"]
    /\ spent = [o \in Outputs |-> NoTx]
    /\ mature = {}
    /\ payout = [r \in Runs |-> "none"]
-----------------------------------------------------------------------------
\* The keys and parameters a command looks for before its first call.  The
\* script needs the buyer's key and hash; release also needs the secret, that
\* lies in the file with them.  A kit must name the escrow output.
Ready(k, d) ==
    CASE k = "ship"          -> CanShip(d)
      [] k = "recoverBuyer"  -> HasAddress(d) /\ d.fund # NoTx
      [] k = "recoverSeller" -> HasAddress(d) /\ d.seller /\ d.fund # NoTx
      [] k \in {"release", "awardSeller"} -> HasAddress(d) /\ d.seller
      [] k \in {"refund", "awardBuyer"}   -> HasAddress(d)

FirstStep(k) == CASE k = "ship"       -> "save"
                  [] k \in Recovery   -> "lookup"
                  [] k \in Closing    -> "claim"

\* recover reads its kit alone, the other commands load the deal file.
Source(k) == IF k \in Recovery THEN kit ELSE file

Startable(k, f) == f # Torn /\ Ready(k, f)

Load(r, k) ==
    /\ pc[r] = "idle"
    /\ kind' = [kind EXCEPT ![r] = k]
    /\ \/ /\ Startable(k, Source(k))
          /\ copy' = [copy EXCEPT ![r] = IF k = "ship" THEN Ship(file) ELSE Source(k)]
          /\ Goto(r, FirstStep(k))
       \/ ~Startable(k, Source(k)) /\ Goto(r, "failed") /\ UNCHANGED copy
    /\ UNCHANGED <<file, kit, spent, mature, payout>>

\* recoverykit prints a kit, which outlives the deal file.  One that names no
\* output yet is as good as none: recover refuses it at once.
ExportKit ==
    /\ file # Torn
    /\ file.fund # NoTx
    /\ kit' = file
    /\ UNCHANGED <<pc, copy, file, kind, spent, mature, payout>>

\* recover asks GetTxOut whether the escrow output is still there.
Lookup(r) ==
    /\ pc[r] = "lookup"
    /\ \/ spent[copy[r].fund] = NoTx /\ Goto(r, "claim")
       \/ spent[copy[r].fund] # NoTx /\ Goto(r, "failed")
       \/ Refused(r)
    /\ UNCHANGED <<copy, file, kit, kind, spent, mature, payout>>

\* The value that ClaimEscrow is told, and signs.
ClaimAmount(r) == IF r \in Informed THEN EscrowValue(copy[r].amount)
                                    ELSE copy[r].amount

UsesTimeoutLeaf(r) == kind[r] \in {"refund", "recoverBuyer"}

\* ClaimEscrow's own tests, then those of the node that is sent the spend.
Spendable(r) ==
    /\ copy[r].fund # NoTx
    /\ AboveDust(ClaimAmount(r))
    /\ ClaimAmount(r) = EscrowValue(copy[r].amount)
    /\ UsesTimeoutLeaf(r) => copy[r].fund \in mature
    /\ spent[copy[r].fund] = NoTx

\* Mutant of ClaimEscrow: the error of the broadcast is dropped.
ClaimEscrowUnchecked(r) ==
    /\ pc[r] = "claim"
    /\ spent' = IF Spendable(r) THEN [spent EXCEPT ![copy[r].fund] = r] ELSE spent
    /\ Goto(r, IF kind[r] \in Recovery THEN "done" ELSE "pay")
    /\ UNCHANGED <<copy, file, kit, kind, mature, payout>>

ClaimEscrow(r) ==
    /\ pc[r] = "claim"
    /\ \/ /\ Spendable(r)
          /\ spent' = [spent EXCEPT ![copy[r].fund] = r]
          /\ Answered(r, IF kind[r] \in Recovery THEN "done" ELSE "pay")
       \/ /\ Refused(r) \/ (~Spendable(r) /\ Goto(r, "failed"))
          /\ UNCHANGED spent
    /\ UNCHANGED <<copy, file, kit, kind, mature, payout>>

\* Payout hands the recipient's invoice to LND ...
SendPayment(r) ==
    /\ pc[r] = "pay"
    /\ \/ payout' = [payout EXCEPT ![r] = "inflight"] /\ Answered(r, "await")
       \/ Refused(r) /\ UNCHANGED payout
    /\ UNCHANGED <<copy, file, kit, kind, spent, mature>>

Close(k, d, tx) == CASE k = "release" -> Release(d, tx)
                     [] k = "refund"  -> Refund(d, tx)
                     [] k \in {"awardSeller", "awardBuyer"} -> Dispute(d, tx)

Closes(r, l) ==
    /\ copy' = [copy EXCEPT ![r] = Close(kind[r], copy[r], r)]
    /\ Goto(r, l)

\* Mutants of AwaitPayment: one takes any answer for a success, one retries a
\* payment that failed, one hangs on it, one saves the deal as it was loaded.
AwaitAnswer(r) ==
    /\ pc[r] = "await"
    /\ \/ payout[r] \in {"paid", "failed"} /\ CanClose(copy[r]) /\ Closes(r, "save")
       \/ Refused(r) /\ UNCHANGED copy
    /\ UNCHANGED <<file, kit, kind, spent, mature, payout>>

AwaitOrRetry(r) ==
    /\ pc[r] = "await"
    /\ \/ payout[r] = "paid" /\ CanClose(copy[r]) /\ Closes(r, "save")
       \/ payout[r] = "failed" /\ Goto(r, "pay") /\ UNCHANGED copy
    /\ UNCHANGED <<file, kit, kind, spent, mature, payout>>

AwaitSuccess(r) ==
    /\ pc[r] = "await"
    /\ \/ payout[r] = "paid" /\ CanClose(copy[r]) /\ Closes(r, "save")
       \/ Refused(r) /\ UNCHANGED copy
    /\ UNCHANGED <<file, kit, kind, spent, mature, payout>>

AwaitUnclosed(r) ==
    /\ pc[r] = "await"
    /\ \/ payout[r] = "paid" /\ CanClose(copy[r]) /\ Goto(r, "save")
       \/ payout[r] = "failed" /\ Goto(r, "failed")
    /\ UNCHANGED <<copy, file, kit, kind, spent, mature, payout>>

\* ... and reads its answer.  LND may take longer (TimeoutSecs, 60) than the
\* client waits (30 s): a faulty run gives up while the payment is in flight.
AwaitPayment(r) ==
    /\ pc[r] = "await"
    /\ \/ /\ payout[r] = "paid" /\ CanClose(copy[r])
          /\ Closes(r, "save")
       \/ /\ \/ payout[r] = "paid" /\ ~CanClose(copy[r]) /\ Goto(r, "failed")
             \/ payout[r] = "failed" /\ Goto(r, "failed")
             \/ Refused(r)
          /\ UNCHANGED copy
    /\ UNCHANGED <<file, kit, kind, spent, mature, payout>>

Truncate(r) == TruncateFile(r) /\ UNCHANGED <<kit, kind, spent, mature, payout>>
Write(r)    == WriteFile(r) /\ UNCHANGED <<kit, kind, spent, mature, payout>>

Crash(r) == Die(r) /\ UNCHANGED <<kit, kind, spent, mature, payout>>
-----------------------------------------------------------------------------
(* The nodes: a payment succeeds or fails, blocks are mined until the      *)
(* timeout of an output has passed.                                        *)

Deliver(r) ==
    /\ payout[r] = "inflight"
    /\ \E res \in {"paid", "failed"} : payout' = [payout EXCEPT ![r] = res]
    /\ UNCHANGED <<pc, copy, file, kit, kind, spent, mature>>

Mature(o) ==
    /\ o \notin mature
    /\ mature' = mature \cup {o}
    /\ UNCHANGED <<pc, copy, file, kit, kind, spent, payout>>

Work(r) == \/ Lookup(r) \/ ClaimEscrow(r) \/ SendPayment(r)
           \/ AwaitPayment(r) \/ Truncate(r) \/ Write(r)

Next == \/ \E r \in Runs : \/ \E k \in Kinds : Load(r, k)
                           \/ Work(r) \/ Crash(r) \/ Deliver(r)
        \/ ExportKit
        \/ \E o \in Outputs : Mature(o)

Spec == Init /\ [][Next]_vars

\* A run that was started is not suspended, and LND resolves its payments.
Fairness == \A r \in Runs : WF_vars(Work(r)) /\ WF_vars(Deliver(r))

FairSpec == Spec /\ Fairness
-----------------------------------------------------------------------------
Closed(f) == f # Torn /\ f.state \in {"RELEASED", "REFUNDED", "DISPUTED"}

\* The run has spent the escrow output that its deal names.
HasSpent(r) == /\ copy[r] # Torn
               /\ copy[r].fund # NoTx
               /\ spent[copy[r].fund] = r

\* LND is asked to pay only by the run that spent the escrow output, so that
\* commands that race for one output send at most one payment.
PayoutOnlyByClaimer ==
    \A r \in Runs : payout[r] # "none" => HasSpent(r)

\* A deal file that says RELEASED, REFUNDED or DISPUTED tells the truth: it
\* names the transaction that spent the output, by the leaf of that state, and
\* the recipient was paid.
ClosedBy == [release |-> "RELEASED", refund |-> "REFUNDED",
             awardSeller |-> "DISPUTED", awardBuyer |-> "DISPUTED"]

ClosedTellsTruth ==
    Closed(file) => /\ file.claim \in Runs
                    /\ file.fund # NoTx
                    /\ spent[file.fund] = file.claim
                    /\ kind[file.claim] \in Closing
                    /\ file.state = ClosedBy[kind[file.claim]]
                    /\ payout[file.claim] = "paid"

\* Whatever commands race for a deal, each output of it leaves the escrow
\* once, for one party.
PartyOf(k) == IF k \in {"release", "awardSeller", "recoverSeller"}
              THEN "seller" ELSE "buyer"

HolderOf(o) == IF spent[o] = NoTx THEN "escrow"
               ELSE IF kind[spent[o]] \in Closing THEN "service"
               ELSE PartyOf(kind[spent[o]])

Holder  == [o \in Outputs |-> HolderOf(o)]
Due     == [o \in Outputs |-> IF HolderOf(o) = "service"
                              THEN PartyOf(kind[spent[o]]) ELSE "nobody"]
Payment == [o \in Outputs |-> IF spent[o] = NoTx THEN "none" ELSE payout[spent[o]]]

Promise == INSTANCE EscrowOutcome
             WITH holder <- Holder, due <- Due, payment <- Payment

ImplementsEscrowOutcome == Promise!Spec

\* Every command ends, whether its payment succeeds, fails or hangs.
ClaimTerminates ==
    \A r \in Runs : pc[r] # "idle" ~> pc[r] \in Final

\* Unless a call fails, a command whose payment went through ends with a file
\* that it has written: the file says that the deal is closed, and by this run
\* (or two runs that save at the same time have garbled it).
SavedBy(r) == Closed(file) /\ file.claim = r

PaidIsClosed ==
    \A r \in Runs \ Faulty :
        pc[r] = "await" /\ payout[r] = "paid"
            ~> pc[r] = "done" /\ (file = Torn \/ SavedBy(r))
-----------------------------------------------------------------------------
(***************************************************************************)
(* The inductive invariant behind the safety properties.                   *)
(***************************************************************************)
RunInv(r) ==
    /\ pc[r] \notin {"idle"} \cup Final => copy[r] # Torn
    /\ pc[r] \in {"idle", "lookup", "claim"} => \A o \in Outputs : spent[o] # r
    /\ pc[r] = "lookup" => kind[r] \in Recovery /\ copy[r].fund # NoTx
    /\ pc[r] = "claim" => kind[r] \in Closing \cup Recovery
    /\ pc[r] = "pay" => payout[r] = "none"
    /\ pc[r] \in {"pay", "await"} => HasSpent(r) /\ kind[r] \in Closing
    /\ pc[r] \in {"save", "write"} =>
          \/ kind[r] = "ship" /\ copy[r].state = "SHIPPED"
          \/ /\ HasSpent(r) /\ payout[r] = "paid" /\ copy[r].claim = r
             /\ kind[r] \in Closing /\ copy[r].state = ClosedBy[kind[r]]

SpentInv(o) ==
    spent[o] # NoTx => /\ kind[spent[o]] \in Closing \cup Recovery
                       /\ copy[spent[o]] # Torn /\ copy[spent[o]].fund = o

PayoutInv ==
    \A r \in Runs : payout[r] # "none" => HasSpent(r) /\ kind[r] \in Closing

IndInv ==
    /\ TypeOK
    /\ \A r \in Runs : RunInv(r)
    /\ \A o \in Outputs : SpentInv(o)
    /\ PayoutInv
    /\ ClosedTellsTruth
-----------------------------------------------------------------------------
(***************************************************************************)
(* A statement of the documentation that the code does not keep.           *)
(***************************************************************************)

\* PROTOCOL.md:187, "The buyer can claim via the timeout leaf (leaf 1) after
\* the CSV locktime expires": a recovery from a valid kit fails only when it
\* is early or the output is gone.
RecoveryWorks ==
    [][\A r \in Runs \ Faulty :
          kind[r] = "recoverBuyer" /\ pc[r] = "claim" /\ pc'[r] = "failed"
              => \/ copy[r].fund \notin mature
                 \/ spent[copy[r].fund] # NoTx]_vars
=============================================================================
