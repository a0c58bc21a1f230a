------------------------------ MODULE FundSwap ------------------------------
(***************************************************************************)
(* The command `escrow fund`: fundAction of cmd/escrow/commands.go with    *)
(* everything it calls in pkg/escrow/swap/fund.go and liquid_htlc.go, any  *)
(* number of runs of it on one deal file, and the two nodes it talks to.   *)
(*                                                                         *)
(* A run is a sequence of blocking calls, each one step (see Command).  In *)
(* between anything may happen: another run, a payment, an invoice that    *)
(* expires, a crash.  What a run holds in memory alone, the preimage and   *)
(* the key of its HTLC, is gone when it fails or crashes.                  *)
(*                                                                         *)
(* LND is modelled by the invoice of each run, elementsd by the HTLC of    *)
(* each run.  The transaction that moves the HTLC of run r into the escrow *)
(* address is called r.                                                    *)
(***************************************************************************)
EXTENDS Command

VARIABLES
    htlc,     \* elementsd: the HTLC output of each run
    invoice,  \* LND: the HODL invoice of each run
    shown,    \* the runs whose payment request was printed for the buyer
    paid      \* the runs whose invoice the buyer's payment has reached

vars == <<pc, copy, file, htlc, invoice, shown, paid>>

Live  == {"lock", "confirm", "invoice", "poll", "claim", "settle",
          "record", "save", "write"}
PCs   == {"idle"} \cup Live \cup Final

HTLCs    == {"none", "locked", "claimed"}
Invoices == {"none", "OPEN", "ACCEPTED", "SETTLED", "CANCELED"}

TypeOK ==
    /\ pc \in [Runs -> PCs]
    /\ copy \in [Runs -> Deals \cup {Torn}]  \* Torn: nothing loaded yet
    /\ file \in Deals \cup {Torn}
    /\ htlc \in [Runs -> HTLCs]
    /\ invoice \in [Runs -> Invoices]
    /\ shown \subseteq Runs
    /\ paid \subseteq Runs

\* A deal that was created, and a deal that was created and joined.
InitialDeals == {NewDeal(a) : a \in Amounts}
                  \cup {Join(NewDeal(a), b) : a \in Amounts, b \in Buyers}

Init ==
    /\ pc = [r \in Runs |-> "idle"]
    /\ copy = [r \in Runs |-> Torn]
    /\ file \in InitialDeals
    /\ htlc = [r \in Runs |-> "none"]
    /\ invoice = [r \in Runs |-> "none"]
    /\ shown = {}
    /\ paid = {}
-----------------------------------------------------------------------------
\* The store's Load, then the tests of fundAction and Fund on the deal.
Fundable(f) == f # Torn /\ HasAddress(f) /\ f.amount > 0

Load(r) ==
    /\ pc[r] = "idle"
    /\ \/ /\ Fundable(file)
          /\ copy' = [copy EXCEPT ![r] = file]
          /\ Goto(r, "lock")
       \/ /\ ~Fundable(file)
          /\ Goto(r, "failed")
          /\ UNCHANGED copy
    /\ UNCHANGED <<file, htlc, invoice, shown, paid>>

\* SendToAddress: the wallet sends no output below the dust limit.
Lock(r) ==
    /\ pc[r] = "lock"
    /\ \/ /\ copy[r].amount >= dustLimit
          /\ htlc' = [htlc EXCEPT ![r] = "locked"]
          /\ Answered(r, "confirm")
       \/ /\ Refused(r) \/ (copy[r].amount < dustLimit /\ Goto(r, "failed"))
          /\ UNCHANGED htlc
    /\ UNCHANGED <<copy, file, invoice, shown, paid>>

\* FindVoutByAddress, GetNewAddress and GenerateToAddress: reads and a block.
Confirm(r) ==
    /\ pc[r] = "confirm"
    /\ Answered(r, "invoice")
    /\ UNCHANGED <<copy, file, htlc, invoice, shown, paid>>

\* AddHoldInvoice; on success the command prints the payment request.
AddHoldInvoice(r) ==
    /\ pc[r] = "invoice"
    /\ \/ /\ invoice' = [invoice EXCEPT ![r] = "OPEN"]
          /\ \/ Goto(r, "poll") /\ shown' = shown \cup {r}
             \/ r \in Faulty /\ Goto(r, "failed") /\ UNCHANGED shown
       \/ Refused(r) /\ UNCHANGED <<invoice, shown>>
    /\ UNCHANGED <<copy, file, htlc, paid>>

\* Mutants of Poll: one takes any answer but CANCELED for a held payment, one
\* keeps polling a canceled invoice, one saves the deal when it gives up.
PollEager(r) ==
    /\ pc[r] = "poll"
    /\ \/ invoice[r] \in {"OPEN", "ACCEPTED"} /\ Goto(r, "claim")
       \/ invoice[r] \in {"SETTLED", "CANCELED"} /\ Goto(r, "failed")
       \/ Refused(r)
    /\ UNCHANGED <<copy, file, htlc, invoice, shown, paid>>

PollForEver(r) ==
    /\ pc[r] = "poll"
    /\ \/ invoice[r] = "ACCEPTED" /\ Goto(r, "claim")
       \/ invoice[r] = "SETTLED" /\ Goto(r, "failed")
       \/ Refused(r)
    /\ UNCHANGED <<copy, file, htlc, invoice, shown, paid>>

PollThenSave(r) ==
    /\ pc[r] = "poll"
    /\ \/ invoice[r] = "ACCEPTED" /\ Goto(r, "claim")
       \/ invoice[r] \in {"SETTLED", "CANCELED"} /\ Goto(r, "save")
       \/ Refused(r)
    /\ UNCHANGED <<copy, file, htlc, invoice, shown, paid>>

\* LookupInvoice: while the invoice is OPEN the run sleeps and asks again.
Poll(r) ==
    /\ pc[r] = "poll"
    /\ \/ invoice[r] = "ACCEPTED" /\ Goto(r, "claim")
       \/ invoice[r] \in {"SETTLED", "CANCELED"} /\ Goto(r, "failed")
       \/ Refused(r)
    /\ UNCHANGED <<copy, file, htlc, invoice, shown, paid>>

\* Mutant of ClaimHTLC: the error of SpendHTLC is dropped.
ClaimHTLCUnchecked(r) ==
    /\ pc[r] = "claim"
    /\ Goto(r, "settle")
    /\ htlc' = [htlc EXCEPT ![r] = IF AboveDust(copy[r].amount)
                                   THEN "claimed" ELSE htlc[r]]
    /\ UNCHANGED <<copy, file, invoice, shown, paid>>

\* ClaimHTLCToEscrow: SpendHTLC refuses an output that would be dust.
ClaimHTLC(r) ==
    /\ pc[r] = "claim"
    /\ \/ /\ AboveDust(copy[r].amount)
          /\ htlc' = [htlc EXCEPT ![r] = "claimed"]
          /\ Answered(r, "settle")
       \/ /\ Refused(r) \/ (~AboveDust(copy[r].amount) /\ Goto(r, "failed"))
          /\ UNCHANGED htlc
    /\ UNCHANGED <<copy, file, invoice, shown, paid>>

\* Mutant of Settle: the error of SettleInvoice is dropped.
SettleUnchecked(r) ==
    /\ pc[r] = "settle"
    /\ Goto(r, "record")
    /\ invoice' = [invoice EXCEPT ![r] = IF invoice[r] = "ACCEPTED"
                                         THEN "SETTLED" ELSE invoice[r]]
    /\ UNCHANGED <<copy, file, htlc, shown, paid>>

\* SettleInvoice: LND refuses to settle an invoice that holds no payment.
Settle(r) ==
    /\ pc[r] = "settle"
    /\ \/ /\ invoice[r] = "ACCEPTED"
          /\ invoice' = [invoice EXCEPT ![r] = "SETTLED"]
          /\ Answered(r, "record")
       \/ /\ Refused(r) \/ (invoice[r] # "ACCEPTED" /\ Goto(r, "failed"))
          /\ UNCHANGED invoice
    /\ UNCHANGED <<copy, file, htlc, shown, paid>>

\* Mutant of Record: the command returns without saving the deal.
RecordUnsaved(r) ==
    /\ pc[r] = "record"
    /\ \/ /\ CanFund(copy[r])
          /\ copy' = [copy EXCEPT ![r] = Fund(copy[r], r)]
          /\ Goto(r, "done")
       \/ /\ Refused(r) \/ (~CanFund(copy[r]) /\ Goto(r, "failed"))
          /\ UNCHANGED copy
    /\ UNCHANGED <<file, htlc, invoice, shown, paid>>

\* FindVoutByAddress on the escrow transaction, then deal.Fund.
Record(r) ==
    /\ pc[r] = "record"
    /\ \/ /\ CanFund(copy[r])
          /\ copy' = [copy EXCEPT ![r] = Fund(copy[r], r)]
          /\ Goto(r, "save")
       \/ /\ Refused(r) \/ (~CanFund(copy[r]) /\ Goto(r, "failed"))
          /\ UNCHANGED copy
    /\ UNCHANGED <<file, htlc, invoice, shown, paid>>

\* The store's Save, in two steps.
Truncate(r) == TruncateFile(r) /\ UNCHANGED <<htlc, invoice, shown, paid>>
Write(r)    == WriteFile(r) /\ UNCHANGED <<htlc, invoice, shown, paid>>

Crash(r) == Die(r) /\ UNCHANGED <<htlc, invoice, shown, paid>>
-----------------------------------------------------------------------------
(* The buyer and LND. *)

Pay(r) ==
    /\ r \in shown
    /\ invoice[r] = "OPEN"
    /\ invoice' = [invoice EXCEPT ![r] = "ACCEPTED"]
    /\ paid' = paid \cup {r}
    /\ UNCHANGED <<pc, copy, file, htlc, shown>>

\* The invoice expires unpaid.
Expire(r) ==
    /\ invoice[r] = "OPEN"
    /\ invoice' = [invoice EXCEPT ![r] = "CANCELED"]
    /\ UNCHANGED <<pc, copy, file, htlc, shown, paid>>

\* LND gives a held payment back before its HTLC times out on Lightning.
CancelHeld(r) ==
    /\ invoice[r] = "ACCEPTED"
    /\ invoice' = [invoice EXCEPT ![r] = "CANCELED"]
    /\ UNCHANGED <<pc, copy, file, htlc, shown, paid>>

Step(r) == \/ Load(r) \/ Lock(r) \/ Confirm(r) \/ AddHoldInvoice(r)
           \/ Poll(r) \/ ClaimHTLC(r) \/ Settle(r) \/ Record(r)
           \/ Truncate(r) \/ Write(r)

Environment(r) == Pay(r) \/ Expire(r) \/ CancelHeld(r)

Next == \E r \in Runs : Step(r) \/ Crash(r) \/ Environment(r)

Spec == Init /\ [][Next]_vars

(***************************************************************************)
(* A run is never blocked but by LND's invoice, which expires (fund.go     *)
(* asks for one hour).  Nothing makes a buyer pay, LND cancel or a process *)
(* crash.                                                                  *)
(***************************************************************************)
Fairness == \A r \in Runs : WF_vars(Step(r)) /\ WF_vars(Expire(r))

FairSpec == Spec /\ Fairness
-----------------------------------------------------------------------------
IsFunded(f) == f # Torn /\ f.state = "FUNDED"

\* The service has the buyer's payment only after the escrow output exists
\* (fund.go claims the HTLC, step 6, before it settles the invoice, step 7).
SettledOnlyIfEscrowed ==
    \A r \in Runs : invoice[r] = "SETTLED" => htlc[r] = "claimed"

\* No money of the service reaches the escrow address for a payment that LND
\* never held: polling, expiry and failed calls never let a run claim early.
EscrowOnlyAfterHeld ==
    \A r \in Runs : htlc[r] = "claimed" => r \in paid

\* A deal file that says FUNDED names an escrow output that exists and whose
\* swap went through, whatever the other runs of the command did.
FundedNamesSettledSwap ==
    IsFunded(file) => /\ file.fund \in Runs
                      /\ htlc[file.fund] = "claimed"
                      /\ invoice[file.fund] = "SETTLED"

\* A deal whose escrow output could not be spent, or not even be created, for
\* dust costs the buyer nothing: its invoice, paid or not, is never settled.
DustDealIsFree ==
    \A r \in Runs : copy[r] # Torn /\ ~AboveDust(copy[r].amount)
                        => invoice[r] # "SETTLED"

\* No run of the command takes a FUNDED deal back to JOINED: once the file says
\* FUNDED, a run that loaded the deal before never writes what it loaded, also
\* not by way of the truncated file that every Save leaves for a moment.
FundedIsKept ==
    [](IsFunded(file) => [](file = Torn \/ IsFunded(file)))

\* Every run of the command ends, also when the buyer never pays or LND
\* cancels the payment between a lookup and the settlement.
FundTerminates ==
    \A r \in Runs : pc[r] \in Live ~> pc[r] \in Final

\* Unless a call fails, the deal file says FUNDED once a swap has gone through
\* (or two runs that save at the same time have garbled it).
SettledIsFunded ==
    \A r \in Runs \ Faulty :
        invoice[r] = "SETTLED" ~> (file = Torn \/ IsFunded(file))

\* The command keeps the promise of the atomic swap.
PaymentIn == [none |-> "none", OPEN |-> "offered",
              ACCEPTED |-> "held", SETTLED |-> "taken"]

PaymentOf(r) == IF invoice[r] # "CANCELED" THEN PaymentIn[invoice[r]]
                ELSE IF r \in paid THEN "returned" ELSE "withdrawn"

Payment  == [r \in Runs |-> PaymentOf(r)]
Escrowed == {r \in Runs : htlc[r] = "claimed"}

Promise == INSTANCE AtomicSwap
             WITH Swaps <- Runs, payment <- Payment, escrowed <- Escrowed

ImplementsAtomicSwap == Promise!Spec
-----------------------------------------------------------------------------
(***************************************************************************)
(* The inductive invariant behind the safety properties: what a run that   *)
(* has come to a step knows of its invoice and its HTLC, how the two bear  *)
(* on each other, and what the deal file can say.                          *)
(***************************************************************************)
RunInv(r) ==
    /\ pc[r] \in Live => copy[r] \in Deals
    /\ pc[r] \in {"idle", "lock", "confirm", "invoice"} => invoice[r] = "none"
    /\ pc[r] = "claim" => invoice[r] \in {"ACCEPTED", "CANCELED"} /\ r \in paid
    /\ pc[r] = "settle" => htlc[r] = "claimed"
    /\ pc[r] \in {"record", "save", "write"} => invoice[r] = "SETTLED"
    /\ pc[r] \in {"save", "write"} => copy[r].state = "FUNDED" /\ copy[r].fund = r

SwapInv(r) ==
    /\ invoice[r] \in {"none", "OPEN"} => r \notin paid
    /\ invoice[r] \in {"ACCEPTED", "SETTLED"} => r \in paid
    /\ invoice[r] = "SETTLED" => htlc[r] = "claimed"
    /\ htlc[r] = "claimed" => r \in paid /\ AboveDust(copy[r].amount)

IndInv ==
    /\ TypeOK
    /\ \A r \in Runs : RunInv(r)
    /\ \A r \in Runs : SwapInv(r)
    /\ FundedNamesSettledSwap
-----------------------------------------------------------------------------
(***************************************************************************)
(* Three statements of the documentation that the code does not keep.      *)
(***************************************************************************)

\* fund.go:65, "HTLC times out, service reclaims L-BTC": no HTLC stays locked
\* for ever.
LockedIsReclaimed ==
    \A r \in Runs : htlc[r] = "locked" ~> htlc[r] # "locked"

\* PROTOCOL.md:127, "Escrow VTXO exists ... can detect this on restart": the
\* deal file leads to the escrow output of a swap whose process is gone.
EscrowIsFoundOnRestart ==
    \A r \in Runs : htlc[r] = "claimed" /\ pc[r] \in Final
                        => file # Torn /\ file.fund = r

\* recovery_fuzz_test.go:294, "Cannot fund again": a deal is paid for once.
PaidForOnce ==
    \A r, s \in Runs : invoice[r] = "SETTLED" /\ invoice[s] = "SETTLED"
                          => r = s
=============================================================================
