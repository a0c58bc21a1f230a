--------------------------- MODULE FundSwapProofs ---------------------------
(***************************************************************************)
(* For any number of runs of `escrow fund`, any of them faulty, and any    *)
(* amounts: the inductive invariant of FundSwap, the safety properties it  *)
(* implies, and that the command implements AtomicSwap.                    *)
(***************************************************************************)
EXTENDS FundSwap, TLAPS

\* The deals that create and join leave behind are deals, and not funded.
LEMMA JoinedDeal ==
    ASSUME NEW f \in InitialDeals
    PROVE  f \in Deals /\ f.state # "FUNDED"
<1>1. ASSUME NEW a \in Amounts
      PROVE  NewDeal(a) \in Deals /\ NewDeal(a).state # "FUNDED"
  BY DEF NewDeal, Deals, DealStates
<1>2. ASSUME NEW a \in Amounts, NEW b \in Buyers
      PROVE  Join(NewDeal(a), b) \in Deals /\ Join(NewDeal(a), b).state # "FUNDED"
  BY DEF NewDeal, Join, Deals, DealStates
<1> QED BY <1>1, <1>2 DEF InitialDeals

\* deal.Fund yields a FUNDED deal that names the given transaction.
LEMMA FundDeal ==
    ASSUME NEW d \in Deals, NEW r \in Runs
    PROVE  /\ Fund(d, r) \in Deals
           /\ Fund(d, r).state = "FUNDED"
           /\ Fund(d, r).fund = r
           /\ Fund(d, r).amount = d.amount
BY CommandAssumption DEF Fund, Deals, DealStates

\* The inductive invariant holds when no run of `escrow fund` has started.
LEMMA InitInv == Init => IndInv
<1> SUFFICES ASSUME Init PROVE IndInv
  OBVIOUS
<1>1. file \in Deals /\ ~IsFunded(file)
  BY JoinedDeal DEF Init, IsFunded
<1>2. TypeOK
  BY <1>1 DEF Init, TypeOK, PCs, HTLCs, Invoices
<1>3. \A r \in Runs : RunInv(r) /\ SwapInv(r)
  BY DEF Init, RunInv, SwapInv, Live
<1> QED BY <1>1, <1>2, <1>3 DEF IndInv, FundedNamesSettledSwap
-----------------------------------------------------------------------------
(* Every step preserves the invariant. *)

\* Every call of fundAction, every crash and every step of LND preserves it.
LEMMA NextInv == IndInv /\ [Next]_vars => IndInv'
<1> SUFFICES ASSUME IndInv, [Next]_vars PROVE IndInv'
  OBVIOUS
<1> USE CommandAssumption DEF IndInv
<1>1. CASE UNCHANGED vars
  BY <1>1 DEF vars, TypeOK, RunInv, SwapInv, FundedNamesSettledSwap, IsFunded
<1>2. ASSUME NEW r \in Runs, Step(r) \/ Crash(r) \/ Environment(r) PROVE IndInv'
  <2>1. CASE Load(r)
    <3>1. TypeOK'
      BY <2>1 DEF Load, TypeOK, PCs, Live, Final, Goto
    <3>2. \A s \in Runs : RunInv(s)'
      BY <2>1 DEF Load, Fundable, TypeOK, RunInv, SwapInv, Live, Goto
    <3>3. \A s \in Runs : SwapInv(s)'
      BY <2>1 DEF Load, TypeOK, RunInv, SwapInv, Goto
    <3>4. FundedNamesSettledSwap'
      BY <2>1 DEF Load, TypeOK, RunInv, SwapInv, FundedNamesSettledSwap, IsFunded, Goto
    <3> QED BY <3>1, <3>2, <3>3, <3>4
  <2>2. CASE Lock(r)
    <3>1. TypeOK'
      BY <2>2 DEF Lock, TypeOK, PCs, Live, Final, HTLCs, Goto, Answered, Refused
    <3>2. \A s \in Runs : RunInv(s)'
      BY <2>2 DEF Lock, TypeOK, RunInv, SwapInv, Live, Goto, Answered, Refused
    <3>3. \A s \in Runs : SwapInv(s)'
      BY <2>2 DEF Lock, TypeOK, RunInv, SwapInv, Goto, Answered, Refused
    <3>4. FundedNamesSettledSwap'
      BY <2>2
         DEF Lock, TypeOK, RunInv, SwapInv, FundedNamesSettledSwap, IsFunded, Goto,
         Answered, Refused
    <3> QED BY <3>1, <3>2, <3>3, <3>4
  <2>3. CASE Confirm(r)
    <3>1. TypeOK'
      BY <2>3 DEF Confirm, TypeOK, PCs, Live, Final, Goto, Answered
    <3>2. \A s \in Runs : RunInv(s)'
      BY <2>3 DEF Confirm, TypeOK, RunInv, SwapInv, Live, Goto, Answered
    <3>3. \A s \in Runs : SwapInv(s)'
      BY <2>3 DEF Confirm, TypeOK, RunInv, SwapInv, Goto, Answered
    <3>4. FundedNamesSettledSwap'
      BY <2>3
         DEF Confirm, TypeOK, RunInv, SwapInv, FundedNamesSettledSwap, IsFunded, Goto,
         Answered
    <3> QED BY <3>1, <3>2, <3>3, <3>4
  <2>4. CASE AddHoldInvoice(r)
    <3>1. TypeOK'
      BY <2>4 DEF AddHoldInvoice, TypeOK, PCs, Live, Final, Invoices, Goto, Refused
    <3>2. \A s \in Runs : RunInv(s)'
      BY <2>4 DEF AddHoldInvoice, TypeOK, RunInv, SwapInv, Live, Goto, Refused
    <3>3. \A s \in Runs : SwapInv(s)'
      BY <2>4 DEF AddHoldInvoice, TypeOK, RunInv, SwapInv, Goto, Refused
    <3>4. FundedNamesSettledSwap'
      BY <2>4
         DEF AddHoldInvoice, TypeOK, RunInv, SwapInv, FundedNamesSettledSwap, IsFunded,
         Goto, Refused
    <3> QED BY <3>1, <3>2, <3>3, <3>4
  <2>5. CASE Poll(r)
    <3>1. TypeOK'
      BY <2>5 DEF Poll, TypeOK, PCs, Live, Final, Goto, Refused
    <3>2. \A s \in Runs : RunInv(s)'
      BY <2>5 DEF Poll, TypeOK, RunInv, SwapInv, Live, Goto, Refused
    <3>3. \A s \in Runs : SwapInv(s)'
      BY <2>5 DEF Poll, TypeOK, RunInv, SwapInv, Goto, Refused
    <3>4. FundedNamesSettledSwap'
      BY <2>5
         DEF Poll, TypeOK, RunInv, SwapInv, FundedNamesSettledSwap, IsFunded, Goto,
         Refused
    <3> QED BY <3>1, <3>2, <3>3, <3>4
  <2>6. CASE ClaimHTLC(r)
    <3>1. TypeOK'
      BY <2>6 DEF ClaimHTLC, TypeOK, PCs, Live, Final, HTLCs, Goto, Answered, Refused
    <3>2. \A s \in Runs : RunInv(s)'
      BY <2>6 DEF ClaimHTLC, TypeOK, RunInv, SwapInv, Live, Goto, Answered, Refused
    <3>3. \A s \in Runs : SwapInv(s)'
      BY <2>6 DEF ClaimHTLC, TypeOK, RunInv, SwapInv, Goto, Answered, Refused
    <3>4. FundedNamesSettledSwap'
      BY <2>6
         DEF ClaimHTLC, TypeOK, RunInv, SwapInv, FundedNamesSettledSwap, IsFunded,
         Goto, Answered, Refused
    <3> QED BY <3>1, <3>2, <3>3, <3>4
  <2>7. CASE Settle(r)
    <3>1. TypeOK'
      BY <2>7 DEF Settle, TypeOK, PCs, Live, Final, Invoices, Goto, Answered, Refused
    <3>2. \A s \in Runs : RunInv(s)'
      BY <2>7 DEF Settle, TypeOK, RunInv, SwapInv, Live, Goto, Answered, Refused
    <3>3. \A s \in Runs : SwapInv(s)'
      BY <2>7 DEF Settle, TypeOK, RunInv, SwapInv, Goto, Answered, Refused
    <3>4. FundedNamesSettledSwap'
      BY <2>7
         DEF Settle, TypeOK, RunInv, SwapInv, FundedNamesSettledSwap, IsFunded, Goto,
         Answered, Refused
    <3> QED BY <3>1, <3>2, <3>3, <3>4
  <2>8. CASE Record(r)
    <3>1. /\ copy[r] \in Deals
          /\ Fund(copy[r], r) \in Deals
          /\ Fund(copy[r], r).state = "FUNDED"
          /\ Fund(copy[r], r).fund = r
          /\ Fund(copy[r], r).amount = copy[r].amount
      BY <2>8, FundDeal DEF Record, RunInv, Live
    <3>2. /\ UNCHANGED <<file, htlc, invoice, shown, paid>>
          /\ \/ copy' = [copy EXCEPT ![r] = Fund(copy[r], r)] /\ Goto(r, "save")
             \/ UNCHANGED copy /\ Goto(r, "failed")
      BY <2>8 DEF Record, Refused
    <3> HIDE DEF IndInv
    <3>3. TypeOK /\ RunInv(r) /\ SwapInv(r) /\ pc[r] = "record"
      BY <2>8 DEF Record, IndInv
    <3>4. TypeOK'
      BY <3>1, <3>2, <3>3 DEF TypeOK, PCs, Live, Final, Goto
    <3>5. \A s \in Runs : RunInv(s)'
      BY <3>1, <3>2, <3>3 DEF IndInv, TypeOK, RunInv, Live, Goto
    <3>6. \A s \in Runs : SwapInv(s)'
      BY <3>1, <3>2, <3>3 DEF IndInv, TypeOK, SwapInv, AboveDust
    <3>7. FundedNamesSettledSwap'
      BY <3>2 DEF IndInv, FundedNamesSettledSwap, IsFunded
    <3> QED BY <3>4, <3>5, <3>6, <3>7 DEF IndInv
  <2>9. CASE Truncate(r)
    <3>1. TypeOK'
      BY <2>9
         DEF Truncate, TruncateFile, TypeOK, PCs, Live, Final, Goto, Answered, Refused
    <3>2. \A s \in Runs : RunInv(s)'
      BY <2>9
         DEF Truncate, TruncateFile, TypeOK, RunInv, SwapInv, Live, Goto, Answered,
         Refused
    <3>3. \A s \in Runs : SwapInv(s)'
      BY <2>9 DEF Truncate, TruncateFile, TypeOK, RunInv, SwapInv, Goto, Answered, Refused
    <3>4. FundedNamesSettledSwap'
      BY <2>9
         DEF Truncate, TruncateFile, TypeOK, RunInv, SwapInv, FundedNamesSettledSwap,
         IsFunded, Goto, Answered, Refused
    <3> QED BY <3>1, <3>2, <3>3, <3>4
  <2>10. CASE Write(r)
    <3>1. TypeOK'
      BY <2>10 DEF Write, WriteFile, TypeOK, PCs, Live, Final, Goto, Refused
    <3>2. \A s \in Runs : RunInv(s)'
      BY <2>10 DEF Write, WriteFile, TypeOK, RunInv, SwapInv, Live, Goto, Refused
    <3>3. \A s \in Runs : SwapInv(s)'
      BY <2>10 DEF Write, WriteFile, TypeOK, RunInv, SwapInv, Goto, Refused
    <3>4. FundedNamesSettledSwap'
      BY <2>10
         DEF Write, WriteFile, TypeOK, RunInv, SwapInv, FundedNamesSettledSwap,
         IsFunded, Goto, Refused
    <3> QED BY <3>1, <3>2, <3>3, <3>4
  <2>11. CASE Crash(r)
    <3>1. TypeOK'
      BY <2>11 DEF Crash, Die, TypeOK, PCs, Live, Final, Goto
    <3>2. \A s \in Runs : RunInv(s)'
      BY <2>11 DEF Crash, Die, TypeOK, RunInv, SwapInv, Live, Goto
    <3>3. \A s \in Runs : SwapInv(s)'
      BY <2>11 DEF Crash, Die, TypeOK, RunInv, SwapInv, Goto
    <3>4. FundedNamesSettledSwap'
      BY <2>11
         DEF Crash, Die, TypeOK, RunInv, SwapInv, FundedNamesSettledSwap, IsFunded, Goto
    <3> QED BY <3>1, <3>2, <3>3, <3>4
  <2>12. CASE Pay(r)
    <3>1. TypeOK'
      BY <2>12 DEF Pay, TypeOK, Invoices
    <3>2. \A s \in Runs : RunInv(s)'
      BY <2>12 DEF Pay, TypeOK, RunInv, SwapInv
    <3>3. \A s \in Runs : SwapInv(s)'
      BY <2>12 DEF Pay, TypeOK, RunInv, SwapInv
    <3>4. FundedNamesSettledSwap'
      BY <2>12 DEF Pay, TypeOK, RunInv, SwapInv, FundedNamesSettledSwap, IsFunded
    <3> QED BY <3>1, <3>2, <3>3, <3>4
  <2>13. CASE Expire(r)
    <3>1. TypeOK'
      BY <2>13 DEF Expire, TypeOK, Invoices
    <3>2. \A s \in Runs : RunInv(s)'
      BY <2>13 DEF Expire, TypeOK, RunInv, SwapInv
    <3>3. \A s \in Runs : SwapInv(s)'
      BY <2>13 DEF Expire, TypeOK, RunInv, SwapInv
    <3>4. FundedNamesSettledSwap'
      BY <2>13 DEF Expire, TypeOK, RunInv, SwapInv, FundedNamesSettledSwap, IsFunded
    <3> QED BY <3>1, <3>2, <3>3, <3>4
  <2>14. CASE CancelHeld(r)
    <3>1. TypeOK'
      BY <2>14 DEF CancelHeld, TypeOK, Invoices
    <3>2. \A s \in Runs : RunInv(s)'
      BY <2>14 DEF CancelHeld, TypeOK, RunInv, SwapInv
    <3>3. \A s \in Runs : SwapInv(s)'
      BY <2>14 DEF CancelHeld, TypeOK, RunInv, SwapInv
    <3>4. FundedNamesSettledSwap'
      BY <2>14 DEF CancelHeld, TypeOK, RunInv, SwapInv, FundedNamesSettledSwap, IsFunded
    <3> QED BY <3>1, <3>2, <3>3, <3>4
  <2> QED BY <1>2, <2>1, <2>2, <2>3, <2>4, <2>5, <2>6, <2>7, <2>8, <2>9, <2>10, <2>11, <2>12, <2>13, <2>14 DEF Step, Environment
<1> QED BY <1>1, <1>2 DEF Next
-----------------------------------------------------------------------------
(* The theorems. *)

\* The inductive invariant holds in every state `escrow fund` can reach.
THEOREM Invariant == Spec => []IndInv
<1> QED BY InitInv, NextInv, PTL DEF Spec

\* The variables of a run of `escrow fund`, of the deal file and of the two
\* nodes only ever hold the values TypeOK names.
THEOREM TypeCorrect == Spec => []TypeOK
<1>1. IndInv => TypeOK
  BY DEF IndInv
<1> QED BY <1>1, Invariant, PTL

\* A settled invoice has its escrow output: the service has the buyer's money
\* only after the HTLC was claimed into the escrow address.
THEOREM PaidHasEscrow == Spec => []SettledOnlyIfEscrowed
<1>1. IndInv => SettledOnlyIfEscrowed
  BY DEF IndInv, SwapInv, SettledOnlyIfEscrowed
<1> QED BY <1>1, Invariant, PTL

\* The service's money reaches the escrow address only for a payment that
\* LND has held.
THEOREM EscrowWasHeld == Spec => []EscrowOnlyAfterHeld
<1>1. IndInv => EscrowOnlyAfterHeld
  BY DEF IndInv, SwapInv, EscrowOnlyAfterHeld
<1> QED BY <1>1, Invariant, PTL

\* A deal file that says FUNDED names an escrow output whose swap went
\* through, however many runs of the command overlap or fail.
THEOREM FundedIsBacked == Spec => []FundedNamesSettledSwap
<1>1. IndInv => FundedNamesSettledSwap
  BY DEF IndInv
<1> QED BY <1>1, Invariant, PTL

\* A deal too small to be claimed out of its HTLC costs the buyer nothing.
THEOREM DustIsFree == Spec => []DustDealIsFree
<1>1. IndInv => DustDealIsFree
  BY DEF IndInv, SwapInv, DustDealIsFree
<1> QED BY <1>1, Invariant, PTL

\* The file, whole or being written, was funded or is about to be.
FundedOrTorn == file = Torn \/ IsFunded(file)

\* Whatever a run writes is FUNDED, so that no step leads out of FundedOrTorn.
LEMMA FundedOrTornStays == IndInv /\ FundedOrTorn /\ [Next]_vars => FundedOrTorn'
<1> SUFFICES ASSUME IndInv, FundedOrTorn, [Next]_vars PROVE FundedOrTorn'
  OBVIOUS
<1>1. CASE file' = file
  BY <1>1 DEF FundedOrTorn, IsFunded
<1>2. ASSUME NEW r \in Runs, Truncate(r) \/ Write(r) PROVE FundedOrTorn'
  BY <1>2 DEF Truncate, TruncateFile, Write, WriteFile, FundedOrTorn, IsFunded,
              IndInv, RunInv
<1>3. file' = file \/ \E r \in Runs : Truncate(r) \/ Write(r)
  BY DEF Next, Step, Environment, vars, Load, Lock, Confirm, AddHoldInvoice,
         Poll, ClaimHTLC, Settle, Record, Crash, Die, Pay, Expire, CancelHeld
<1> QED BY <1>1, <1>2, <1>3

\* Once the file says FUNDED no run takes the deal back to what it was when
\* the run loaded it: for ever after the file is FUNDED or being written.
THEOREM NoFundingIsUndone == Spec => FundedIsKept
<1>1. IsFunded(file) => FundedOrTorn
  BY DEF FundedOrTorn
<1>2. Spec => [](IsFunded(file) => []FundedOrTorn)
  BY <1>1, FundedOrTornStays, Invariant, PTL DEF Spec
<1>3. FundedOrTorn <=> (file = Torn \/ IsFunded(file))
  BY DEF FundedOrTorn
<1> QED BY <1>2, <1>3, PTL DEF FundedIsKept
-----------------------------------------------------------------------------
(***************************************************************************)
(* The refinement.  Payment and Escrowed change in six actions; each of    *)
(* them is a step of AtomicSwap, and every other action is a stutter.      *)
(***************************************************************************)
\* A step that leaves invoices and payments alone leaves the promise's alone.
LEMMA SamePayment ==
    ASSUME UNCHANGED <<invoice, paid>>
    PROVE  UNCHANGED Payment
BY DEF Payment, PaymentOf, PaymentIn

\* A step that leaves the HTLCs alone creates no escrow output.
LEMMA SameEscrow ==
    ASSUME UNCHANGED htlc
    PROVE  UNCHANGED Escrowed
BY DEF Escrowed

\* One payment changes: that of r, from x to y.
LEMMA PaymentStep ==
    ASSUME NEW r \in Runs, NEW x, NEW y,
           PaymentOf(r) = x, PaymentOf(r)' = y,
           \A s \in Runs \ {r} : PaymentOf(s)' = PaymentOf(s)
    PROVE  /\ Payment[r] = x
           /\ Payment' = [Payment EXCEPT ![r] = y]
BY DEF Payment

\* When LND changes the invoice of one run, the promise sees that one payment.
LEMMA InvoiceStep ==
    ASSUME TypeOK, NEW r \in Runs, NEW y,
           invoice' = [invoice EXCEPT ![r] = y],
           \A s \in Runs \ {r} : s \in paid' <=> s \in paid
    PROVE  \A s \in Runs \ {r} : PaymentOf(s)' = PaymentOf(s)
BY DEF TypeOK, PaymentOf, PaymentIn

\* Every step of `escrow fund` is a step of AtomicSwap or a stutter.
LEMMA StepImplements ==
    ASSUME IndInv, [Next]_vars
    PROVE  [Promise!Next]_(Promise!vars)
<1> USE DEF IndInv
<1>1. CASE UNCHANGED vars
  BY <1>1, SamePayment, SameEscrow DEF vars, Promise!vars
<1>2. ASSUME NEW r \in Runs, Step(r) \/ Crash(r) \/ Environment(r)
      PROVE  [Promise!Next]_(Promise!vars)
  <2>1. CASE Load(r) \/ Confirm(r) \/ Poll(r) \/ Record(r)
               \/ Truncate(r) \/ Write(r) \/ Crash(r)
    <3>1. UNCHANGED <<htlc, invoice, paid>>
      BY <2>1 DEF Load, Confirm, Poll, Record, Truncate, TruncateFile, Write, WriteFile,
                Crash, Die
    <3> QED BY <3>1, SamePayment, SameEscrow DEF Promise!vars
  <2>2. CASE Lock(r)
    <3>1. htlc[r] # "claimed"
      BY <2>2 DEF Lock, RunInv, SwapInv
    <3>2. UNCHANGED Escrowed
      BY <2>2, <3>1 DEF Lock, Escrowed, TypeOK
    <3>3. UNCHANGED Payment
      BY <2>2, SamePayment DEF Lock
    <3> QED BY <3>2, <3>3 DEF Promise!vars
  <2>3. CASE AddHoldInvoice(r)
    <3>1. UNCHANGED Escrowed
      BY <2>3, SameEscrow DEF AddHoldInvoice
    <3>2. CASE UNCHANGED invoice
      BY <2>3, <3>1, <3>2, SamePayment DEF AddHoldInvoice, Promise!vars
    <3>3. CASE invoice' = [invoice EXCEPT ![r] = "OPEN"]
      <4>1. PaymentOf(r) = "none" /\ PaymentOf(r)' = "offered"
        BY <2>3, <3>3 DEF AddHoldInvoice, RunInv, TypeOK, PaymentOf, PaymentIn
      <4>2. \A s \in Runs \ {r} : PaymentOf(s)' = PaymentOf(s)
        BY <2>3, <3>3, InvoiceStep DEF AddHoldInvoice
      <4>3. Promise!Offer(r)
        BY <3>1, <4>1, <4>2, PaymentStep DEF Promise!Offer, Promise!Becomes
      <4> QED BY <4>3 DEF Promise!Next
    <3> QED BY <2>3, <3>2, <3>3 DEF AddHoldInvoice
  <2>4. CASE ClaimHTLC(r)
    <3>1. UNCHANGED Payment
      BY <2>4, SamePayment DEF ClaimHTLC
    <3>2. CASE UNCHANGED htlc
      BY <3>1, <3>2, SameEscrow DEF Promise!vars
    <3>3. CASE htlc' = [htlc EXCEPT ![r] = "claimed"]
      <4>1. PaymentOf(r) \in {"held", "returned"}
        BY <2>4 DEF ClaimHTLC, RunInv, PaymentOf, PaymentIn
      <4>2. Escrowed' = Escrowed \cup {r}
        BY <3>3 DEF Escrowed, TypeOK
      <4>3. Promise!Escrow(r)
        BY <3>1, <4>1, <4>2 DEF Promise!Escrow, Payment
      <4> QED BY <4>3 DEF Promise!Next
    <3> QED BY <2>4, <3>2, <3>3 DEF ClaimHTLC
  <2>5. CASE Settle(r)
    <3>1. UNCHANGED Escrowed /\ r \in Escrowed
      BY <2>5, SameEscrow DEF Settle, RunInv, Escrowed
    <3>2. CASE UNCHANGED invoice
      BY <2>5, <3>1, <3>2, SamePayment DEF Settle, Promise!vars
    <3>3. CASE invoice[r] = "ACCEPTED" /\ invoice' = [invoice EXCEPT ![r] = "SETTLED"]
      <4>1. PaymentOf(r) = "held" /\ PaymentOf(r)' = "taken"
        BY <2>5, <3>3 DEF Settle, TypeOK, PaymentOf, PaymentIn
      <4>2. \A s \in Runs \ {r} : PaymentOf(s)' = PaymentOf(s)
        BY <2>5, <3>3, InvoiceStep DEF Settle
      <4>3. Promise!Take(r)
        BY <3>1, <4>1, <4>2, PaymentStep DEF Promise!Take, Promise!Becomes
      <4> QED BY <4>3 DEF Promise!Next
    <3> QED BY <2>5, <3>2, <3>3 DEF Settle
  <2>6. CASE Pay(r)
    <3>1. UNCHANGED Escrowed
      BY <2>6, SameEscrow DEF Pay
    <3>2. PaymentOf(r) = "offered" /\ PaymentOf(r)' = "held"
      BY <2>6 DEF Pay, TypeOK, PaymentOf, PaymentIn
    <3>3. \A s \in Runs \ {r} : PaymentOf(s)' = PaymentOf(s)
      BY <2>6, InvoiceStep DEF Pay
    <3>4. Promise!Hold(r)
      BY <3>1, <3>2, <3>3, PaymentStep DEF Promise!Hold, Promise!Becomes
    <3> QED BY <3>4 DEF Promise!Next
  <2>7. CASE Expire(r)
    <3>1. UNCHANGED Escrowed
      BY <2>7, SameEscrow DEF Expire
    <3>2. PaymentOf(r) = "offered" /\ PaymentOf(r)' = "withdrawn"
      BY <2>7 DEF Expire, TypeOK, SwapInv, PaymentOf, PaymentIn
    <3>3. \A s \in Runs \ {r} : PaymentOf(s)' = PaymentOf(s)
      BY <2>7, InvoiceStep DEF Expire
    <3>4. Promise!Withdraw(r)
      BY <3>1, <3>2, <3>3, PaymentStep DEF Promise!Withdraw, Promise!Becomes
    <3> QED BY <3>4 DEF Promise!Next
  <2>8. CASE CancelHeld(r)
    <3>1. UNCHANGED Escrowed
      BY <2>8, SameEscrow DEF CancelHeld
    <3>2. PaymentOf(r) = "held" /\ PaymentOf(r)' = "returned"
      BY <2>8 DEF CancelHeld, TypeOK, SwapInv, PaymentOf, PaymentIn
    <3>3. \A s \in Runs \ {r} : PaymentOf(s)' = PaymentOf(s)
      BY <2>8, InvoiceStep DEF CancelHeld
    <3>4. Promise!Return(r)
      BY <3>1, <3>2, <3>3, PaymentStep DEF Promise!Return, Promise!Becomes
    <3> QED BY <3>4 DEF Promise!Next
  <2> QED BY <1>2, <2>1, <2>2, <2>3, <2>4, <2>5, <2>6, <2>7, <2>8 DEF Step, Environment
<1> QED BY <1>1, <1>2 DEF Next

\* `escrow fund` keeps the promise of the atomic swap: seen from the buyer's
\* payment and the escrow output alone, every behaviour of the command, its
\* failures included, is a behaviour of AtomicSwap.
THEOREM SwapIsAtomic == Spec => ImplementsAtomicSwap
<1>1. Init => Promise!Init
  BY DEF Init, Promise!Init, Payment, PaymentOf, PaymentIn, Escrowed
<1>2. IndInv /\ [Next]_vars => [Promise!Next]_(Promise!vars)
  BY StepImplements
<1> QED BY <1>1, <1>2, Invariant, PTL DEF Spec, ImplementsAtomicSwap, Promise!Spec
=============================================================================
