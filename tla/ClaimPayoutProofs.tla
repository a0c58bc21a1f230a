-------------------------- MODULE ClaimPayoutProofs --------------------------
(***************************************************************************)
(* For any number of runs of the commands that end a deal and of outputs   *)
(* that were paid to its address, any run faulty and with or without the   *)
(* right value of its output: the inductive invariant of ClaimPayout, the  *)
(* safety properties it implies, and that the commands implement           *)
(* EscrowOutcome.                                                          *)
(***************************************************************************)
EXTENDS ClaimPayout, TLAPS

USE CommandAssumption, ClaimPayoutAssumption, DealAssumption

\* An unspent output is spent by no run, and no output is called NoTx.
LEMMA NoTxIsNoRun == NoTx \notin Runs /\ NoTx \notin Outputs
OBVIOUS

\* The deals the other commands leave behind are deals, and not closed.
LEMMA OpenDeal ==
    ASSUME NEW f \in InitialDeals
    PROVE  f \in EscrowDeals /\ f.state \in {"CREATED", "JOINED", "FUNDED"}
<1>1. PICK a \in Amounts, k \in BOOLEAN, b \in Buyers :
         \/ f = NewDeal(a)
         \/ f = Join([NewDeal(a) EXCEPT !.seller = k], b)
         \/ \E o \in Outputs : f = Fund(Join([NewDeal(a) EXCEPT !.seller = k], b), o)
  BY DEF InitialDeals
<1>2. CASE f = NewDeal(a)
  BY <1>2 DEF NewDeal, EscrowDeals, Deals, DealStates
<1>3. CASE f = Join([NewDeal(a) EXCEPT !.seller = k], b)
  BY <1>3 DEF NewDeal, Join, EscrowDeals, Deals, DealStates
<1>4. ASSUME NEW o \in Outputs, f = Fund(Join([NewDeal(a) EXCEPT !.seller = k], b), o)
      PROVE  f \in EscrowDeals /\ f.state = "FUNDED"
  BY <1>4 DEF NewDeal, Join, Fund, EscrowDeals, Deals, DealStates
<1> QED BY <1>1, <1>2, <1>3, <1>4

\* deal.Ship yields a SHIPPED deal with the same outpoint.
LEMMA ShipDeal ==
    ASSUME NEW d \in EscrowDeals
    PROVE  Ship(d) \in EscrowDeals /\ Ship(d).state = "SHIPPED"
BY DEF Ship, EscrowDeals, Deals, DealStates

\* deal.Release, Refund and Dispute yield a closed deal of the command's state
\* with the same outpoint.
LEMMA CloseDeal ==
    ASSUME NEW d \in EscrowDeals, NEW k \in Closing, NEW r \in Runs
    PROVE  /\ Close(k, d, r) \in EscrowDeals
           /\ Close(k, d, r).claim = r
           /\ Close(k, d, r).fund = d.fund
           /\ Close(k, d, r).state = ClosedBy[k]
<1>1. CASE k = "release"
  BY <1>1 DEF Close, Release, ClosedBy, EscrowDeals, Deals, DealStates
<1>2. CASE k = "refund"
  BY <1>2 DEF Close, Refund, ClosedBy, EscrowDeals, Deals, DealStates
<1>3. CASE k = "awardSeller"
  BY <1>3 DEF Close, Dispute, ClosedBy, EscrowDeals, Deals, DealStates
<1>4. CASE k = "awardBuyer"
  BY <1>4 DEF Close, Dispute, ClosedBy, EscrowDeals, Deals, DealStates
<1> QED BY <1>1, <1>2, <1>3, <1>4 DEF Closing

\* What a deal names as its escrow output is one.
LEMMA FundIsOutput ==
    ASSUME NEW d \in EscrowDeals \cup {Torn}, d # Torn, d.fund # NoTx
    PROVE  d.fund \in Outputs
BY DEF EscrowDeals

\* The first call of each command.
LEMMA FirstStepOf ==
    ASSUME NEW k \in Kinds
    PROVE  /\ k = "ship" => FirstStep(k) = "save"
           /\ k \in Recovery => FirstStep(k) = "lookup"
           /\ k \in Closing => FirstStep(k) = "claim"
BY DEF FirstStep, Kinds, Closing, Recovery

\* A kit that recover accepts names an escrow output.
LEMMA ReadyKit ==
    ASSUME NEW k \in Recovery, NEW d, Ready(k, d)
    PROVE  d.fund # NoTx
BY DEF Ready, Recovery

\* The inductive invariant holds before any command of a deal's end is run.
LEMMA InitInv == Init => IndInv
<1> SUFFICES ASSUME Init PROVE IndInv
  OBVIOUS
<1>1. file \in EscrowDeals /\ ~Closed(file)
  BY OpenDeal DEF Init, Closed
<1>2. TypeOK
  BY <1>1 DEF Init, TypeOK, PCs, Payouts
<1> QED BY <1>1, <1>2, NoTxIsNoRun
        DEF Init, IndInv, RunInv, SpentInv, PayoutInv, ClosedTellsTruth
-----------------------------------------------------------------------------
(* Every step preserves the invariant. *)

\* A step that leaves the nodes, the kinds, the file and the deals of the runs
\* alone, and takes no run to where it would have to know more, preserves it.
LEMMA Quiet ==
    ASSUME IndInv, TypeOK',
           UNCHANGED <<copy, file, kind, spent, payout>>,
           \A s \in Runs : pc'[s] = pc[s] \/ pc'[s] \in {"failed", "crashed", "done"}
    PROVE  IndInv'
<1>1. \A s \in Runs : RunInv(s)'
  BY DEF IndInv, RunInv, HasSpent, Final
<1> QED BY <1>1 DEF IndInv, SpentInv, PayoutInv, HasSpent, ClosedTellsTruth, Closed

\* Every call of the commands, every crash and step of the nodes preserves it.
LEMMA NextInv == IndInv /\ [Next]_vars => IndInv'
<1> SUFFICES ASSUME IndInv, [Next]_vars PROVE IndInv'
  OBVIOUS
<1> USE NoTxIsNoRun DEF IndInv
<1>1. CASE UNCHANGED vars
  BY <1>1
     DEF vars, TypeOK, RunInv, HasSpent, SpentInv, PayoutInv, ClosedTellsTruth, Closed
<1>2. CASE ExportKit \/ \E o \in Outputs : Mature(o)
  <2>1. TypeOK' /\ UNCHANGED <<pc, copy, file, kind, spent, payout>>
    BY <1>2 DEF ExportKit, Mature, TypeOK
  <2> QED BY <2>1, Quiet
<1>3. ASSUME NEW r \in Runs, NEW k \in Kinds, Load(r, k) PROVE IndInv'
  <2>1. /\ pc[r] = "idle" /\ file \in EscrowDeals \cup {Torn}
        /\ UNCHANGED <<file, kit, spent, mature, payout>>
    BY <1>3 DEF Load, TypeOK
  <2>2. TypeOK'
    BY <1>3, ShipDeal, FirstStepOf
       DEF Load, Source, Startable, TypeOK, PCs, Final, Kinds, Goto
  <2>3. \A o \in Outputs : spent[o] # r
    BY <2>1 DEF RunInv
  <2>4. payout[r] = "none"
    BY <2>1, <2>3, FundIsOutput DEF PayoutInv, HasSpent, TypeOK
  <2>5. \A s \in Runs \ {r} : /\ kind'[s] = kind[s] /\ copy'[s] = copy[s]
                              /\ pc'[s] = pc[s]
    BY <1>3 DEF Load, Goto, TypeOK
  <2>6. RunInv(r)'
    <3>1. CASE Goto(r, "failed")
      BY <2>1, <3>1 DEF RunInv, Goto, TypeOK, Final
    <3>2. CASE k = "ship" /\ file # Torn /\ copy' = [copy EXCEPT ![r] = Ship(file)]
               /\ Goto(r, "save")
      BY <1>3, <2>1, <3>2, ShipDeal DEF Load, RunInv, Goto, TypeOK, Final, EscrowDeals
    <3>3. CASE k \in Recovery /\ kit # Torn /\ kit.fund # NoTx
               /\ copy' = [copy EXCEPT ![r] = kit] /\ Goto(r, "lookup")
      BY <1>3, <2>1, <2>3, <3>3 DEF Load, RunInv, Goto, TypeOK, Final
    <3>4. CASE k \in Closing /\ file # Torn /\ copy' = [copy EXCEPT ![r] = file]
               /\ Goto(r, "claim")
      BY <1>3, <2>1, <2>3, <3>4 DEF Load, RunInv, Goto, TypeOK, Final
    <3> QED BY <1>3, <3>1, <3>2, <3>3, <3>4, FirstStepOf, ReadyKit
            DEF Load, Source, Startable, Kinds, Closing, Recovery
  <2>7. \A s \in Runs : RunInv(s)'
    BY <2>1, <2>5, <2>6 DEF RunInv, HasSpent
  <2>8. \A o \in Outputs : SpentInv(o)'
    BY <2>1, <2>3, <2>5 DEF SpentInv, TypeOK
  <2>9. PayoutInv'
    BY <2>1, <2>4, <2>5 DEF PayoutInv, HasSpent
  <2>10. ClosedTellsTruth'
    <3>1. Closed(file) => file.claim \in Runs \ {r}
      BY <2>1, <2>3, FundIsOutput DEF ClosedTellsTruth, Closed
    <3> QED BY <2>1, <2>5, <3>1 DEF ClosedTellsTruth, Closed
  <2> QED BY <2>2, <2>7, <2>8, <2>9, <2>10
<1>4. ASSUME NEW r \in Runs, Work(r) \/ Crash(r) \/ Deliver(r) PROVE IndInv'
  <2>1. CASE Lookup(r)
    <3>1. TypeOK'
      BY <2>1 DEF Lookup, Refused, Goto, TypeOK, PCs, Payouts, Final
    <3>2. \A s \in Runs : RunInv(s)'
      BY <2>1 DEF Lookup, Refused, Goto, TypeOK, RunInv, HasSpent, Final
    <3> QED BY <2>1, <3>1, <3>2
            DEF Lookup, SpentInv, PayoutInv, HasSpent, ClosedTellsTruth, Closed
  <2>2. CASE ClaimEscrow(r)
    <3>1. /\ pc[r] = "claim" /\ kind[r] \in Closing \cup Recovery
          /\ copy[r] \in EscrowDeals /\ copy[r] # Torn
          /\ UNCHANGED <<copy, file, kit, kind, mature, payout>>
      BY <2>2 DEF ClaimEscrow, TypeOK, RunInv, Final
    <3>2. CASE UNCHANGED spent /\ Goto(r, "failed")
      <4>1. TypeOK'
        BY <3>1, <3>2 DEF Goto, TypeOK, PCs, Final
      <4>2. \A s \in Runs : pc'[s] = pc[s] \/ pc'[s] = "failed"
        BY <3>2 DEF Goto, TypeOK
      <4> QED BY <3>1, <3>2, <4>1, <4>2, Quiet
    <3>3. ASSUME NEW l \in {"done", "pay", "failed"},
                 copy[r].fund # NoTx, spent[copy[r].fund] = NoTx,
                 spent' = [spent EXCEPT ![copy[r].fund] = r],
                 Goto(r, l), l = "pay" => kind[r] \in Closing
          PROVE  IndInv'
      <4> DEFINE c == copy[r].fund
      <4>1. c \in Outputs /\ c # NoTx
        BY <3>1, <3>3, FundIsOutput
      <4>2. payout[r] = "none" /\ \A o \in Outputs : spent[o] # r
        BY <3>1, <3>3, <4>1 DEF PayoutInv, HasSpent, RunInv, TypeOK
      <4>3. spent'[c] = r /\ \A o \in Outputs \ {c} : spent'[o] = spent[o]
        BY <3>3, <4>1 DEF TypeOK
      <4>4. TypeOK'
        BY <3>1, <3>3, <4>1 DEF Goto, TypeOK, PCs, Final
      <4>5. \A s \in Runs : HasSpent(s) => HasSpent(s)'
        BY <3>1, <3>3, <4>1, <4>3, FundIsOutput DEF HasSpent, TypeOK
      <4>6. HasSpent(r)'
        BY <3>1, <4>1, <4>3 DEF HasSpent
      <4>7. \A s \in Runs \ {r} : pc'[s] = pc[s] /\ pc'[r] = l
        BY <3>3 DEF Goto, TypeOK
      <4>8. ASSUME NEW s \in Runs \ {r} PROVE RunInv(s)'
        BY <3>1, <4>1, <4>3, <4>5, <4>7 DEF RunInv
      <4>9. RunInv(r)'
        BY <3>1, <3>3, <4>2, <4>6 DEF RunInv, Goto, TypeOK, Final
      <4>10. \A o \in Outputs : SpentInv(o)'
        BY <3>1, <4>1, <4>3 DEF SpentInv
      <4>11. PayoutInv'
        BY <3>1, <4>5 DEF PayoutInv
      <4>12. ClosedTellsTruth'
        BY <3>1, <3>3, <4>1, <4>3, FundIsOutput DEF ClosedTellsTruth, Closed, TypeOK
      <4> QED BY <4>4, <4>8, <4>9, <4>10, <4>11, <4>12
    <3>4. \/ UNCHANGED spent /\ Goto(r, "failed")
          \/ /\ copy[r].fund # NoTx /\ spent[copy[r].fund] = NoTx
             /\ spent' = [spent EXCEPT ![copy[r].fund] = r]
             /\ \E l \in {"done", "pay", "failed"} :
                   Goto(r, l) /\ (l = "pay" => kind[r] \in Closing)
      BY <2>2, <3>1 DEF ClaimEscrow, Spendable, Answered, Refused
    <3> QED BY <3>2, <3>3, <3>4
  <2>3. CASE SendPayment(r)
    <3>1. TypeOK'
      BY <2>3
         DEF SendPayment, Answered, Refused, Goto, TypeOK, RunInv, PCs, Payouts, Final
    <3>2. \A s \in Runs : RunInv(s)'
      BY <2>3
         DEF SendPayment, Answered, Refused, Goto, TypeOK, RunInv, HasSpent, PayoutInv,
         Final
    <3>3. PayoutInv' /\ \A o \in Outputs : SpentInv(o)'
      BY <2>3
         DEF SendPayment, Answered, Refused, Goto, TypeOK, RunInv, HasSpent, SpentInv,
         PayoutInv
    <3>4. ClosedTellsTruth'
      BY <2>3
         DEF SendPayment, Answered, Refused, Goto, TypeOK, RunInv, HasSpent, PayoutInv,
         ClosedTellsTruth, Closed
    <3> QED BY <3>1, <3>2, <3>3, <3>4
  <2>4. CASE Truncate(r)
    <3>1. TypeOK'
      BY <2>4
         DEF Truncate, TruncateFile, Answered, Refused, Goto, TypeOK, RunInv, PCs,
         Payouts, Final
    <3>2. \A s \in Runs : RunInv(s)'
      BY <2>4
         DEF Truncate, TruncateFile, Answered, Refused, Goto, TypeOK, RunInv, HasSpent,
         PayoutInv, Final
    <3>3. PayoutInv' /\ \A o \in Outputs : SpentInv(o)'
      BY <2>4
         DEF Truncate, TruncateFile, Answered, Refused, Goto, TypeOK, RunInv, HasSpent,
         SpentInv, PayoutInv
    <3>4. ClosedTellsTruth'
      BY <2>4
         DEF Truncate, TruncateFile, Answered, Refused, Goto, TypeOK, RunInv, HasSpent,
         PayoutInv, ClosedTellsTruth, Closed
    <3> QED BY <3>1, <3>2, <3>3, <3>4
  <2>5. CASE Write(r)
    <3>1. TypeOK'
      BY <2>5 DEF Write, WriteFile, Refused, Goto, TypeOK, RunInv, PCs, Payouts, Final
    <3>2. \A s \in Runs : RunInv(s)'
      BY <2>5
         DEF Write, WriteFile, Refused, Goto, TypeOK, RunInv, HasSpent, PayoutInv, Final
    <3>3. PayoutInv' /\ \A o \in Outputs : SpentInv(o)'
      BY <2>5
         DEF Write, WriteFile, Refused, Goto, TypeOK, RunInv, HasSpent, SpentInv,
         PayoutInv
    <3>4. ClosedTellsTruth'
      BY <2>5
         DEF Write, WriteFile, Refused, Goto, TypeOK, RunInv, HasSpent, PayoutInv,
         ClosedTellsTruth, Closed
    <3> QED BY <3>1, <3>2, <3>3, <3>4
  <2>6. CASE Crash(r)
    <3>1. TypeOK' /\ UNCHANGED <<copy, file, kind, spent, payout>>
      BY <2>6 DEF Crash, Die, Goto, TypeOK, PCs, Final
    <3>2. \A s \in Runs : pc'[s] = pc[s] \/ pc'[s] = "crashed"
      BY <2>6 DEF Crash, Die, Goto, TypeOK
    <3> QED BY <3>1, <3>2, Quiet
  <2>7. CASE Deliver(r)
    <3>1. TypeOK'
      BY <2>7 DEF Deliver, Goto, TypeOK, RunInv, PCs, Payouts, Final
    <3>2. \A s \in Runs : RunInv(s)'
      BY <2>7 DEF Deliver, Goto, TypeOK, RunInv, HasSpent, PayoutInv, Final
    <3>3. PayoutInv' /\ \A o \in Outputs : SpentInv(o)'
      BY <2>7 DEF Deliver, Goto, TypeOK, RunInv, HasSpent, SpentInv, PayoutInv
    <3>4. ClosedTellsTruth'
      BY <2>7
         DEF Deliver, Goto, TypeOK, RunInv, HasSpent, PayoutInv, ClosedTellsTruth, Closed
    <3> QED BY <3>1, <3>2, <3>3, <3>4
  <2>8. CASE AwaitPayment(r)
    <3>1. /\ copy[r] \in EscrowDeals /\ HasSpent(r) /\ kind[r] \in Closing /\ pc[r] = "await"
          /\ UNCHANGED <<file, kit, kind, spent, mature, payout>>
      BY <2>8 DEF AwaitPayment, RunInv, HasSpent, TypeOK, Final
    <3>2. CASE UNCHANGED copy /\ Goto(r, "failed")
      <4>1. TypeOK' /\ \A s \in Runs : pc'[s] = pc[s] \/ pc'[s] = "failed"
        BY <3>1, <3>2 DEF Goto, TypeOK, PCs, Final
      <4> QED BY <3>1, <3>2, <4>1, Quiet
    <3>3. CASE /\ payout[r] = "paid"
               /\ copy' = [copy EXCEPT ![r] = Close(kind[r], copy[r], r)]
               /\ Goto(r, "save")
      <4>1. TypeOK'
        BY <3>1, <3>3, CloseDeal DEF Goto, TypeOK, PCs
      <4>2. /\ copy'[r] # Torn /\ copy'[r].fund = copy[r].fund
            /\ copy'[r].claim = r /\ copy'[r].state = ClosedBy[kind[r]]
        BY <3>1, <3>3, CloseDeal DEF TypeOK, EscrowDeals
      <4>3. \A s \in Runs \ {r} : copy'[s] = copy[s] /\ pc'[s] = pc[s]
        BY <3>3 DEF Goto, TypeOK
      <4>4. \A s \in Runs : HasSpent(s) => HasSpent(s)'
        BY <3>1, <4>2, <4>3 DEF HasSpent
      <4>5. RunInv(r)'
        BY <3>1, <3>3, <4>2, <4>4 DEF RunInv, Goto, TypeOK, Final
      <4>6. \A s \in Runs : RunInv(s)'
        BY <3>1, <4>3, <4>4, <4>5 DEF RunInv
      <4>7. \A o \in Outputs : SpentInv(o)'
        BY <3>1, <4>2, <4>3 DEF SpentInv, TypeOK
      <4>8. PayoutInv' /\ ClosedTellsTruth'
        BY <3>1, <4>4 DEF PayoutInv, ClosedTellsTruth, Closed
      <4> QED BY <4>1, <4>6, <4>7, <4>8
    <3> QED BY <2>8, <3>2, <3>3 DEF AwaitPayment, Closes, Refused
  <2> QED BY <1>4, <2>1, <2>2, <2>3, <2>4, <2>5, <2>6, <2>7, <2>8 DEF Work
<1> QED BY <1>1, <1>2, <1>3, <1>4 DEF Next
-----------------------------------------------------------------------------
(* The theorems. *)

\* The inductive invariant holds in every state the commands can reach.
THEOREM Invariant == Spec => []IndInv
<1> QED BY InitInv, NextInv, PTL DEF Spec

\* The variables of the commands that end a deal only ever hold the values
\* TypeOK names.
THEOREM TypeCorrect == Spec => []TypeOK
<1>1. IndInv => TypeOK
  BY DEF IndInv
<1> QED BY <1>1, Invariant, PTL

\* A command asks LND to pay only after its own spend of the escrow output,
\* so that two commands never pay for one output.
THEOREM OnlyClaimerPays == Spec => []PayoutOnlyByClaimer
<1>1. IndInv => PayoutOnlyByClaimer
  BY DEF IndInv, PayoutInv, PayoutOnlyByClaimer
<1> QED BY <1>1, Invariant, PTL

\* A closed deal file names the transaction that spent the escrow output, by
\* the leaf of its state, and its recipient was paid.
THEOREM ClosedIsTrue == Spec => []ClosedTellsTruth
<1>1. IndInv => ClosedTellsTruth
  BY DEF IndInv
<1> QED BY <1>1, Invariant, PTL
-----------------------------------------------------------------------------
(***************************************************************************)
(* The refinement.  Three actions move the money: ClaimEscrow, SendPayment *)
(* and Deliver.  Load names the command of a run that has spent nothing.   *)
(***************************************************************************)
\* A step that leaves the spends and the payments alone is a stutter of the end.
LEMMA Stutter ==
    ASSUME UNCHANGED <<spent, payout>>,
           \A o \in Outputs : spent[o] # NoTx => kind'[spent[o]] = kind[spent[o]]
    PROVE  UNCHANGED Promise!vars
<1>1. \A o \in Outputs : HolderOf(o)' = HolderOf(o)
  BY DEF HolderOf
<1>2. \A o \in Outputs : HolderOf(o) = "service" => spent[o] # NoTx
  BY DEF HolderOf
<1>3. UNCHANGED Holder
  BY <1>1 DEF Holder
<1>4. UNCHANGED Due
  BY <1>1, <1>2 DEF Due
<1>5. UNCHANGED Payment
  BY DEF Payment
<1> QED BY <1>3, <1>4, <1>5 DEF Promise!vars

\* A step that changes only the payment of a run that has spent an output for
\* the service changes the payment for that output alone.
LEMMA ServicePays ==
    ASSUME IndInv, NEW r \in Runs, HasSpent(r), kind[r] \in Closing,
           NEW x, payout' = [payout EXCEPT ![r] = x],
           UNCHANGED <<kind, spent>>
    PROVE  LET o == copy[r].fund
           IN  /\ o \in Outputs /\ Holder[o] = "service" /\ UNCHANGED <<Holder, Due>>
               /\ Payment[o] = payout[r] /\ Payment' = [Payment EXCEPT ![o] = x]
<1> DEFINE o == copy[r].fund
<1>1. o \in Outputs /\ spent[o] = r /\ r # NoTx
  BY FundIsOutput, NoTxIsNoRun DEF IndInv, TypeOK, HasSpent
<1>2. \A q \in Outputs : HolderOf(q)' = HolderOf(q)
  BY DEF HolderOf
<1>3. UNCHANGED <<Holder, Due>>
  BY <1>2 DEF Holder, Due
<1>4. Holder[o] = "service" /\ Payment[o] = payout[r]
  BY <1>1 DEF Holder, HolderOf, Payment
<1>5. \A q \in Outputs \ {o} : spent[q] # r
  BY <1>1 DEF IndInv, SpentInv
<1>6. \A q \in Outputs : spent[q] \in Runs \cup {NoTx}
  BY DEF IndInv, TypeOK
<1>7. Payment' = [Payment EXCEPT ![o] = x]
  BY <1>1, <1>5, <1>6 DEF IndInv, TypeOK, Payment
<1> QED BY <1>1, <1>3, <1>4, <1>7

\* Every step of the commands is a step of EscrowOutcome or a stutter.
LEMMA StepImplements ==
    ASSUME IndInv, [Next]_vars
    PROVE  [Promise!Next]_(Promise!vars)
<1> USE NoTxIsNoRun
<1>0. TypeOK /\ PayoutInv /\ (\A r \in Runs : RunInv(r)) /\ \A o \in Outputs : SpentInv(o)
  BY DEF IndInv
<1>1. CASE UNCHANGED vars
  BY <1>1, Stutter DEF vars
<1>2. CASE ExportKit \/ \E o \in Outputs : Mature(o)
  BY <1>2, Stutter DEF ExportKit, Mature
<1>3. ASSUME NEW r \in Runs, NEW k \in Kinds, Load(r, k)
      PROVE  UNCHANGED Promise!vars
  <2>1. UNCHANGED <<spent, payout>> /\ \A o \in Outputs : spent[o] # r
    BY <1>0, <1>3 DEF Load, RunInv
  <2>2. \A o \in Outputs : spent[o] # NoTx => kind'[spent[o]] = kind[spent[o]]
    BY <1>0, <1>3, <2>1 DEF Load, TypeOK
  <2> QED BY <2>1, <2>2, Stutter
<1>4. ASSUME NEW r \in Runs, Work(r) \/ Crash(r) \/ Deliver(r)
      PROVE  [Promise!Next]_(Promise!vars)
  <2>1. CASE Lookup(r) \/ AwaitPayment(r) \/ Truncate(r) \/ Write(r) \/ Crash(r)
    BY <2>1, Stutter DEF Lookup, AwaitPayment, Truncate, Write, Crash
  <2>2. CASE ClaimEscrow(r)
    <3>1. CASE UNCHANGED spent
      BY <2>2, <3>1, Stutter DEF ClaimEscrow
    <3>2. CASE Spendable(r) /\ spent' = [spent EXCEPT ![copy[r].fund] = r]
      <4>0. PICK c \in Outputs : c = copy[r].fund
        BY <1>0, <2>2, <3>2, FundIsOutput
           DEF ClaimEscrow, Spendable, RunInv, TypeOK, Final
      <4>1. /\ spent[c] = NoTx /\ payout[r] = "none"
            /\ kind[r] \in Closing \cup Recovery /\ UNCHANGED <<kind, payout>>
        <5>1. spent[c] = NoTx /\ pc[r] = "claim"
          BY <2>2, <3>2, <4>0 DEF ClaimEscrow, Spendable
        <5>2. \A o \in Outputs : spent[o] # r
          BY <1>0, <5>1 DEF RunInv
        <5>3. payout[r] = "none"
          BY <1>0, <5>2, FundIsOutput DEF PayoutInv, HasSpent, TypeOK
        <5> QED BY <1>0, <2>2, <5>1, <5>3 DEF ClaimEscrow, RunInv
      <4>2. spent'[c] = r /\ \A o \in Outputs \ {c} : spent'[o] = spent[o]
        BY <1>0, <3>2, <4>0 DEF TypeOK
      <4>3. \A o \in Outputs \ {c} : HolderOf(o)' = HolderOf(o)
        BY <4>1, <4>2 DEF HolderOf
      <4>4. Holder[c] = "escrow" /\ HolderOf(c) = "escrow"
        BY <4>1 DEF Holder, HolderOf
      <4>5. UNCHANGED Payment
        BY <4>1, <4>2 DEF Payment
      <4>6. PartyOf(kind[r]) \in Promise!Parties
        BY DEF PartyOf, Promise!Parties
      <4>7. CASE kind[r] \in Closing
        <5>1. HolderOf(c)' = "service"
          BY <4>1, <4>2, <4>7 DEF HolderOf
        <5>2. Holder' = [Holder EXCEPT ![c] = "service"]
          BY <4>1, <4>3, <5>1 DEF Holder
        <5>3. Due' = [Due EXCEPT ![c] = PartyOf(kind[r])]
          BY <4>1, <4>2, <4>3, <5>1 DEF Due
        <5>4. Promise!ClaimFor(c, PartyOf(kind[r]))
          BY <4>4, <4>5, <5>2, <5>3 DEF Promise!ClaimFor
        <5> QED BY <4>1, <4>6, <5>4 DEF Promise!Next
      <4>8. CASE kind[r] \notin Closing
        <5>1. HolderOf(c)' = PartyOf(kind[r]) /\ PartyOf(kind[r]) # "service"
          BY <4>1, <4>2, <4>8 DEF HolderOf, PartyOf
        <5>2. Holder' = [Holder EXCEPT ![c] = PartyOf(kind[r])]
          BY <4>1, <4>3, <5>1 DEF Holder
        <5>3. UNCHANGED Due
          BY <4>1, <4>2, <4>3, <4>4, <5>1 DEF Due
        <5>4. Promise!Recover(c, PartyOf(kind[r]))
          BY <4>4, <4>5, <5>2, <5>3 DEF Promise!Recover
        <5> QED BY <4>1, <4>6, <5>4 DEF Promise!Next
      <4> QED BY <4>7, <4>8
    <3> QED BY <2>2, <3>1, <3>2 DEF ClaimEscrow
  <2>3. CASE SendPayment(r)
    <3>1. CASE UNCHANGED payout
      BY <2>3, <3>1, Stutter DEF SendPayment
    <3>2. CASE payout' = [payout EXCEPT ![r] = "inflight"]
      <4>1. HasSpent(r) /\ kind[r] \in Closing /\ payout[r] = "none"
            /\ UNCHANGED <<kind, spent>>
        BY <1>0, <2>3, <3>2 DEF SendPayment, RunInv
      <4>2. copy[r].fund \in Outputs /\ Promise!Send(copy[r].fund)
        BY <3>2, <4>1, ServicePays DEF Promise!Send
      <4> QED BY <4>2 DEF Promise!Next
    <3> QED BY <2>3, <3>1, <3>2 DEF SendPayment
  <2>4. CASE Deliver(r)
    <3>1. HasSpent(r) /\ kind[r] \in Closing /\ payout[r] = "inflight"
          /\ UNCHANGED <<kind, spent>>
      BY <1>0, <2>4 DEF Deliver, PayoutInv
    <3>2. PICK res \in {"paid", "failed"} : payout' = [payout EXCEPT ![r] = res]
      BY <2>4 DEF Deliver
    <3>3. copy[r].fund \in Outputs /\ Promise!Resolve(copy[r].fund)
      BY <3>1, <3>2, ServicePays DEF Promise!Resolve
    <3> QED BY <3>3 DEF Promise!Next
  <2> QED BY <1>4, <2>1, <2>2, <2>3, <2>4 DEF Work
<1> QED BY <1>1, <1>2, <1>3, <1>4 DEF Next

\* The commands that end a deal keep the promise: seen from the escrow outputs
\* and the payments alone, every behaviour of them, failures and races
\* included, is a behaviour of EscrowOutcome.
THEOREM DealEndsOnce == Spec => ImplementsEscrowOutcome
<1>1. Init => Promise!Init
  BY DEF Init, Promise!Init, Holder, HolderOf, Due, Payment
<1>2. IndInv /\ [Next]_vars => [Promise!Next]_(Promise!vars)
  BY StepImplements
<1> QED BY <1>1, <1>2, Invariant, PTL DEF Spec, ImplementsEscrowOutcome, Promise!Spec
=============================================================================
