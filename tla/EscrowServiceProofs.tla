------------------------- MODULE EscrowServiceProofs -------------------------
(***************************************************************************)
(* The components within the whole system.                                 *)
(*                                                                         *)
(* What the runs of fund and the commands that end a deal know by          *)
(* themselves, whatever the deal file says, they know in the whole system, *)
(* where joins, other funds and other ends save the same file.  So the     *)
(* invariants of FundSwap and ClaimPayout hold there.  The theorems of     *)
(* FundSwapProofs and ClaimPayoutProofs are about the behaviours of one    *)
(* component with its own initial files; those of the system start from no *)
(* file and let three components save.  Types and what a file can name     *)
(* come from RecordInv, so the steps of a component have only to keep what *)
(* its runs know (FundInv, EndInv).                                        *)
(*                                                                         *)
(* All commands together implement EscrowService, for any number of runs   *)
(* of each.  Fund and the nodes it talks to take the steps of the swap,    *)
(* the commands that end a deal those of its end, and a join is never      *)
(* seen.  The one step that concerns both is the spend of an output: it    *)
(* needs the deal record that led to it to name an output that was paid    *)
(* for, which is what RecordInv is about.                                  *)
(***************************************************************************)
EXTENDS EscrowSystemProofs

\* What FundSwap's invariant says of its runs.
FundInv == \A f \in FundRuns : F!RunInv(f) /\ F!SwapInv(f)

\* deal.Fund yields a FUNDED deal that names the run's transaction.
LEMMA FundedDeal ==
    ASSUME NEW d \in F!Deals, NEW f \in FundRuns
    PROVE  /\ F!Fund(d, f) \in F!Deals
           /\ F!Fund(d, f).state = "FUNDED" /\ F!Fund(d, f).fund = f
           /\ F!Fund(d, f).amount = d.amount
BY EscrowSystemAssumption DEF F!Fund, F!Deals, F!DealStates

\* Every call of fund, every crash and step of LND keeps what the runs of fund
\* know of their swaps.
LEMMA FundStepKeeps ==
    ASSUME F!TypeOK, FundInv, F!Next
    PROVE  FundInv'
<1> SUFFICES \A s \in FundRuns : F!RunInv(s)' /\ F!SwapInv(s)'
  BY DEF FundInv
<1> USE DEF FundInv
<1>1. PICK r \in FundRuns : F!Step(r) \/ F!Crash(r) \/ F!Environment(r)
  BY DEF F!Next
<1>2. CASE F!Load(r)
  <2>1. \A s \in FundRuns : F!RunInv(s)'
    BY <1>2 DEF F!Load, F!Fundable, F!TypeOK, F!RunInv, F!SwapInv, F!Live, F!Goto
  <2>2. \A s \in FundRuns : F!SwapInv(s)'
    BY <1>2 DEF F!Load, F!TypeOK, F!RunInv, F!SwapInv, F!Goto
  <2> QED  BY <2>1, <2>2
<1>3. CASE F!Lock(r)
  <2>1. \A s \in FundRuns : F!RunInv(s)'
    BY <1>3
       DEF F!Lock, F!TypeOK, F!RunInv, F!SwapInv, F!Live, F!Goto, F!Answered, F!Refused
  <2>2. \A s \in FundRuns : F!SwapInv(s)'
    BY <1>3 DEF F!Lock, F!TypeOK, F!RunInv, F!SwapInv, F!Goto, F!Answered, F!Refused
  <2> QED  BY <2>1, <2>2
<1>4. CASE F!Confirm(r)
  <2>1. \A s \in FundRuns : F!RunInv(s)'
    BY <1>4 DEF F!Confirm, F!TypeOK, F!RunInv, F!Live, F!Goto, F!Answered
  <2>2. \A s \in FundRuns : F!SwapInv(s)'
    BY <1>4 DEF F!Confirm, F!SwapInv
  <2> QED  BY <2>1, <2>2
<1>5. CASE F!AddHoldInvoice(r)
  <2>1. \A s \in FundRuns : F!RunInv(s)'
    BY <1>5 DEF F!AddHoldInvoice, F!TypeOK, F!RunInv, F!SwapInv, F!Live, F!Goto, F!Refused
  <2>2. \A s \in FundRuns : F!SwapInv(s)'
    BY <1>5 DEF F!AddHoldInvoice, F!TypeOK, F!RunInv, F!SwapInv, F!Goto, F!Refused
  <2> QED  BY <2>1, <2>2
<1>6. CASE F!Poll(r)
  <2>1. \A s \in FundRuns : F!RunInv(s)'
    BY <1>6 DEF F!Poll, F!TypeOK, F!RunInv, F!SwapInv, F!Live, F!Goto, F!Refused
  <2>2. \A s \in FundRuns : F!SwapInv(s)'
    BY <1>6 DEF F!Poll, F!SwapInv
  <2> QED  BY <2>1, <2>2
<1>7. CASE F!ClaimHTLC(r)
  <2>1. \A s \in FundRuns : F!RunInv(s)'
    BY <1>7
       DEF F!ClaimHTLC, F!TypeOK, F!RunInv, F!SwapInv, F!Live, F!Goto, F!Answered,
       F!Refused
  <2>2. \A s \in FundRuns : F!SwapInv(s)'
    BY <1>7 DEF F!ClaimHTLC, F!TypeOK, F!RunInv, F!SwapInv, F!Goto, F!Answered, F!Refused
  <2> QED  BY <2>1, <2>2
<1>8. CASE F!Settle(r)
  <2>1. \A s \in FundRuns : F!RunInv(s)'
    BY <1>8
       DEF F!Settle, F!TypeOK, F!RunInv, F!SwapInv, F!Live, F!Goto, F!Answered, F!Refused
  <2>2. \A s \in FundRuns : F!SwapInv(s)'
    BY <1>8 DEF F!Settle, F!TypeOK, F!RunInv, F!SwapInv, F!Goto, F!Answered, F!Refused
  <2> QED  BY <2>1, <2>2
<1>9. CASE F!Record(r)
  <2>1. fpc[r] = "record" /\ F!RunInv(r) /\ F!SwapInv(r) /\ fcopy[r] \in F!Deals
    BY <1>9 DEF F!Record, F!RunInv, F!Live
  <2>2. /\ UNCHANGED <<htlc, invoice, paid>>
        /\ \/ fcopy' = [fcopy EXCEPT ![r] = F!Fund(fcopy[r], r)] /\ F!Goto(r, "save")
           \/ UNCHANGED fcopy /\ F!Goto(r, "failed")
    BY <1>9 DEF F!Record, F!Refused
  <2>3. \A s \in FundRuns : F!RunInv(s)'
    BY <2>1, <2>2, FundedDeal DEF F!TypeOK, F!RunInv, F!Live, F!Goto
  <2>4. \A s \in FundRuns : F!SwapInv(s)'
    <3>1. F!Fund(fcopy[r], r).amount = fcopy[r].amount
      BY <2>1, FundedDeal
    <3>2. \A s \in FundRuns : fcopy'[s].amount = fcopy[s].amount
      BY <2>2, <3>1 DEF F!TypeOK
    <3> QED  BY <2>2, <3>2 DEF F!SwapInv, F!AboveDust
  <2> QED  BY <2>3, <2>4
<1>10. CASE F!Truncate(r) \/ F!Write(r) \/ F!Crash(r)
  <2>1. \A s \in FundRuns : F!RunInv(s)'
    BY <1>10 DEF F!Truncate, F!TruncateFile, F!Write, F!WriteFile, F!Crash, F!Die,
                 F!TypeOK, F!RunInv, F!Live, F!Goto, F!Answered, F!Refused
  <2>2. \A s \in FundRuns : F!SwapInv(s)'
    BY <1>10
       DEF F!Truncate, F!TruncateFile, F!Write, F!WriteFile, F!Crash, F!Die, F!SwapInv
  <2> QED  BY <2>1, <2>2
<1>11. CASE F!Environment(r)
  <2>1. \A s \in FundRuns : F!RunInv(s)'
    BY <1>11
       DEF F!Environment, F!Pay, F!Expire, F!CancelHeld, F!TypeOK, F!RunInv, F!SwapInv
  <2>2. \A s \in FundRuns : F!SwapInv(s)'
    BY <1>11
       DEF F!Environment, F!Pay, F!Expire, F!CancelHeld, F!TypeOK, F!RunInv, F!SwapInv
  <2> QED  BY <2>1, <2>2
<1> QED
  BY <1>1, <1>2, <1>3, <1>4, <1>5, <1>6, <1>7, <1>8, <1>9, <1>10, <1>11 DEF F!Step
-----------------------------------------------------------------------------
\* What ClaimPayout's invariant says of its runs, its outputs and the file.
EndInv ==
    /\ mature \subseteq FundRuns
    /\ \A r \in ClaimRuns : C!RunInv(r)
    /\ \A o \in FundRuns : C!SpentInv(o)
    /\ C!PayoutInv
    /\ C!ClosedTellsTruth

\* A record names an output of a run of fund or none, so the records of the
\* commands that end a deal have their types.
LEMMA EndTypes ==
    ASSUME RecordInv, mature \subseteq FundRuns
    PROVE  C!TypeOK
<1>1. \A d \in Records \ {Torn} : d.fund \in FundRuns \cup {NoTx}
  BY DEF RecordInv, Backed, BackedBy
<1>2. \A d \in Records : d \in Deals \cup {Torn} => d \in C!EscrowDeals \cup {Torn}
  BY <1>1, SameDeals DEF C!EscrowDeals
<1>3. file \in C!EscrowDeals \cup {Torn} /\ kit \in C!EscrowDeals \cup {Torn}
  BY <1>2, SameDeals DEF RecordInv, J!TypeOK, EndTypeOK, Records
<1>4. ccopy \in [ClaimRuns -> C!EscrowDeals \cup {Torn}]
  BY <1>2 DEF RecordInv, EndTypeOK, Records
<1> QED  BY <1>3, <1>4 DEF RecordInv, EndTypeOK, C!TypeOK

\* An unspent output is spent by no run, and no output is called NoTx.
LEMMA NoTxIsNoRun == NoTx \notin ClaimRuns /\ NoTx \notin FundRuns /\ Torn \notin C!EscrowDeals
BY EscrowSystemAssumption, DealAssumption, SameDeals DEF C!EscrowDeals

\* deal.Release, Refund and Dispute yield a closed deal of the command's state
\* with the same outpoint.
LEMMA ClosedDeal ==
    ASSUME NEW d \in C!EscrowDeals, NEW k \in C!Closing, NEW r \in ClaimRuns
    PROVE  /\ C!Close(k, d, r) \in C!EscrowDeals
           /\ C!Close(k, d, r).claim = r
           /\ C!Close(k, d, r).fund = d.fund
           /\ C!Close(k, d, r).state = C!ClosedBy[k]
<1> USE EscrowSystemAssumption
<1>1. CASE k = "release"
  BY <1>1 DEF C!Close, C!Release, C!ClosedBy, C!EscrowDeals, C!Deals, C!DealStates
<1>2. CASE k = "refund"
  BY <1>2 DEF C!Close, C!Refund, C!ClosedBy, C!EscrowDeals, C!Deals, C!DealStates
<1>3. CASE k = "awardSeller"
  BY <1>3 DEF C!Close, C!Dispute, C!ClosedBy, C!EscrowDeals, C!Deals, C!DealStates
<1>4. CASE k = "awardBuyer"
  BY <1>4 DEF C!Close, C!Dispute, C!ClosedBy, C!EscrowDeals, C!Deals, C!DealStates
<1> QED  BY <1>1, <1>2, <1>3, <1>4 DEF C!Closing

\* A step that leaves the nodes, the kinds, the file and the deals of the runs
\* alone, and takes no run to where it would have to know more, keeps EndInv.
LEMMA QuietKeeps ==
    ASSUME EndInv, mature' \subseteq FundRuns,
           UNCHANGED <<ccopy, file, kind, spent, payout>>,
           \A s \in ClaimRuns : cpc'[s] = cpc[s] \/ cpc'[s] \in {"failed", "crashed", "done"}
    PROVE  EndInv'
<1>1. \A s \in ClaimRuns : C!RunInv(s)'
  BY DEF EndInv, C!RunInv, C!HasSpent, C!Final
<1> QED  BY <1>1 DEF EndInv, C!SpentInv, C!PayoutInv, C!HasSpent, C!ClosedTellsTruth, C!Closed

\* A command that loads a file or a kit knows what it has to from then on.
LEMMA LoadKeeps ==
    ASSUME C!TypeOK, EndInv, NEW r \in ClaimRuns, NEW k \in C!Kinds, C!Load(r, k)
    PROVE  EndInv'
<1> USE NoTxIsNoRun
<1>1. /\ cpc[r] = "idle" /\ file \in C!EscrowDeals \cup {Torn}
      /\ UNCHANGED <<file, kit, spent, mature, payout>>
      /\ kind' = [kind EXCEPT ![r] = k]
      /\ \A s \in ClaimRuns : C!RunInv(s)
  BY DEF C!Load, C!TypeOK, EndInv
<1>2. \A o \in FundRuns : spent[o] # r
  BY <1>1 DEF C!RunInv
<1>3. payout[r] = "none"
  BY <1>1, <1>2 DEF EndInv, C!PayoutInv, C!HasSpent, C!TypeOK, C!EscrowDeals
<1>4. \A s \in ClaimRuns \ {r} : /\ kind'[s] = kind[s] /\ ccopy'[s] = ccopy[s]
                                 /\ cpc'[s] = cpc[s]
  BY DEF C!Load, C!Goto, C!TypeOK
<1>5. C!RunInv(r)'
  <2>1. CASE C!Goto(r, "failed")
    BY <1>1, <2>1 DEF C!RunInv, C!Goto, C!TypeOK, C!Final
  <2>2. CASE k = "ship" /\ file # Torn /\ ccopy' = [ccopy EXCEPT ![r] = C!Ship(file)]
             /\ C!Goto(r, "save")
    <3>1. C!Ship(file) \in C!EscrowDeals /\ C!Ship(file).state = "SHIPPED"
      BY <1>1, <2>2 DEF C!Ship, C!EscrowDeals, C!Deals, C!DealStates
    <3> QED  BY <1>1, <2>2, <3>1 DEF C!RunInv, C!Goto, C!TypeOK, C!Final
  <2>3. CASE k \in C!Recovery /\ kit # Torn /\ kit.fund # NoTx
             /\ ccopy' = [ccopy EXCEPT ![r] = kit] /\ C!Goto(r, "lookup")
    BY <1>1, <1>2, <2>3 DEF C!RunInv, C!Goto, C!TypeOK, C!Final
  <2>4. CASE k \in C!Closing /\ file # Torn /\ ccopy' = [ccopy EXCEPT ![r] = file]
             /\ C!Goto(r, "claim")
    BY <1>1, <1>2, <2>4 DEF C!RunInv, C!Goto, C!TypeOK, C!Final
  <2>5. CASE k = "ship"
    <3>1. C!FirstStep(k) = "save" /\ C!Source(k) = file
      BY <2>5 DEF C!FirstStep, C!Source, C!Recovery, C!Closing
    <3> QED  BY <2>1, <2>2, <2>5, <3>1 DEF C!Load, C!Startable
  <2>6. CASE k \in C!Recovery
    <3>1. C!FirstStep(k) = "lookup" /\ C!Source(k) = kit /\ k # "ship"
      BY <2>6 DEF C!FirstStep, C!Source, C!Recovery, C!Closing
    <3>2. C!Ready(k, kit) => kit.fund # NoTx
      BY <2>6 DEF C!Ready, C!Recovery
    <3> QED  BY <2>1, <2>3, <2>6, <3>1, <3>2 DEF C!Load, C!Startable
  <2>7. CASE k \in C!Closing
    BY <2>1, <2>4, <2>7
       DEF C!Load, C!Source, C!Startable, C!FirstStep, C!Recovery, C!Closing
  <2> QED  BY <2>5, <2>6, <2>7 DEF C!Kinds
<1>6. \A s \in ClaimRuns : C!RunInv(s)'
  BY <1>1, <1>4, <1>5 DEF C!RunInv, C!HasSpent
<1>7. \A o \in FundRuns : C!SpentInv(o)'
  BY <1>1, <1>2, <1>4 DEF EndInv, C!SpentInv, C!TypeOK
<1>8. C!PayoutInv'
  BY <1>1, <1>3, <1>4 DEF EndInv, C!PayoutInv, C!HasSpent
<1>9. C!ClosedTellsTruth'
  <2>1. C!Closed(file) => file.claim \in ClaimRuns \ {r}
    BY <1>1, <1>2 DEF EndInv, C!ClosedTellsTruth, C!Closed, C!EscrowDeals
  <2> QED  BY <1>1, <1>4, <2>1 DEF EndInv, C!ClosedTellsTruth, C!Closed
<1> QED  BY <1>1, <1>6, <1>7, <1>8, <1>9 DEF EndInv

\* The spend of an output keeps what the runs know: only its run becomes a spender.
LEMMA ClaimKeeps ==
    ASSUME C!TypeOK, EndInv, NEW r \in ClaimRuns, C!ClaimEscrow(r)
    PROVE  EndInv'
<1> USE NoTxIsNoRun
<1>1. /\ cpc[r] = "claim" /\ kind[r] \in C!Closing \cup C!Recovery
      /\ ccopy[r] \in C!EscrowDeals /\ ccopy[r] # Torn
      /\ UNCHANGED <<ccopy, file, kit, kind, mature, payout>>
  BY DEF EndInv, C!ClaimEscrow, C!TypeOK, C!RunInv, C!Final
<1>2. CASE UNCHANGED spent /\ C!Goto(r, "failed")
  <2>1. \A s \in ClaimRuns : cpc'[s] = cpc[s] \/ cpc'[s] = "failed"
    BY <1>2 DEF C!Goto, C!TypeOK
  <2> QED  BY <1>1, <1>2, <2>1, QuietKeeps DEF EndInv
<1>3. ASSUME NEW l \in {"done", "pay", "failed"},
             ccopy[r].fund # NoTx, spent[ccopy[r].fund] = NoTx,
             spent' = [spent EXCEPT ![ccopy[r].fund] = r],
             C!Goto(r, l), l = "pay" => kind[r] \in C!Closing
      PROVE  EndInv'
  <2> DEFINE c == ccopy[r].fund
  <2>0. /\ \A s \in ClaimRuns : C!RunInv(s)
        /\ C!PayoutInv /\ C!ClosedTellsTruth /\ \A o \in FundRuns : C!SpentInv(o)
    BY DEF EndInv
  <2>1. c \in FundRuns /\ c # NoTx
    BY <1>1, <1>3 DEF C!EscrowDeals
  <2>2. payout[r] = "none" /\ \A o \in FundRuns : spent[o] # r
    BY <1>1, <1>3, <2>0, <2>1 DEF C!PayoutInv, C!HasSpent, C!RunInv, C!TypeOK
  <2>3. spent'[c] = r /\ \A o \in FundRuns \ {c} : spent'[o] = spent[o]
    BY <1>3, <2>1 DEF C!TypeOK
  <2>4. \A s \in ClaimRuns : ccopy[s] # Torn /\ ccopy[s].fund # NoTx => ccopy[s].fund \in FundRuns
    BY DEF C!TypeOK, C!EscrowDeals
  <2>5. \A s \in ClaimRuns : C!HasSpent(s) => C!HasSpent(s)'
    BY <1>1, <1>3, <2>1, <2>3, <2>4 DEF C!HasSpent, C!TypeOK
  <2>6. C!HasSpent(r)'
    BY <1>1, <2>1, <2>3 DEF C!HasSpent
  <2>7. cpc'[r] = l /\ \A s \in ClaimRuns \ {r} : cpc'[s] = cpc[s]
    BY <1>3 DEF C!Goto, C!TypeOK
  <2>8. ASSUME NEW s \in ClaimRuns \ {r} PROVE C!RunInv(s)'
    BY <1>1, <2>0, <2>1, <2>3, <2>5, <2>7 DEF C!RunInv
  <2>9. C!RunInv(r)'
    BY <1>1, <1>3, <2>2, <2>6, <2>7 DEF C!RunInv, C!Final
  <2>10. \A o \in FundRuns : C!SpentInv(o)'
    BY <1>1, <2>0, <2>1, <2>3 DEF C!SpentInv
  <2>11. C!PayoutInv'
    BY <1>1, <2>0, <2>5 DEF C!PayoutInv
  <2>12. file # Torn /\ file.fund # NoTx => file.fund \in FundRuns
    BY DEF C!TypeOK, C!EscrowDeals
  <2>13. C!ClosedTellsTruth'
    BY <1>1, <1>3, <2>0, <2>1, <2>3, <2>12 DEF C!ClosedTellsTruth, C!Closed
  <2> QED  BY <1>1, <2>8, <2>9, <2>10, <2>11, <2>13 DEF EndInv
<1>4. \/ UNCHANGED spent /\ C!Goto(r, "failed")
      \/ /\ ccopy[r].fund # NoTx /\ spent[ccopy[r].fund] = NoTx
         /\ spent' = [spent EXCEPT ![ccopy[r].fund] = r]
         /\ \E l \in {"done", "pay", "failed"} :
               C!Goto(r, l) /\ (l = "pay" => kind[r] \in C!Closing)
  BY <1>1 DEF C!ClaimEscrow, C!Spendable, C!Answered, C!Refused
<1> QED  BY <1>2, <1>3, <1>4

\* The answer of LND to the payment keeps what the runs know: a deal is closed
\* only by a run that was told of a success.
LEMMA AwaitKeeps ==
    ASSUME C!TypeOK, EndInv, NEW r \in ClaimRuns, C!AwaitPayment(r)
    PROVE  EndInv'
<1> USE NoTxIsNoRun
<1>1. /\ ccopy[r] \in C!EscrowDeals /\ C!HasSpent(r) /\ kind[r] \in C!Closing
      /\ cpc[r] = "await"
      /\ UNCHANGED <<file, kit, kind, spent, mature, payout>>
  BY DEF EndInv, C!AwaitPayment, C!RunInv, C!HasSpent, C!TypeOK, C!Final
<1>2. CASE UNCHANGED ccopy /\ C!Goto(r, "failed")
  <2>1. \A s \in ClaimRuns : cpc'[s] = cpc[s] \/ cpc'[s] = "failed"
    BY <1>2 DEF C!Goto, C!TypeOK
  <2> QED  BY <1>1, <1>2, <2>1, QuietKeeps DEF EndInv
<1>3. CASE /\ payout[r] = "paid"
           /\ ccopy' = [ccopy EXCEPT ![r] = C!Close(kind[r], ccopy[r], r)]
           /\ C!Goto(r, "save")
  <2>0. /\ \A s \in ClaimRuns : C!RunInv(s)
        /\ C!PayoutInv /\ C!ClosedTellsTruth /\ \A o \in FundRuns : C!SpentInv(o)
    BY DEF EndInv
  <2>1. /\ ccopy'[r] # Torn /\ ccopy'[r].fund = ccopy[r].fund
        /\ ccopy'[r].claim = r /\ ccopy'[r].state = C!ClosedBy[kind[r]]
    BY <1>1, <1>3, ClosedDeal DEF C!TypeOK, C!EscrowDeals
  <2>2. cpc'[r] = "save"
        /\ \A s \in ClaimRuns \ {r} : ccopy'[s] = ccopy[s] /\ cpc'[s] = cpc[s]
    BY <1>3 DEF C!Goto, C!TypeOK
  <2>3. \A s \in ClaimRuns : C!HasSpent(s) => C!HasSpent(s)'
    BY <1>1, <2>1, <2>2 DEF C!HasSpent
  <2>4. C!RunInv(r)'
    BY <1>1, <1>3, <2>1, <2>2, <2>3 DEF C!RunInv, C!Final
  <2>5. \A s \in ClaimRuns : C!RunInv(s)'
    BY <1>1, <2>0, <2>2, <2>3, <2>4 DEF C!RunInv
  <2>6. \A o \in FundRuns : C!SpentInv(o)'
    BY <1>1, <2>0, <2>1, <2>2 DEF C!SpentInv, C!TypeOK
  <2>7. C!PayoutInv' /\ C!ClosedTellsTruth'
    BY <1>1, <2>0, <2>3 DEF C!PayoutInv, C!ClosedTellsTruth, C!Closed
  <2> QED  BY <1>1, <2>5, <2>6, <2>7 DEF EndInv
<1> QED  BY <1>2, <1>3 DEF C!AwaitPayment, C!Closes, C!Refused

\* Every call of the commands that end a deal, every crash and step of the
\* nodes keeps what those commands know.
LEMMA EndStepKeeps ==
    ASSUME C!TypeOK, EndInv, C!Next
    PROVE  EndInv'
<1> USE NoTxIsNoRun
<1>0. /\ \A s \in ClaimRuns : C!RunInv(s)
      /\ C!PayoutInv /\ C!ClosedTellsTruth /\ \A o \in FundRuns : C!SpentInv(o)
      /\ mature \subseteq FundRuns
  BY DEF EndInv
<1>1. CASE C!ExportKit \/ \E o \in FundRuns : C!Mature(o)
  BY <1>0, <1>1, QuietKeeps DEF C!ExportKit, C!Mature
<1>2. ASSUME NEW r \in ClaimRuns, C!Lookup(r) PROVE EndInv'
  <2>1. \A s \in ClaimRuns : C!RunInv(s)'
    BY <1>0, <1>2 DEF C!Lookup, C!Refused, C!Goto, C!TypeOK, C!RunInv, C!HasSpent, C!Final
  <2> QED  BY <1>0, <1>2, <2>1
           DEF EndInv, C!Lookup, C!SpentInv, C!PayoutInv, C!HasSpent, C!ClosedTellsTruth, C!Closed
<1>3. ASSUME NEW r \in ClaimRuns, C!SendPayment(r) PROVE EndInv'
  <2>1. \A s \in ClaimRuns : C!RunInv(s)'
    BY <1>0, <1>3 DEF C!SendPayment, C!Answered, C!Refused, C!Goto, C!TypeOK, C!RunInv,
                      C!HasSpent, C!PayoutInv, C!Final
  <2>2. C!PayoutInv' /\ \A o \in FundRuns : C!SpentInv(o)'
    BY <1>0, <1>3
       DEF C!SendPayment, C!TypeOK, C!RunInv, C!HasSpent, C!SpentInv, C!PayoutInv
  <2>3. C!ClosedTellsTruth'
    BY <1>0, <1>3 DEF C!SendPayment, C!TypeOK, C!RunInv, C!ClosedTellsTruth, C!Closed
  <2> QED  BY <1>0, <1>3, <2>1, <2>2, <2>3 DEF EndInv, C!SendPayment
<1>4. ASSUME NEW r \in ClaimRuns, C!Truncate(r) \/ C!Write(r) PROVE EndInv'
  <2>1. \A s \in ClaimRuns : C!RunInv(s)'
    BY <1>0, <1>4
       DEF C!Truncate, C!TruncateFile, C!Write, C!WriteFile, C!Answered, C!Refused,
                      C!Goto, C!TypeOK, C!RunInv, C!HasSpent, C!Final
  <2>2. C!PayoutInv' /\ \A o \in FundRuns : C!SpentInv(o)'
    BY <1>0, <1>4
       DEF C!Truncate, C!TruncateFile, C!Write, C!WriteFile, C!HasSpent, C!SpentInv,
                      C!PayoutInv
  <2>3. C!ClosedTellsTruth'
    BY <1>0, <1>4
       DEF C!Truncate, C!TruncateFile, C!Write, C!WriteFile, C!RunInv, C!HasSpent,
                      C!TypeOK, C!ClosedTellsTruth, C!Closed
  <2> QED  BY <1>0, <1>4, <2>1, <2>2, <2>3 DEF EndInv, C!Truncate, C!Write
<1>5. ASSUME NEW r \in ClaimRuns, C!Crash(r) PROVE EndInv'
  <2>1. \A s \in ClaimRuns : cpc'[s] = cpc[s] \/ cpc'[s] = "crashed"
    BY <1>5 DEF C!Crash, C!Die, C!Goto, C!TypeOK
  <2> QED  BY <1>0, <1>5, <2>1, QuietKeeps DEF C!Crash, C!Die
<1>6. ASSUME NEW r \in ClaimRuns, C!Deliver(r) PROVE EndInv'
  <2>1. \A s \in ClaimRuns : C!RunInv(s)'
    BY <1>0, <1>6 DEF C!Deliver, C!TypeOK, C!RunInv, C!HasSpent, C!PayoutInv, C!Final
  <2>2. C!PayoutInv' /\ \A o \in FundRuns : C!SpentInv(o)'
    BY <1>0, <1>6 DEF C!Deliver, C!TypeOK, C!HasSpent, C!SpentInv, C!PayoutInv
  <2>3. C!ClosedTellsTruth'
    BY <1>0, <1>6 DEF C!Deliver, C!TypeOK, C!ClosedTellsTruth, C!Closed
  <2> QED  BY <1>0, <1>6, <2>1, <2>2, <2>3 DEF EndInv, C!Deliver
<1> QED
  BY <1>1, <1>2, <1>3, <1>4, <1>5, <1>6, LoadKeeps, ClaimKeeps, AwaitKeeps
     DEF C!Next, C!Work
-----------------------------------------------------------------------------
(* In the system the file is saved by others, too. *)

\* No run has started, and there is no output.
LEMMA InitKnows == Init => FundInv /\ EndInv
<1> SUFFICES ASSUME Init PROVE FundInv /\ EndInv
  OBVIOUS
<1>1. FundInv
  BY DEF Init, FundInv, F!RunInv, F!SwapInv, F!Live
<1>2. \A r \in ClaimRuns : C!RunInv(r)
  BY NoTxIsNoRun DEF Init, C!RunInv
<1>3. (\A o \in FundRuns : C!SpentInv(o)) /\ C!PayoutInv
  BY DEF Init, C!SpentInv, C!PayoutInv
<1>4. C!ClosedTellsTruth /\ mature \subseteq FundRuns
  BY DEF Init, J!Init, C!ClosedTellsTruth, C!Closed
<1> QED  BY <1>1, <1>2, <1>3, <1>4 DEF EndInv

\* What the runs of fund know is not in the file.
LEMMA OthersKeepFund ==
    ASSUME FundInv, UNCHANGED fundVars
    PROVE  FundInv'
BY DEF FundInv, fundVars, F!RunInv, F!SwapInv

\* Joins and funds save no closed deal: a join saves one that names no output,
\* a fund one that is FUNDED.
LEMMA OthersCloseNothing ==
    ASSUME RecordInv, FundInv, JoinStep \/ FundStep
    PROVE  file' = file \/ ~C!Closed(file')
<1>1. CASE JoinStep
  <2>1. \/ file' \in {file, Torn}
        \/ \E r \in JoinRuns : jpc[r] = "write" /\ file' = jcopy[r]
    BY <1>1 DEF JoinStep, J!Next, J!Create, J!JoinIt, J!Truncate, J!TruncateFile, J!Write,
                J!WriteFile, J!Crash, J!Die
  <2>2. ASSUME NEW r \in JoinRuns, jpc[r] = "write"
        PROVE  ~C!Closed(jcopy[r])
    <3>1. jcopy[r] \in Records \ {Torn} /\ jcopy[r].fund = NoTx
      BY <2>2 DEF RecordInv, KnowsNoOutput, Records
    <3> QED  BY <3>1 DEF RecordInv, Backed, C!Closed
  <2> QED  BY <2>1, <2>2 DEF C!Closed
<1>2. CASE FundStep
  <2>1. \/ file' \in {file, Torn}
        \/ \E r \in FundRuns : fpc[r] = "write" /\ file' = fcopy[r]
    BY <1>2 DEF FundStep, F!Next, F!Step, F!Environment, F!Load, F!Lock, F!Confirm,
                F!AddHoldInvoice, F!Poll, F!ClaimHTLC, F!Settle, F!Record, F!Truncate,
                F!TruncateFile, F!Write, F!WriteFile, F!Crash, F!Die, F!Pay, F!Expire,
                F!CancelHeld
  <2>2. ASSUME NEW r \in FundRuns, fpc[r] = "write"
        PROVE  fcopy[r].state = "FUNDED"
    BY <2>2 DEF FundInv, F!RunInv
  <2> QED  BY <2>1, <2>2 DEF C!Closed
<1> QED  BY <1>1, <1>2

\* So what the commands that end a deal know outlives their saves.
LEMMA OthersKeepEnd ==
    ASSUME EndInv, UNCHANGED claimVars, file' = file \/ ~C!Closed(file')
    PROVE  EndInv'
<1>1. UNCHANGED <<cpc, ccopy, kind, spent, mature, payout>>
  BY DEF claimVars
<1>2. C!ClosedTellsTruth'
  BY <1>1 DEF EndInv, C!ClosedTellsTruth, C!Closed
<1>3. (\A r \in ClaimRuns : C!RunInv(r)') /\ C!PayoutInv'
  BY <1>1 DEF EndInv, C!RunInv, C!PayoutInv, C!HasSpent
<1>4. \A o \in FundRuns : C!SpentInv(o)'
  BY <1>1 DEF EndInv, C!SpentInv
<1> QED  BY <1>1, <1>2, <1>3, <1>4 DEF EndInv

\* Every step of the system keeps what the runs of fund and the commands that
\* end a deal know.
LEMMA NextKnows ==
    ASSUME RecordInv, FundInv, EndInv, [Next]_vars
    PROVE  FundInv' /\ EndInv'
<1>1. F!TypeOK /\ C!TypeOK
  BY EndTypes DEF RecordInv, EndInv
<1>2. CASE UNCHANGED vars
  BY <1>2, OthersKeepFund, OthersKeepEnd DEF vars
<1>3. CASE JoinStep
  BY <1>3, OthersKeepFund, OthersCloseNothing, OthersKeepEnd DEF JoinStep
<1>4. CASE FundStep
  BY <1>1, <1>4, FundStepKeeps, OthersCloseNothing, OthersKeepEnd DEF FundStep
<1>5. CASE EndStep
  BY <1>1, <1>5, EndStepKeeps, OthersKeepFund DEF EndStep
<1> QED  BY <1>2, <1>3, <1>4, <1>5 DEF Next

\* A file that is FUNDED names an output, which is that of a swap that went
\* through.
LEMMA FileIsBacked == RecordInv => F!FundedNamesSettledSwap
BY DEF RecordInv, F!FundedNamesSettledSwap, F!IsFunded, Records, Backed, BackedBy

\* What FundSwap and ClaimPayout guarantee by themselves they guarantee with
\* joins, funds and ends of the deal saving the same file, for any number of
\* runs of each.
THEOREM ComponentsKeepTheirInvariants == Spec => []ComponentsHold
<1> DEFINE Knows == FundInv /\ EndInv
<1>1. Init => Knows
  BY InitKnows
<1>2. RecordInv /\ Knows /\ [Next]_vars => Knows'
  BY NextKnows
<1>3. RecordInv /\ Knows => ComponentsHold
  BY EndTypes, FileIsBacked
     DEF RecordInv, FundInv, EndInv, ComponentsHold, F!IndInv, C!IndInv
<1> HIDE DEF Knows
<1> QED  BY <1>1, <1>2, <1>3, Invariant, PTL DEF Spec

(***************************************************************************)
(* The swap.  Payment and Escrowed change in six actions; each of them is  *)
(* a step of AtomicSwap, and every other action is a stutter.              *)
(***************************************************************************)
\* A step that leaves invoices and payments alone leaves the promise's alone.
LEMMA SamePayment ==
    ASSUME UNCHANGED <<invoice, paid>>
    PROVE  UNCHANGED F!Payment
BY DEF F!Payment, F!PaymentOf, F!PaymentIn

\* A step that leaves the HTLCs alone creates no escrow output.
LEMMA SameEscrow ==
    ASSUME UNCHANGED htlc
    PROVE  UNCHANGED F!Escrowed
BY DEF F!Escrowed

\* One payment changes: that of r, from x to y.
LEMMA PaymentStep ==
    ASSUME NEW r \in FundRuns, NEW x, NEW y,
           F!PaymentOf(r) = x, F!PaymentOf(r)' = y,
           \A s \in FundRuns \ {r} : F!PaymentOf(s)' = F!PaymentOf(s)
    PROVE  /\ F!Payment[r] = x
           /\ F!Payment' = [F!Payment EXCEPT ![r] = y]
BY DEF F!Payment

\* When LND changes the invoice of one run, the promise sees that one payment.
LEMMA InvoiceStep ==
    ASSUME F!TypeOK, NEW r \in FundRuns, NEW y,
           invoice' = [invoice EXCEPT ![r] = y],
           \A s \in FundRuns \ {r} : s \in paid' <=> s \in paid
    PROVE  \A s \in FundRuns \ {r} : F!PaymentOf(s)' = F!PaymentOf(s)
BY DEF F!TypeOK, F!PaymentOf, F!PaymentIn

\* Every step of fund and of its nodes is a step of AtomicSwap or a stutter.
LEMMA FundImplements ==
    ASSUME F!TypeOK, FundInv, F!Next
    PROVE  [Promise!Swap!Next]_(Promise!Swap!vars)
<1> USE DEF FundInv
<1>0. PICK r \in FundRuns : F!Step(r) \/ F!Crash(r) \/ F!Environment(r)
  BY DEF F!Next
<1>1. CASE F!Load(r) \/ F!Confirm(r) \/ F!Poll(r) \/ F!Record(r)
             \/ F!Truncate(r) \/ F!Write(r) \/ F!Crash(r)
  <2>1. UNCHANGED <<htlc, invoice, paid>>
    BY <1>1
       DEF F!Load, F!Confirm, F!Poll, F!Record, F!Truncate, F!TruncateFile, F!Write,
       F!WriteFile,
              F!Crash, F!Die
  <2> QED  BY <2>1, SamePayment, SameEscrow DEF Promise!Swap!vars
<1>2. CASE F!Lock(r)
  <2>1. htlc[r] # "claimed"
    BY <1>2 DEF F!Lock, F!RunInv, F!SwapInv
  <2>2. UNCHANGED F!Escrowed
    BY <1>2, <2>1 DEF F!Lock, F!Escrowed, F!TypeOK
  <2>3. UNCHANGED F!Payment
    BY <1>2, SamePayment DEF F!Lock
  <2> QED  BY <2>2, <2>3 DEF Promise!Swap!vars
<1>3. CASE F!AddHoldInvoice(r)
  <2>1. UNCHANGED F!Escrowed
    BY <1>3, SameEscrow DEF F!AddHoldInvoice
  <2>2. CASE UNCHANGED invoice
    BY <1>3, <2>1, <2>2, SamePayment DEF F!AddHoldInvoice, Promise!Swap!vars
  <2>3. CASE invoice' = [invoice EXCEPT ![r] = "OPEN"]
    <3>1. F!PaymentOf(r) = "none" /\ F!PaymentOf(r)' = "offered"
      BY <1>3, <2>3 DEF F!AddHoldInvoice, F!RunInv, F!TypeOK, F!PaymentOf, F!PaymentIn
    <3>2. \A s \in FundRuns \ {r} : F!PaymentOf(s)' = F!PaymentOf(s)
      BY <1>3, <2>3, InvoiceStep DEF F!AddHoldInvoice
    <3>3. Promise!Swap!Offer(r)
      BY <2>1, <3>1, <3>2, PaymentStep DEF Promise!Swap!Offer, Promise!Swap!Becomes
    <3> QED  BY <3>3 DEF Promise!Swap!Next
  <2> QED  BY <1>3, <2>2, <2>3 DEF F!AddHoldInvoice
<1>4. CASE F!ClaimHTLC(r)
  <2>1. UNCHANGED F!Payment
    BY <1>4, SamePayment DEF F!ClaimHTLC
  <2>2. CASE UNCHANGED htlc
    BY <2>1, <2>2, SameEscrow DEF Promise!Swap!vars
  <2>3. CASE htlc' = [htlc EXCEPT ![r] = "claimed"]
    <3>1. F!PaymentOf(r) \in {"held", "returned"}
      BY <1>4 DEF F!ClaimHTLC, F!RunInv, F!PaymentOf, F!PaymentIn
    <3>2. F!Escrowed' = F!Escrowed \cup {r}
      BY <2>3 DEF F!Escrowed, F!TypeOK
    <3>3. Promise!Swap!Escrow(r)
      BY <2>1, <3>1, <3>2 DEF Promise!Swap!Escrow, F!Payment
    <3> QED  BY <3>3 DEF Promise!Swap!Next
  <2> QED  BY <1>4, <2>2, <2>3 DEF F!ClaimHTLC
<1>5. CASE F!Settle(r)
  <2>1. UNCHANGED F!Escrowed /\ r \in F!Escrowed
    BY <1>5, SameEscrow DEF F!Settle, F!RunInv, F!Escrowed
  <2>2. CASE UNCHANGED invoice
    BY <1>5, <2>1, <2>2, SamePayment DEF F!Settle, Promise!Swap!vars
  <2>3. CASE invoice[r] = "ACCEPTED" /\ invoice' = [invoice EXCEPT ![r] = "SETTLED"]
    <3>1. F!PaymentOf(r) = "held" /\ F!PaymentOf(r)' = "taken"
      BY <1>5, <2>3 DEF F!Settle, F!TypeOK, F!PaymentOf, F!PaymentIn
    <3>2. \A s \in FundRuns \ {r} : F!PaymentOf(s)' = F!PaymentOf(s)
      BY <1>5, <2>3, InvoiceStep DEF F!Settle
    <3>3. Promise!Swap!Take(r)
      BY <2>1, <3>1, <3>2, PaymentStep DEF Promise!Swap!Take, Promise!Swap!Becomes
    <3> QED  BY <3>3 DEF Promise!Swap!Next
  <2> QED  BY <1>5, <2>2, <2>3 DEF F!Settle
<1>6. CASE F!Pay(r)
  <2>1. UNCHANGED F!Escrowed
    BY <1>6, SameEscrow DEF F!Pay
  <2>2. F!PaymentOf(r) = "offered" /\ F!PaymentOf(r)' = "held"
    BY <1>6 DEF F!Pay, F!TypeOK, F!PaymentOf, F!PaymentIn
  <2>3. \A s \in FundRuns \ {r} : F!PaymentOf(s)' = F!PaymentOf(s)
    BY <1>6, InvoiceStep DEF F!Pay
  <2>4. Promise!Swap!Hold(r)
    BY <2>1, <2>2, <2>3, PaymentStep DEF Promise!Swap!Hold, Promise!Swap!Becomes
  <2> QED  BY <2>4 DEF Promise!Swap!Next
<1>7. CASE F!Expire(r)
  <2>1. UNCHANGED F!Escrowed
    BY <1>7, SameEscrow DEF F!Expire
  <2>2. F!PaymentOf(r) = "offered" /\ F!PaymentOf(r)' = "withdrawn"
    BY <1>7 DEF F!Expire, F!TypeOK, F!SwapInv, F!PaymentOf, F!PaymentIn
  <2>3. \A s \in FundRuns \ {r} : F!PaymentOf(s)' = F!PaymentOf(s)
    BY <1>7, InvoiceStep DEF F!Expire
  <2>4. Promise!Swap!Withdraw(r)
    BY <2>1, <2>2, <2>3, PaymentStep DEF Promise!Swap!Withdraw, Promise!Swap!Becomes
  <2> QED  BY <2>4 DEF Promise!Swap!Next
<1>8. CASE F!CancelHeld(r)
  <2>1. UNCHANGED F!Escrowed
    BY <1>8, SameEscrow DEF F!CancelHeld
  <2>2. F!PaymentOf(r) = "held" /\ F!PaymentOf(r)' = "returned"
    BY <1>8 DEF F!CancelHeld, F!TypeOK, F!SwapInv, F!PaymentOf, F!PaymentIn
  <2>3. \A s \in FundRuns \ {r} : F!PaymentOf(s)' = F!PaymentOf(s)
    BY <1>8, InvoiceStep DEF F!CancelHeld
  <2>4. Promise!Swap!Return(r)
    BY <2>1, <2>2, <2>3, PaymentStep DEF Promise!Swap!Return, Promise!Swap!Becomes
  <2> QED  BY <2>4 DEF Promise!Swap!Next
<1> QED  BY <1>0, <1>1, <1>2, <1>3, <1>4, <1>5, <1>6, <1>7, <1>8 DEF F!Step, F!Environment
-----------------------------------------------------------------------------
(***************************************************************************)
(* The end of a deal.  Three actions move money: ClaimEscrow, SendPayment  *)
(* and Deliver.  Load names the command of a run that has spent nothing.   *)
(***************************************************************************)
\* What a deal names as its escrow output is one.
LEMMA FundIsOutput ==
    ASSUME NEW d \in C!EscrowDeals \cup {Torn}, d # Torn, d.fund # NoTx
    PROVE  d.fund \in FundRuns
BY DEF C!EscrowDeals

\* A step that leaves the spends and the payments alone is a stutter of the end.
LEMMA Stutter ==
    ASSUME UNCHANGED <<spent, payout>>,
           \A o \in FundRuns : spent[o] # NoTx => kind'[spent[o]] = kind[spent[o]]
    PROVE  UNCHANGED Promise!End!vars
<1>1. \A o \in FundRuns : C!HolderOf(o)' = C!HolderOf(o)
  BY DEF C!HolderOf
<1>2. \A o \in FundRuns : C!HolderOf(o) = "service" => spent[o] # NoTx
  BY DEF C!HolderOf
<1>3. UNCHANGED C!Holder
  BY <1>1 DEF C!Holder
<1>4. UNCHANGED C!Due
  BY <1>1, <1>2 DEF C!Due
<1>5. UNCHANGED C!Payment
  BY DEF C!Payment
<1> QED  BY <1>3, <1>4, <1>5 DEF Promise!End!vars

\* A step that changes only the payment of a run that has spent an output for
\* the service changes the payment for that output alone.
LEMMA ServicePays ==
    ASSUME C!TypeOK, EndInv, NEW r \in ClaimRuns, C!HasSpent(r), kind[r] \in C!Closing,
           NEW x, payout' = [payout EXCEPT ![r] = x],
           UNCHANGED <<kind, spent>>
    PROVE  LET o == ccopy[r].fund
           IN  /\ o \in FundRuns /\ C!Holder[o] = "service" /\ UNCHANGED <<C!Holder, C!Due>>
               /\ C!Payment[o] = payout[r] /\ C!Payment' = [C!Payment EXCEPT ![o] = x]
<1> DEFINE o == ccopy[r].fund
<1>1. o \in FundRuns /\ spent[o] = r /\ r # NoTx
  BY FundIsOutput, NoTxIsNoRun DEF C!TypeOK, C!HasSpent
<1>2. \A q \in FundRuns : C!HolderOf(q)' = C!HolderOf(q)
  BY DEF C!HolderOf
<1>3. UNCHANGED <<C!Holder, C!Due>>
  BY <1>2 DEF C!Holder, C!Due
<1>4. C!Holder[o] = "service" /\ C!Payment[o] = payout[r]
  BY <1>1 DEF C!Holder, C!HolderOf, C!Payment
<1>5. \A q \in FundRuns \ {o} : spent[q] # r
  BY <1>1 DEF EndInv, C!SpentInv
<1>6. \A q \in FundRuns : spent[q] \in ClaimRuns \cup {NoTx}
  BY DEF C!TypeOK
<1>7. C!Payment' = [C!Payment EXCEPT ![o] = x]
  BY <1>1, <1>5, <1>6 DEF C!TypeOK, C!Payment
<1> QED  BY <1>1, <1>3, <1>4, <1>7

\* The spend of an output moves it to the service, for the party that the
\* command serves, or to the party itself.
LEMMA ClaimImplements ==
    ASSUME NEW r \in ClaimRuns, NEW c \in FundRuns, spent[c] = NoTx,
           payout[r] = "none", kind[r] \in C!Kinds, UNCHANGED <<kind, payout>>,
           spent'[c] = r, \A o \in FundRuns \ {c} : spent'[o] = spent[o]
    PROVE  /\ Promise!End!Next
           /\ \A o \in FundRuns \ {c} : C!Holder'[o] = C!Holder[o]
<1> USE NoTxIsNoRun
<1>1. \A o \in FundRuns \ {c} : C!HolderOf(o)' = C!HolderOf(o)
  BY DEF C!HolderOf
<1>2. C!Holder[c] = "escrow" /\ C!HolderOf(c) = "escrow"
  BY DEF C!Holder, C!HolderOf
<1>3. UNCHANGED C!Payment
  BY DEF C!Payment
<1>4. C!PartyOf(kind[r]) \in Promise!End!Parties
  BY DEF C!PartyOf, Promise!End!Parties
<1>5. CASE kind[r] \in C!Closing
  <2>1. C!HolderOf(c)' = "service"
    BY <1>5 DEF C!HolderOf
  <2>2. C!Holder' = [C!Holder EXCEPT ![c] = "service"]
    BY <1>1, <2>1 DEF C!Holder
  <2>3. C!Due' = [C!Due EXCEPT ![c] = C!PartyOf(kind[r])]
    BY <1>1, <2>1 DEF C!Due
  <2>4. Promise!End!ClaimFor(c, C!PartyOf(kind[r]))
    BY <1>2, <1>3, <2>2, <2>3 DEF Promise!End!ClaimFor
  <2> QED  BY <1>1, <1>4, <2>4 DEF Promise!End!Next, C!Holder
<1>6. CASE kind[r] \notin C!Closing
  <2>1. C!HolderOf(c)' = C!PartyOf(kind[r]) /\ C!PartyOf(kind[r]) # "service"
    BY <1>6 DEF C!HolderOf, C!PartyOf
  <2>2. C!Holder' = [C!Holder EXCEPT ![c] = C!PartyOf(kind[r])]
    BY <1>1, <2>1 DEF C!Holder
  <2>3. UNCHANGED C!Due
    BY <1>1, <1>2, <2>1 DEF C!Due
  <2>4. Promise!End!Recover(c, C!PartyOf(kind[r]))
    BY <1>2, <1>3, <2>2, <2>3 DEF Promise!End!Recover
  <2> QED  BY <1>1, <1>4, <2>4 DEF Promise!End!Next, C!Holder
<1> QED  BY <1>5, <1>6

\* Every step of the commands that end a deal is a step of EscrowOutcome or a
\* stutter, and moves only the money of an output that was paid for.
LEMMA EndImplements ==
    ASSUME RecordInv, EndInv, C!Next
    PROVE  \/ Promise!End!Next /\ Promise!OnlyPaidForMoves
           \/ UNCHANGED Promise!End!vars
<1> USE NoTxIsNoRun
<1>0. /\ C!TypeOK /\ C!PayoutInv
      /\ (\A r \in ClaimRuns : C!RunInv(r)) /\ \A o \in FundRuns : C!SpentInv(o)
  BY EndTypes DEF EndInv
<1>1. CASE C!ExportKit \/ \E o \in FundRuns : C!Mature(o)
  BY <1>1, Stutter DEF C!ExportKit, C!Mature
<1>2. ASSUME NEW r \in ClaimRuns, NEW k \in C!Kinds, C!Load(r, k)
      PROVE  UNCHANGED Promise!End!vars
  <2>1. UNCHANGED <<spent, payout>> /\ \A o \in FundRuns : spent[o] # r
    BY <1>0, <1>2 DEF C!Load, C!RunInv
  <2>2. \A o \in FundRuns : spent[o] # NoTx => kind'[spent[o]] = kind[spent[o]]
    BY <1>0, <1>2, <2>1 DEF C!Load, C!TypeOK
  <2> QED  BY <2>1, <2>2, Stutter
<1>3. ASSUME NEW r \in ClaimRuns,
             C!Lookup(r) \/ C!AwaitPayment(r) \/ C!Truncate(r) \/ C!Write(r) \/ C!Crash(r)
      PROVE  UNCHANGED Promise!End!vars
  BY <1>3, Stutter DEF C!Lookup, C!AwaitPayment, C!Truncate, C!Write, C!Crash
<1>4. ASSUME NEW r \in ClaimRuns, C!ClaimEscrow(r), ~UNCHANGED spent
      PROVE  Promise!End!Next /\ Promise!OnlyPaidForMoves
  <2>1. /\ cpc[r] = "claim" /\ kind[r] \in C!Closing \cup C!Recovery
        /\ ccopy[r] \in C!EscrowDeals \cup {Torn} /\ ccopy[r] # Torn
        /\ C!Spendable(r) /\ spent' = [spent EXCEPT ![ccopy[r].fund] = r]
        /\ UNCHANGED <<kind, payout>>
    BY <1>0, <1>4 DEF C!ClaimEscrow, C!TypeOK, C!RunInv, C!Final
  <2>2. PICK c \in FundRuns : c = ccopy[r].fund
    BY <2>1, FundIsOutput DEF C!Spendable
  <2>3. spent[c] = NoTx /\ \A o \in FundRuns : spent[o] # r
    BY <1>0, <2>1, <2>2 DEF C!Spendable, C!RunInv
  <2>4. payout[r] = "none"
    BY <1>0, <2>3, FundIsOutput DEF C!PayoutInv, C!HasSpent, C!TypeOK
  <2>5. spent'[c] = r /\ \A o \in FundRuns \ {c} : spent'[o] = spent[o]
    BY <1>0, <2>1, <2>2 DEF C!TypeOK
  <2>6. kind[r] \in C!Kinds
    BY <2>1 DEF C!Kinds
  <2>7. invoice[c] = "SETTLED"
    <3>1. Backed(ccopy[r])
      BY <2>1 DEF RecordInv, Records
    <3> QED  BY <2>1, <2>2, <3>1 DEF Backed, BackedBy, C!Spendable
  <2>8. F!Payment[c] = "taken"
    BY <2>7 DEF F!Payment, F!PaymentOf, F!PaymentIn
  <2>9. Promise!End!Next /\ \A o \in FundRuns \ {c} : C!Holder'[o] = C!Holder[o]
    BY <2>1, <2>3, <2>4, <2>5, <2>6, ClaimImplements
  <2> QED  BY <2>8, <2>9 DEF Promise!OnlyPaidForMoves
<1>5. ASSUME NEW r \in ClaimRuns, NEW x, C!HasSpent(r), kind[r] \in C!Closing,
             payout' = [payout EXCEPT ![r] = x], UNCHANGED <<kind, spent>>,
             \/ payout[r] = "none" /\ x = "inflight"
             \/ payout[r] = "inflight" /\ x \in {"paid", "failed"}
      PROVE  Promise!End!Next /\ Promise!OnlyPaidForMoves
  <2>1. PICK o \in FundRuns : /\ C!Holder[o] = "service" /\ UNCHANGED <<C!Holder, C!Due>>
                              /\ C!Payment[o] = payout[r]
                              /\ C!Payment' = [C!Payment EXCEPT ![o] = x]
    BY <1>0, <1>5, ServicePays
  <2>2. Promise!End!Send(o) \/ Promise!End!Resolve(o)
    BY <1>5, <2>1 DEF Promise!End!Send, Promise!End!Resolve
  <2> QED  BY <2>1, <2>2 DEF Promise!End!Next, Promise!OnlyPaidForMoves
<1>6. ASSUME NEW r \in ClaimRuns, C!SendPayment(r), ~UNCHANGED payout
      PROVE  Promise!End!Next /\ Promise!OnlyPaidForMoves
  <2>1. /\ C!HasSpent(r) /\ kind[r] \in C!Closing /\ payout[r] = "none"
        /\ payout' = [payout EXCEPT ![r] = "inflight"] /\ UNCHANGED <<kind, spent>>
    BY <1>0, <1>6 DEF C!SendPayment, C!RunInv
  <2> QED  BY <1>5, <2>1
<1>7. ASSUME NEW r \in ClaimRuns, C!Deliver(r)
      PROVE  Promise!End!Next /\ Promise!OnlyPaidForMoves
  <2>1. C!HasSpent(r) /\ kind[r] \in C!Closing /\ payout[r] = "inflight"
        /\ UNCHANGED <<kind, spent>>
    BY <1>0, <1>7 DEF C!Deliver, C!PayoutInv
  <2>2. PICK res \in {"paid", "failed"} : payout' = [payout EXCEPT ![r] = res]
    BY <1>7 DEF C!Deliver
  <2> QED  BY <1>5, <2>1, <2>2
<1>8. ASSUME NEW r \in ClaimRuns,
             \/ C!ClaimEscrow(r) /\ UNCHANGED spent
             \/ C!SendPayment(r) /\ UNCHANGED payout
      PROVE  UNCHANGED Promise!End!vars
  BY <1>8, Stutter DEF C!ClaimEscrow, C!SendPayment
<1> QED
  BY <1>1, <1>2, <1>3, <1>4, <1>6, <1>7, <1>8 DEF C!Next, C!Work
-----------------------------------------------------------------------------
(* Together. *)

\* A step that concerns neither the swap nor the end is not seen.
LEMMA SwapStutter ==
    ASSUME UNCHANGED fundVars
    PROVE  UNCHANGED <<F!Payment, F!Escrowed>>
BY SamePayment, SameEscrow DEF fundVars

\* So with the end.
LEMMA EndStutter ==
    ASSUME UNCHANGED claimVars
    PROVE  UNCHANGED <<C!Holder, C!Due, C!Payment>>
BY Stutter DEF claimVars, Promise!End!vars

\* Every step of any command is a step of the service or a stutter.
LEMMA StepImplements ==
    ASSUME RecordInv, FundInv, EndInv, [Next]_vars
    PROVE  [Promise!Next]_(Promise!vars)
<1>1. CASE UNCHANGED vars \/ JoinStep
  <2>1. UNCHANGED fundVars /\ UNCHANGED claimVars
    BY <1>1 DEF vars, JoinStep
  <2> QED  BY <2>1, SwapStutter, EndStutter DEF Promise!vars
<1>2. CASE FundStep
  <2>1. [Promise!Swap!Next]_(Promise!Swap!vars)
    BY <1>2, FundImplements DEF FundStep, RecordInv
  <2>2. UNCHANGED <<C!Holder, C!Due, C!Payment>>
    BY <1>2, EndStutter DEF FundStep
  <2> QED  BY <2>1, <2>2 DEF Promise!Next, Promise!vars, Promise!Swap!vars
<1>3. CASE EndStep
  <2>1. \/ Promise!End!Next /\ Promise!OnlyPaidForMoves
        \/ UNCHANGED Promise!End!vars
    BY <1>3, EndImplements DEF EndStep
  <2>2. UNCHANGED <<F!Payment, F!Escrowed>>
    BY <1>3, SwapStutter DEF EndStep
  <2> QED  BY <2>1, <2>2 DEF Promise!Next, Promise!vars, Promise!End!vars
<1> QED  BY <1>1, <1>2, <1>3 DEF Next

\* Before any command has run there is no payment and no output.
LEMMA InitImplements == Init => Promise!Init
BY DEF Init, Promise!Init, Promise!Swap!Init, Promise!End!Init, F!Payment, F!PaymentOf,
       F!PaymentIn, F!Escrowed, C!Holder, C!HolderOf, C!Due, C!Payment

\* However joins, funds and the commands that end a deal overlap, fail and
\* crash, seen from the payments and the outputs the system is the service:
\* each output is created for a payment that was held, is paid for once, leaves
\* the escrow once and only when it was paid for, for one party, who is paid
\* once.
THEOREM SystemIsTheService == Spec => ImplementsEscrowService
<1> DEFINE Knows == FundInv /\ EndInv
<1>1. Init => Knows
  BY InitKnows
<1>2. RecordInv /\ Knows /\ [Next]_vars => Knows'
  BY NextKnows
<1>3. RecordInv /\ Knows /\ [Next]_vars => [Promise!Next]_(Promise!vars)
  BY StepImplements
<1> HIDE DEF Knows
<1> QED
  BY <1>1, <1>2, <1>3, InitImplements, Invariant, PTL
     DEF Spec, ImplementsEscrowService, Promise!Spec
=============================================================================
