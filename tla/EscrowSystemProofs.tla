------------------------- MODULE EscrowSystemProofs -------------------------
(***************************************************************************)
(* For any number of joins, funds and commands that end a deal, all        *)
(* overlapping, any of them faulty: whichever file overwrites which, a     *)
(* deal record that names an escrow output has the keys and the amount the *)
(* output was made with.                                                   *)
(***************************************************************************)
EXTENDS EscrowSystem, TLAPS

\* A step of another command or of another run leaves an output that a record
\* may name as it is.
Keeps(f) ==
    fpc[f] # "idle" /\ htlc[f] = "claimed" /\ invoice[f] = "SETTLED" /\ fcopy[f] # Torn
      => /\ fpc'[f] # "idle" /\ htlc'[f] = "claimed" /\ invoice'[f] = "SETTLED"
         /\ fcopy'[f] # Torn
         /\ fcopy'[f].buyer = fcopy[f].buyer /\ fcopy'[f].amount = fcopy[f].amount

\* The run has just recorded its own output.
Recorded(f) ==
    /\ fcopy[f] \in Deals /\ fcopy'[f] = Fund(fcopy[f], f) /\ fcopy'[f] # Torn
    /\ htlc'[f] = "claimed" /\ invoice'[f] = "SETTLED" /\ fpc'[f] # "idle"

\* So a record stays backed as long as its output is kept.
LEMMA BackedStays ==
    ASSUME NEW d, Backed(d), \A f \in FundRuns : Keeps(f)
    PROVE  Backed(d)'
BY DEF Backed, BackedBy, Keeps

\* A deal as a run of fund records it is a deal, and backed by the run.
LEMMA RecordedIsBacked ==
    ASSUME NEW f \in FundRuns, Recorded(f)
    PROVE  /\ fcopy'[f] \in Deals
           /\ \A d : d = fcopy'[f] => Backed(d)'
<1>1. /\ fcopy'[f] \in Deals
      /\ fcopy'[f].state = "FUNDED" /\ fcopy'[f].fund = f
  BY EscrowSystemAssumption DEF Recorded, Fund, Deals, DealStates
<1>2. ASSUME NEW d, d = fcopy'[f] PROVE Backed(d)'
  BY <1>1, <1>2, EscrowSystemAssumption, DealAssumption DEF Recorded, Backed, BackedBy
<1> QED BY <1>1, <1>2

\* No step of fund takes from an output what a record may say of it, and the
\* one new record that such a step makes is that of the run's own output.
LEMMA FundKeeps ==
    ASSUME RecordInv, F!Next
    PROVE  /\ F!TypeOK'
           /\ \A f \in FundRuns : KnowsOutput(f)' /\ Keeps(f)
           /\ file' \in Records \cup {Torn}
           /\ \A f \in FundRuns : fcopy'[f] \in Records \cup {Torn} \/ Recorded(f)
<1> DEFINE Goal == /\ F!TypeOK'
                   /\ \A f \in FundRuns : KnowsOutput(f)' /\ Keeps(f)
                   /\ file' \in Records \cup {Torn}
                   /\ \A f \in FundRuns :
                         fcopy'[f] \in Records \cup {Torn} \/ Recorded(f)
<1> SUFFICES Goal
  OBVIOUS
<1>1. PICK r \in FundRuns : F!Step(r) \/ F!Crash(r) \/ F!Environment(r)
  BY DEF F!Next
<1>2. ASSUME UNCHANGED fcopy
      PROVE  \A f \in FundRuns : fcopy'[f] \in Records
  BY <1>2 DEF Records
<1> USE EscrowSystemAssumption
<1>3. CASE F!Load(r)
  <2>1. F!TypeOK'
    BY <1>3 DEF RecordInv, F!Load, F!TypeOK, F!PCs, F!Live, F!Final, F!Goto
  <2>2. \A f \in FundRuns : KnowsOutput(f)' /\ Keeps(f)
    BY <1>3 DEF RecordInv, F!Load, F!Fundable, F!TypeOK, KnowsOutput, Keeps, F!Live,
                F!Goto
  <2>3. file' \in Records /\ \A f \in FundRuns : fcopy'[f] \in Records \cup {Torn}
    BY <1>3 DEF RecordInv, F!Load, F!TypeOK, Records
  <2> QED BY <2>1, <2>2, <2>3
<1>4. CASE F!Record(r)
  <2>1. fcopy[r] \in Deals /\ F!Fund(fcopy[r], r) \in Deals
    <3>1. fcopy[r] \in F!Deals /\ r \in Txs
      BY <1>4 DEF RecordInv, F!Record, F!TypeOK, KnowsOutput, F!Live
    <3>2. fcopy[r] \in Deals
      BY <3>1 DEF F!Deals, F!DealStates, Deals, DealStates
    <3> QED BY <3>1, <3>2 DEF F!Fund, Deals, DealStates
  <2>2. /\ UNCHANGED <<file, htlc, invoice, shown, paid>>
        /\ \/ fcopy' = [fcopy EXCEPT ![r] = F!Fund(fcopy[r], r)] /\ F!Goto(r, "save")
           \/ UNCHANGED fcopy /\ F!Goto(r, "failed")
    BY <1>4 DEF F!Record, F!Refused
  <2>3. F!TypeOK /\ fpc[r] = "record" /\ htlc[r] = "claimed" /\ invoice[r] = "SETTLED"
    BY <1>4 DEF RecordInv, F!Record, KnowsOutput
  <2>4. F!TypeOK'
    BY <2>1, <2>2, <2>3 DEF F!TypeOK, F!PCs, F!Live, F!Final, F!Goto, F!Deals,
                            Deals, F!DealStates, DealStates
  <2>5. F!Fund(fcopy[r], r) = Fund(fcopy[r], r) /\ Fund(fcopy[r], r) # Torn
        /\ Fund(fcopy[r], r).buyer = fcopy[r].buyer
        /\ Fund(fcopy[r], r).amount = fcopy[r].amount
    BY <2>1 DEF F!Fund, Fund, Deals
  <2>6. \A f \in FundRuns : KnowsOutput(f)'
    BY <2>2, <2>3, <2>5 DEF RecordInv, KnowsOutput, F!TypeOK, F!Live, F!Goto
  <2>7. \A f \in FundRuns : Keeps(f)
    BY <2>2, <2>3, <2>5 DEF Keeps, F!TypeOK, F!Goto
  <2>8. file' \in Records
    BY <2>2 DEF Records
  <2>9. \A f \in FundRuns : fcopy'[f] \in Records \cup {Torn} \/ Recorded(f)
    <3>1. CASE UNCHANGED fcopy
      BY <3>1, <1>2
    <3>2. CASE fcopy' = [fcopy EXCEPT ![r] = F!Fund(fcopy[r], r)] /\ F!Goto(r, "save")
      BY <3>2, <2>1, <2>2, <2>3, <2>5 DEF Recorded, F!TypeOK, F!Goto, Records
    <3> QED BY <3>1, <3>2, <2>2
  <2> QED BY <2>4, <2>6, <2>7, <2>8, <2>9
<1>5. CASE F!Lock(r)
  <2>1. F!TypeOK'
    BY <1>5 DEF RecordInv, F!Lock, F!TypeOK, F!PCs, F!Live, F!Final, F!Goto,
                F!Answered, F!Refused, F!HTLCs
  <2>2. \A f \in FundRuns : KnowsOutput(f)' /\ Keeps(f)
    BY <1>5 DEF RecordInv, F!Lock, F!TypeOK, KnowsOutput, Keeps, F!Live, F!Goto,
                F!Answered, F!Refused
  <2>3. file' \in Records \cup {Torn} /\ UNCHANGED fcopy
    BY <1>5 DEF Records, F!Lock
  <2> QED BY <2>1, <2>2, <2>3, <1>2
<1>6. CASE F!Confirm(r)
  <2>1. F!TypeOK'
    BY <1>6 DEF RecordInv, F!Confirm, F!TypeOK, F!PCs, F!Live, F!Final, F!Goto,
                F!Answered
  <2>2. \A f \in FundRuns : KnowsOutput(f)' /\ Keeps(f)
    BY <1>6 DEF RecordInv, F!Confirm, F!TypeOK, KnowsOutput, Keeps, F!Live, F!Goto,
                F!Answered
  <2>3. file' \in Records \cup {Torn} /\ UNCHANGED fcopy
    BY <1>6 DEF Records, F!Confirm
  <2> QED BY <2>1, <2>2, <2>3, <1>2
<1>7. CASE F!AddHoldInvoice(r)
  <2>1. F!TypeOK'
    BY <1>7 DEF RecordInv, F!AddHoldInvoice, F!TypeOK, F!PCs, F!Live, F!Final,
                F!Goto, F!Refused, F!Invoices
  <2>2. \A f \in FundRuns : KnowsOutput(f)' /\ Keeps(f)
    BY <1>7 DEF RecordInv, F!AddHoldInvoice, F!TypeOK, KnowsOutput, Keeps, F!Live,
                F!Goto, F!Refused
  <2>3. file' \in Records \cup {Torn} /\ UNCHANGED fcopy
    BY <1>7 DEF Records, F!AddHoldInvoice
  <2> QED BY <2>1, <2>2, <2>3, <1>2
<1>8. CASE F!Poll(r)
  <2>1. F!TypeOK'
    BY <1>8 DEF RecordInv, F!Poll, F!TypeOK, F!PCs, F!Live, F!Final, F!Goto, F!Refused
  <2>2. \A f \in FundRuns : KnowsOutput(f)' /\ Keeps(f)
    BY <1>8 DEF RecordInv, F!Poll, F!TypeOK, KnowsOutput, Keeps, F!Live, F!Goto,
                F!Refused
  <2>3. file' \in Records \cup {Torn} /\ UNCHANGED fcopy
    BY <1>8 DEF Records, F!Poll
  <2> QED BY <2>1, <2>2, <2>3, <1>2
<1>9. CASE F!ClaimHTLC(r)
  <2>1. F!TypeOK'
    BY <1>9 DEF RecordInv, F!ClaimHTLC, F!TypeOK, F!PCs, F!Live, F!Final, F!Goto,
                F!Answered, F!Refused, F!HTLCs
  <2>2. \A f \in FundRuns : KnowsOutput(f)' /\ Keeps(f)
    BY <1>9 DEF RecordInv, F!ClaimHTLC, F!TypeOK, KnowsOutput, Keeps, F!Live,
                F!Goto, F!Answered, F!Refused
  <2>3. file' \in Records \cup {Torn} /\ UNCHANGED fcopy
    BY <1>9 DEF Records, F!ClaimHTLC
  <2> QED BY <2>1, <2>2, <2>3, <1>2
<1>10. CASE F!Settle(r)
  <2>1. F!TypeOK'
    BY <1>10 DEF RecordInv, F!Settle, F!TypeOK, F!PCs, F!Live, F!Final, F!Goto,
                 F!Answered, F!Refused, F!Invoices
  <2>2. \A f \in FundRuns : KnowsOutput(f)' /\ Keeps(f)
    BY <1>10 DEF RecordInv, F!Settle, F!TypeOK, KnowsOutput, Keeps, F!Live, F!Goto,
                 F!Answered, F!Refused
  <2>3. file' \in Records \cup {Torn} /\ UNCHANGED fcopy
    BY <1>10 DEF Records, F!Settle
  <2> QED BY <2>1, <2>2, <2>3, <1>2
<1>11. CASE F!Truncate(r)
  <2>1. F!TypeOK'
    BY <1>11 DEF RecordInv, F!Truncate, F!TypeOK, F!PCs, F!Live, F!Final, F!Goto,
                 F!TruncateFile, F!Answered, F!Refused
  <2>2. \A f \in FundRuns : KnowsOutput(f)' /\ Keeps(f)
    BY <1>11 DEF RecordInv, F!Truncate, F!TypeOK, KnowsOutput, Keeps, F!Live,
                 F!Goto, F!TruncateFile, F!Answered, F!Refused
  <2>3. file' \in Records \cup {Torn} /\ UNCHANGED fcopy
    BY <1>11 DEF Records, F!Truncate, F!TruncateFile, F!Answered, F!Refused
  <2> QED BY <2>1, <2>2, <2>3, <1>2
<1>12. CASE F!Write(r)
  <2>1. F!TypeOK'
    BY <1>12 DEF RecordInv, F!Write, F!TypeOK, F!PCs, F!Live, F!Final, F!Goto,
                 F!WriteFile, F!Refused
  <2>2. \A f \in FundRuns : KnowsOutput(f)' /\ Keeps(f)
    BY <1>12 DEF RecordInv, F!Write, F!TypeOK, KnowsOutput, Keeps, F!Live, F!Goto,
                 F!WriteFile, F!Refused
  <2>3. file' \in Records \cup {Torn} /\ UNCHANGED fcopy
    BY <1>12 DEF Records, F!Write, F!WriteFile, F!Refused
  <2> QED BY <2>1, <2>2, <2>3, <1>2
<1>13. CASE F!Crash(r)
  <2>1. F!TypeOK'
    BY <1>13 DEF RecordInv, F!Crash, F!TypeOK, F!PCs, F!Live, F!Final, F!Goto, F!Die
  <2>2. \A f \in FundRuns : KnowsOutput(f)' /\ Keeps(f)
    BY <1>13 DEF RecordInv, F!Crash, F!TypeOK, KnowsOutput, Keeps, F!Live, F!Final,
                 F!Goto, F!Die
  <2>3. file' \in Records \cup {Torn} /\ UNCHANGED fcopy
    BY <1>13 DEF Records, F!Crash, F!Die
  <2> QED BY <2>1, <2>2, <2>3, <1>2
<1>14. CASE F!Pay(r)
  <2>1. F!TypeOK'
    BY <1>14 DEF RecordInv, F!Pay, F!TypeOK, F!Invoices
  <2>2. \A f \in FundRuns : KnowsOutput(f)' /\ Keeps(f)
    BY <1>14 DEF RecordInv, F!Pay, F!TypeOK, KnowsOutput, Keeps, F!Live
  <2>3. file' \in Records \cup {Torn} /\ UNCHANGED fcopy
    BY <1>14 DEF Records, F!Pay
  <2> QED BY <2>1, <2>2, <2>3, <1>2
<1>15. CASE F!Expire(r)
  <2>1. F!TypeOK'
    BY <1>15 DEF RecordInv, F!Expire, F!TypeOK, F!Invoices
  <2>2. \A f \in FundRuns : KnowsOutput(f)' /\ Keeps(f)
    BY <1>15 DEF RecordInv, F!Expire, F!TypeOK, KnowsOutput, Keeps, F!Live
  <2>3. file' \in Records \cup {Torn} /\ UNCHANGED fcopy
    BY <1>15 DEF Records, F!Expire
  <2> QED BY <2>1, <2>2, <2>3, <1>2
<1>16. CASE F!CancelHeld(r)
  <2>1. F!TypeOK'
    BY <1>16 DEF RecordInv, F!CancelHeld, F!TypeOK, F!Invoices
  <2>2. \A f \in FundRuns : KnowsOutput(f)' /\ Keeps(f)
    BY <1>16 DEF RecordInv, F!CancelHeld, F!TypeOK, KnowsOutput, Keeps, F!Live
  <2>3. file' \in Records \cup {Torn} /\ UNCHANGED fcopy
    BY <1>16 DEF Records, F!CancelHeld
  <2> QED BY <2>1, <2>2, <2>3, <1>2
<1> QED
  BY <1>1, <1>3, <1>4, <1>5, <1>6, <1>7, <1>8, <1>9, <1>10, <1>11, <1>12, <1>13,
     <1>14, <1>15, <1>16 DEF F!Step, F!Environment
-----------------------------------------------------------------------------
(* The deals of each component are the deals of them all. *)

\* The commands have one deal record in common.
LEMMA SameDeals == J!Deals = Deals /\ F!Deals = Deals /\ C!Deals = Deals
BY DEF J!Deals, J!DealStates, F!Deals, F!DealStates, C!Deals, C!DealStates,
       Deals, DealStates

\* A record that names no output.
Fresh(d) == d \in Deals /\ d.state \in {"CREATED", "JOINED"} /\ d.fund = NoTx

\* A deal that create makes, or join rebuilds from the token, names no output,
\* and only a deal that names none can be joined.
LEMMA JoinKeeps ==
    ASSUME RecordInv, J!Next
    PROVE  /\ J!TypeOK'
           /\ \A r \in JoinRuns : KnowsNoOutput(r)'
           /\ file' \in Records \cup {Torn}
           /\ \A r \in JoinRuns : jcopy'[r] \in Records \cup {Torn} \/ Fresh(jcopy'[r])
<1> DEFINE Loads == \A r \in JoinRuns : KnowsNoOutput(r)'
           Goal == /\ J!TypeOK' /\ Loads
                   /\ file' \in Records \cup {Torn}
                   /\ \A r \in JoinRuns :
                         jcopy'[r] \in Records \cup {Torn} \/ Fresh(jcopy'[r])
<1> SUFFICES Goal
  OBVIOUS
<1> USE EscrowSystemAssumption
<1>1. ASSUME UNCHANGED jcopy
      PROVE  \A r \in JoinRuns : jcopy'[r] \in Records
  BY <1>1 DEF Records
<1>2. ASSUME NEW a \in Amounts
      PROVE  Fresh(J!NewDeal(a)) /\ Fresh(J!FromToken(a))
  BY DEF J!NewDeal, J!FromToken, Fresh, Deals, DealStates
<1>3. CASE J!Create
  <2>1. PICK a \in Amounts : jcopy' = [jcopy EXCEPT ![Creator] = J!NewDeal(a)]
    BY <1>3 DEF J!Create
  <2>2. J!TypeOK'
    BY <1>2, <1>3, <2>1, SameDeals DEF RecordInv, J!Create, J!TypeOK, J!PCs,
                                       J!Final, J!Goto, Fresh
  <2>3. file' \in Records
    BY <1>3 DEF J!Create, Records
  <2>4. \A r \in JoinRuns : jcopy'[r] \in Records \/ Fresh(jcopy'[r])
    BY <1>2, <2>1 DEF RecordInv, J!TypeOK, Records
  <2>5. Loads
    BY <1>2, <1>3, <2>1 DEF RecordInv, J!TypeOK, KnowsNoOutput, J!Create, J!Goto, Fresh
  <2> QED BY <2>2, <2>3, <2>4, <2>5
<1>4. ASSUME NEW r \in JoinRuns, J!JoinIt(r) PROVE Goal
  <2>1. UNCHANGED <<file, token>> /\ file' \in Records
    BY <1>4 DEF J!JoinIt, Records
  <2>2. PICK a \in token :
          \/ /\ J!CanJoin(J!Loaded(a))
             /\ jcopy' = [jcopy EXCEPT ![r] = J!Join(J!Loaded(a), r)]
             /\ J!Goto(r, "save")
          \/ J!Goto(r, "failed") /\ UNCHANGED jcopy
    BY <1>4 DEF J!JoinIt
  <2>3. a \in Amounts /\ r \in Buyers
    BY <1>4, <2>2 DEF RecordInv, J!TypeOK, J!JoinIt
  <2>4. CASE UNCHANGED jcopy /\ J!Goto(r, "failed")
    <3>1. J!TypeOK'
      BY <2>1, <2>4 DEF RecordInv, J!TypeOK, J!PCs, J!Final, J!Goto
    <3>2. Loads
      BY <2>4 DEF RecordInv, J!TypeOK, KnowsNoOutput, J!Goto
    <3> QED BY <1>1, <2>1, <2>4, <3>1, <3>2
  <2>5. CASE /\ J!CanJoin(J!Loaded(a))
             /\ jcopy' = [jcopy EXCEPT ![r] = J!Join(J!Loaded(a), r)]
             /\ J!Goto(r, "save")
    <3>1. Fresh(J!Loaded(a))
      <4>1. CASE file = Torn
        BY <1>2, <2>3, <4>1 DEF J!Loaded
      <4>2. CASE file # Torn
        <5>1. file \in Deals /\ Backed(file) /\ file.state = "CREATED"
          BY <2>5, <4>2, SameDeals DEF RecordInv, J!TypeOK, J!Loaded, J!CanJoin, Records
        <5> QED BY <4>2, <5>1 DEF Backed, Fresh, J!Loaded
      <4> QED BY <4>1, <4>2
    <3>2. Fresh(J!Join(J!Loaded(a), r))
      BY <2>3, <3>1 DEF J!Join, Fresh, Deals, DealStates
    <3>3. J!TypeOK'
      BY <2>1, <2>5, <3>2, SameDeals DEF RecordInv, J!TypeOK, J!PCs, J!Final,
                                         J!Goto, Fresh
    <3>4. \A s \in JoinRuns : jcopy'[s] \in Records \/ Fresh(jcopy'[s])
      BY <2>5, <3>2 DEF RecordInv, J!TypeOK, Records
    <3>5. Loads
      BY <2>5, <3>2 DEF RecordInv, J!TypeOK, KnowsNoOutput, J!Goto, Fresh
    <3> QED BY <2>1, <3>3, <3>4, <3>5
  <2> QED BY <2>2, <2>4, <2>5
<1>5. ASSUME NEW r \in JoinRuns, J!Truncate(r) PROVE Goal
  <2>1. J!TypeOK'
    BY <1>5 DEF RecordInv, J!TypeOK, J!PCs, J!Final, J!Truncate, J!TruncateFile,
                J!Answered, J!Refused, J!Goto
  <2>2. file' \in Records \cup {Torn} /\ UNCHANGED jcopy
    BY <1>5 DEF J!Truncate, J!TruncateFile, Records
  <2>3. Loads
    BY <1>5
       DEF RecordInv, J!TypeOK, KnowsNoOutput, J!Truncate, J!TruncateFile, J!Answered,
                J!Refused, J!Goto
  <2> QED BY <1>1, <2>1, <2>2, <2>3
<1>6. ASSUME NEW r \in JoinRuns, J!Write(r) PROVE Goal
  <2>1. /\ file' \in {file, Torn, jcopy[r]} /\ UNCHANGED jcopy
        /\ J!Goto(r, "done") \/ J!Goto(r, "failed")
        /\ jpc[r] = "write"
    BY <1>6 DEF J!Write, J!WriteFile, J!Refused
  <2>2. token' = token \/ (r = Creator /\ token' = {jcopy[r].amount})
    BY <1>6 DEF J!Write
  <2>3. jcopy[r] \in Deals
    BY <2>1, SameDeals DEF RecordInv, J!TypeOK, KnowsNoOutput
  <2>4. jcopy[r].amount \in Amounts
    BY <2>3 DEF Deals
  <2>5. J!TypeOK'
    BY <2>1, <2>2, <2>3, <2>4, SameDeals DEF RecordInv, J!TypeOK, J!PCs, J!Final, J!Goto
  <2>6. file' \in Records \cup {Torn} /\ Loads
    BY <2>1 DEF RecordInv, J!TypeOK, KnowsNoOutput, J!Goto, Records
  <2> QED BY <1>1, <2>1, <2>5, <2>6
<1>7. ASSUME NEW r \in JoinRuns, J!Crash(r) PROVE Goal
  <2>1. J!TypeOK'
    BY <1>7 DEF RecordInv, J!TypeOK, J!PCs, J!Final, J!Crash, J!Die, J!Goto
  <2>2. file' \in Records /\ UNCHANGED jcopy
    BY <1>7 DEF J!Crash, J!Die, Records
  <2>3. Loads
    BY <1>7 DEF RecordInv, J!TypeOK, KnowsNoOutput, J!Crash, J!Die, J!Goto
  <2> QED BY <1>1, <2>1, <2>2, <2>3
<1> QED BY <1>3, <1>4, <1>5, <1>6, <1>7 DEF J!Next

\* A record that went on from one there was: it names the same output.
Onward(d) ==
    /\ d \in Deals
    /\ d.state \notin {"CREATED", "JOINED"} /\ d.fund # NoTx
    /\ \E e \in Records \ {Torn} : /\ d.fund = e.fund /\ d.buyer = e.buyer
                                   /\ d.amount = e.amount

\* The commands that end a deal make no record that names another output, and
\* pay only after they have spent the output that their deal names.
LEMMA EndKeeps ==
    ASSUME RecordInv, C!Next
    PROVE  /\ EndTypeOK'
           /\ \A r \in ClaimRuns : KnowsDeal(r)'
           /\ file' \in Records \cup {Torn} /\ kit' \in Records
           /\ \A r \in ClaimRuns : ccopy'[r] \in Records \/ Onward(ccopy'[r])
<1> DEFINE Goal == /\ EndTypeOK'
                   /\ \A r \in ClaimRuns : KnowsDeal(r)'
                   /\ file' \in Records \cup {Torn} /\ kit' \in Records
                   /\ \A r \in ClaimRuns : ccopy'[r] \in Records \/ Onward(ccopy'[r])
<1> SUFFICES Goal
  OBVIOUS
<1> USE EscrowSystemAssumption
<1>1. ASSUME UNCHANGED ccopy
      PROVE  \A r \in ClaimRuns : ccopy'[r] \in Records
  BY <1>1 DEF Records
<1>2. ASSUME NEW r \in ClaimRuns, NEW k \in C!Kinds, C!Load(r, k) PROVE Goal
  <2>1. /\ cpc[r] = "idle" /\ kind' = [kind EXCEPT ![r] = k]
        /\ UNCHANGED <<file, kit, spent, mature, payout>>
    BY <1>2 DEF C!Load
  <2>2. CASE C!Goto(r, "failed") /\ UNCHANGED ccopy
    <3>1. EndTypeOK'
      BY <2>1, <2>2 DEF RecordInv, EndTypeOK, C!PCs, C!Final, C!Goto
    <3>2. \A s \in ClaimRuns : KnowsDeal(s)'
      BY <2>1, <2>2 DEF RecordInv, EndTypeOK, KnowsDeal, C!HasSpent, C!Final, C!Goto
    <3> QED BY <1>1, <2>1, <2>2, <3>1, <3>2 DEF Records
  <2>3. CASE /\ C!Startable(k, C!Source(k))
             /\ ccopy' = [ccopy EXCEPT ![r] = IF k = "ship" THEN C!Ship(file)
                                                            ELSE C!Source(k)]
             /\ C!Goto(r, C!FirstStep(k))
    <3> DEFINE d == IF k = "ship" THEN C!Ship(file) ELSE C!Source(k)
    <3>1. d \in Deals /\ (d \in Records \/ Onward(d))
      <4>1. CASE k = "ship"
        <5>1. file \in Deals /\ file \in Records \ {Torn}
          BY <2>3, <4>1, SameDeals DEF RecordInv, J!TypeOK, Records, C!Startable,
                                       C!Source, C!Recovery
        <5>2. d \in Deals /\ d.state = "SHIPPED" /\ d.fund = file.fund
              /\ d.buyer = file.buyer /\ d.amount = file.amount
          BY <4>1, <5>1 DEF C!Ship, Deals, DealStates
        <5>3. file.fund # NoTx
          BY <2>3, <4>1, <5>1 DEF RecordInv, Backed, C!Startable, C!Source,
                                  C!Recovery, C!Ready, C!CanShip
        <5> HIDE DEF d
        <5> QED BY <5>1, <5>2, <5>3 DEF Onward
      <4>2. CASE k # "ship"
        BY <2>3, <4>2, SameDeals DEF RecordInv, J!TypeOK, EndTypeOK, Records,
                                     C!Startable,
                                     C!Source
      <4> QED BY <4>1, <4>2
    <3>2. /\ C!FirstStep(k) \in {"save", "lookup", "claim"}
          /\ C!FirstStep(k) # "save" => k \in C!Closing \cup C!Recovery
      BY DEF C!FirstStep, C!Kinds, C!Closing, C!Recovery
    <3> HIDE DEF d
    <3>3. ccopy' = [ccopy EXCEPT ![r] = d]
      BY <2>3 DEF d
    <3>4. EndTypeOK'
      BY <2>1, <2>3, <3>1, <3>2, <3>3 DEF RecordInv, EndTypeOK, C!PCs, C!Goto
    <3>5. \A s \in ClaimRuns : KnowsDeal(s)'
      BY <2>1, <2>3, <3>1, <3>2, <3>3
         DEF RecordInv, EndTypeOK, KnowsDeal, C!HasSpent, C!Final, C!Goto
    <3>6. \A s \in ClaimRuns : ccopy'[s] \in Records \/ Onward(ccopy'[s])
      BY <3>1, <3>3 DEF RecordInv, EndTypeOK, Records
    <3>7. file' \in Records /\ kit' \in Records
      BY <2>1 DEF Records
    <3> QED BY <3>4, <3>5, <3>6, <3>7
  <2> QED BY <1>2, <2>2, <2>3 DEF C!Load
<1>3. ASSUME NEW r \in ClaimRuns, C!Lookup(r) PROVE Goal
  <2>1. EndTypeOK'
    BY <1>3 DEF RecordInv, EndTypeOK, C!Lookup, C!PCs, C!Final, C!Goto, C!Refused
  <2>2. \A s \in ClaimRuns : KnowsDeal(s)'
    BY <1>3 DEF RecordInv, EndTypeOK, KnowsDeal, C!HasSpent, C!Lookup, C!Final,
                C!Goto, C!Refused
  <2>3. file' \in Records /\ kit' \in Records /\ UNCHANGED ccopy
    BY <1>3 DEF C!Lookup, Records
  <2> QED BY <1>1, <2>1, <2>2, <2>3
<1>4. ASSUME NEW r \in ClaimRuns, C!ClaimEscrow(r) PROVE Goal
  <2>1. /\ cpc[r] = "claim" /\ payout[r] = "none" /\ ccopy[r] # Torn
        /\ kind[r] \in C!Closing \cup C!Recovery
        /\ UNCHANGED <<ccopy, file, kit, kind, mature, payout>>
    BY <1>4 DEF RecordInv, KnowsDeal, C!ClaimEscrow, C!Final
  <2>2. CASE C!Goto(r, "failed") /\ UNCHANGED spent
    <3>1. EndTypeOK'
      BY <2>1, <2>2 DEF RecordInv, EndTypeOK, C!PCs, C!Final, C!Goto
    <3>2. \A s \in ClaimRuns : KnowsDeal(s)'
      BY <2>1, <2>2 DEF RecordInv, EndTypeOK, KnowsDeal, C!HasSpent, C!Final, C!Goto
    <3> QED BY <1>1, <2>1, <3>1, <3>2 DEF Records
  <2>3. CASE /\ C!Spendable(r) /\ spent' = [spent EXCEPT ![ccopy[r].fund] = r]
             /\ \E l \in {"done", "pay", "failed"} :
                   C!Goto(r, l) /\ (l = "pay" => kind[r] \in C!Closing)
    <3>1. ccopy[r].fund \in FundRuns /\ ccopy[r].fund # NoTx /\ spent[ccopy[r].fund] = NoTx
      BY <2>1, <2>3 DEF RecordInv, EndTypeOK, Records, Backed, BackedBy, C!Spendable
    <3>2. EndTypeOK'
      BY <2>1, <2>3, <3>1 DEF RecordInv, EndTypeOK, C!PCs, C!Final, C!Goto
    <3>3. \A s \in ClaimRuns : C!HasSpent(s) => C!HasSpent(s)'
      BY <2>1, <2>3, <3>1, DealAssumption DEF C!HasSpent
    <3>4. C!HasSpent(r)'
      BY <2>1, <2>3, <3>1 DEF C!HasSpent, RecordInv, EndTypeOK
    <3>5. \A s \in ClaimRuns : KnowsDeal(s)'
      BY <2>1, <2>3, <3>3, <3>4 DEF RecordInv, EndTypeOK, KnowsDeal, C!Final, C!Goto
    <3> QED BY <1>1, <2>1, <3>2, <3>5 DEF Records
  <2> QED BY <1>4, <2>1, <2>2, <2>3 DEF C!ClaimEscrow, C!Answered, C!Refused
<1>5. ASSUME NEW r \in ClaimRuns, C!SendPayment(r) PROVE Goal
  <2>1. EndTypeOK'
    BY <1>5 DEF RecordInv, EndTypeOK, C!SendPayment, C!PCs, C!Final, C!Payouts,
                C!Answered, C!Goto, C!Refused
  <2>2. \A s \in ClaimRuns : KnowsDeal(s)'
    BY <1>5 DEF RecordInv, EndTypeOK, KnowsDeal, C!HasSpent, C!SendPayment, C!Final,
                C!Answered, C!Goto, C!Refused
  <2>3. file' \in Records /\ kit' \in Records /\ UNCHANGED ccopy
    BY <1>5 DEF C!SendPayment, Records
  <2> QED BY <1>1, <2>1, <2>2, <2>3
<1>6. ASSUME NEW r \in ClaimRuns, C!AwaitPayment(r) PROVE Goal
  <2>1. /\ cpc[r] = "await" /\ ccopy[r] # Torn /\ kind[r] \in C!Closing
        /\ ccopy[r] \in Deals
        /\ UNCHANGED <<file, kit, kind, spent, mature, payout>>
    BY <1>6 DEF RecordInv, EndTypeOK, KnowsDeal, C!AwaitPayment, C!Final
  <2>2. CASE C!Goto(r, "failed") /\ UNCHANGED ccopy
    <3>1. EndTypeOK'
      BY <2>1, <2>2 DEF RecordInv, EndTypeOK, C!PCs, C!Final, C!Goto
    <3>2. \A s \in ClaimRuns : KnowsDeal(s)'
      BY <2>1, <2>2 DEF RecordInv, EndTypeOK, KnowsDeal, C!HasSpent, C!Final, C!Goto
    <3> QED BY <1>1, <2>1, <2>2, <3>1, <3>2 DEF Records
  <2>3. CASE C!Closes(r, "save")
    <3> DEFINE d == C!Close(kind[r], ccopy[r], r)
    <3>1. /\ d \in Deals /\ d.state \in {"RELEASED", "REFUNDED", "DISPUTED"}
          /\ d.fund = ccopy[r].fund /\ d.buyer = ccopy[r].buyer
          /\ d.amount = ccopy[r].amount
      <4>1. CASE kind[r] = "release"
        BY <2>1, <4>1 DEF C!Close, C!Release, Deals, DealStates
      <4>2. CASE kind[r] = "refund"
        BY <2>1, <4>2 DEF C!Close, C!Refund, Deals, DealStates
      <4>3. CASE kind[r] \in {"awardSeller", "awardBuyer"}
        BY <2>1, <4>3 DEF C!Close, C!Dispute, Deals, DealStates
      <4> QED BY <2>1, <4>1, <4>2, <4>3 DEF C!Closing
    <3> HIDE DEF d
    <3>2. ccopy' = [ccopy EXCEPT ![r] = d] /\ C!Goto(r, "save")
      BY <2>3 DEF C!Closes, d
    <3>3. Onward(d)
      BY <2>1, <3>1 DEF RecordInv, KnowsDeal, C!HasSpent, Onward, Records
    <3>4. EndTypeOK'
      BY <2>1, <3>1, <3>2 DEF RecordInv, EndTypeOK, C!PCs, C!Goto
    <3>5. \A s \in ClaimRuns : C!HasSpent(s) => C!HasSpent(s)'
      BY <2>1, <3>1, <3>2 DEF C!HasSpent, RecordInv, EndTypeOK
    <3>6. \A s \in ClaimRuns : KnowsDeal(s)'
      BY <2>1, <3>1, <3>2, <3>5 DEF RecordInv, EndTypeOK, KnowsDeal, C!Final, C!Goto
    <3>7. \A s \in ClaimRuns : ccopy'[s] \in Records \/ Onward(ccopy'[s])
      BY <3>2, <3>3 DEF RecordInv, EndTypeOK, Records
    <3>8. file' \in Records /\ kit' \in Records
      BY <2>1 DEF Records
    <3> QED BY <3>4, <3>6, <3>7, <3>8
  <2> QED BY <1>6, <2>2, <2>3 DEF C!AwaitPayment, C!Refused
<1>7. ASSUME NEW r \in ClaimRuns, C!Truncate(r) PROVE Goal
  <2>1. EndTypeOK'
    BY <1>7 DEF RecordInv, EndTypeOK, C!Truncate, C!TruncateFile, C!PCs, C!Final,
                C!Answered, C!Goto, C!Refused
  <2>2. \A s \in ClaimRuns : KnowsDeal(s)'
    BY <1>7 DEF RecordInv, EndTypeOK, KnowsDeal, C!HasSpent, C!Truncate,
                C!TruncateFile, C!Final, C!Answered, C!Goto, C!Refused
  <2>3. file' \in Records \cup {Torn} /\ kit' \in Records /\ UNCHANGED ccopy
    BY <1>7 DEF C!Truncate, C!TruncateFile, Records
  <2> QED BY <1>1, <2>1, <2>2, <2>3
<1>8. ASSUME NEW r \in ClaimRuns, C!Write(r) PROVE Goal
  <2>1. EndTypeOK'
    BY <1>8 DEF RecordInv, EndTypeOK, C!Write, C!WriteFile, C!PCs, C!Final,
                C!Goto, C!Refused
  <2>2. \A s \in ClaimRuns : KnowsDeal(s)'
    BY <1>8 DEF RecordInv, EndTypeOK, KnowsDeal, C!HasSpent, C!Write,
                C!WriteFile, C!Final, C!Goto, C!Refused
  <2>3. file' \in Records \cup {Torn} /\ kit' \in Records /\ UNCHANGED ccopy
    BY <1>8 DEF C!Write, C!WriteFile, C!Refused, Records
  <2> QED BY <1>1, <2>1, <2>2, <2>3
<1>9. ASSUME NEW r \in ClaimRuns, C!Crash(r) PROVE Goal
  <2>1. EndTypeOK'
    BY <1>9 DEF RecordInv, EndTypeOK, C!Crash, C!Die, C!PCs, C!Final, C!Goto
  <2>2. \A s \in ClaimRuns : KnowsDeal(s)'
    BY <1>9 DEF RecordInv, EndTypeOK, KnowsDeal, C!HasSpent, C!Crash, C!Die,
                C!Final, C!Goto
  <2>3. file' \in Records /\ kit' \in Records /\ UNCHANGED ccopy
    BY <1>9 DEF C!Crash, C!Die, Records
  <2> QED BY <1>1, <2>1, <2>2, <2>3
<1>10. ASSUME NEW r \in ClaimRuns, C!Deliver(r) PROVE Goal
  <2>1. EndTypeOK'
    BY <1>10 DEF RecordInv, EndTypeOK, C!Deliver, C!Payouts
  <2>2. \A s \in ClaimRuns : KnowsDeal(s)'
    BY <1>10 DEF RecordInv, EndTypeOK, KnowsDeal, C!HasSpent, C!Deliver
  <2>3. file' \in Records /\ kit' \in Records /\ UNCHANGED ccopy
    BY <1>10 DEF C!Deliver, Records
  <2> QED BY <1>1, <2>1, <2>2, <2>3
<1>11. ASSUME C!ExportKit \/ \E o \in FundRuns : C!Mature(o) PROVE Goal
  <2>1. EndTypeOK'
    BY <1>11, SameDeals DEF RecordInv, EndTypeOK, J!TypeOK, C!ExportKit, C!Mature
  <2>2. \A s \in ClaimRuns : KnowsDeal(s)'
    BY <1>11 DEF RecordInv, KnowsDeal, C!HasSpent, C!ExportKit, C!Mature
  <2>3. file' \in Records /\ kit' \in Records /\ UNCHANGED ccopy
    BY <1>11 DEF C!ExportKit, C!Mature, Records
  <2> QED BY <1>1, <2>1, <2>2, <2>3
<1> QED
  BY <1>2, <1>3, <1>4, <1>5, <1>6, <1>7, <1>8, <1>9, <1>10, <1>11 DEF C!Next, C!Work
-----------------------------------------------------------------------------
\* No record names an output when no command has run.
LEMMA InitInv == Init => RecordInv
<1> SUFFICES ASSUME Init PROVE RecordInv
  OBVIOUS
<1> USE EscrowSystemAssumption
<1>1. J!TypeOK
  BY DEF Init, J!Init, J!TypeOK, J!PCs, J!Final
<1>2. F!TypeOK
  BY DEF Init, J!Init, F!TypeOK, F!PCs, F!Live, F!Final, F!HTLCs, F!Invoices
<1>3. EndTypeOK
  BY DEF Init, EndTypeOK, C!PCs, C!Final, C!Payouts
<1>4. \A r \in JoinRuns : KnowsNoOutput(r)
  BY DEF Init, J!Init, KnowsNoOutput
<1>5. \A f \in FundRuns : KnowsOutput(f)
  BY DEF Init, KnowsOutput, F!Live
<1>6. \A r \in ClaimRuns : KnowsDeal(r)
  BY DEF Init, KnowsDeal
<1>7. Records = {Torn}
  BY DEF Init, J!Init, Records
<1> QED BY <1>1, <1>2, <1>3, <1>4, <1>5, <1>6, <1>7 DEF RecordInv

\* What the runs of the other commands know outlives a save of the file.
LEMMA OthersKeep ==
    ASSUME RecordInv, file' \in Records \cup {Torn}
    PROVE  /\ file' \in Deals \cup {Torn}
           /\ UNCHANGED joinVars =>
                /\ J!TypeOK'
                /\ \A r \in JoinRuns : KnowsNoOutput(r)'
                /\ \A r \in JoinRuns : jcopy'[r] \in Records
           /\ UNCHANGED fundVars =>
                /\ F!TypeOK'
                /\ \A f \in FundRuns : KnowsOutput(f)' /\ Keeps(f)
                /\ \A f \in FundRuns : fcopy'[f] \in Records
           /\ UNCHANGED claimVars /\ kit' \in Deals \cup {Torn} =>
                /\ EndTypeOK'
                /\ \A r \in ClaimRuns : KnowsDeal(r)'
                /\ \A r \in ClaimRuns : ccopy'[r] \in Records
<1>1. file' \in Deals \cup {Torn}
  BY SameDeals DEF RecordInv, J!TypeOK, F!TypeOK, EndTypeOK, Records
<1>2. ASSUME UNCHANGED joinVars
      PROVE  /\ J!TypeOK'
             /\ \A r \in JoinRuns : KnowsNoOutput(r)'
             /\ \A r \in JoinRuns : jcopy'[r] \in Records
  BY <1>1, <1>2, SameDeals DEF joinVars, RecordInv, J!TypeOK, KnowsNoOutput, Records
<1>3. ASSUME UNCHANGED fundVars
      PROVE  /\ F!TypeOK'
             /\ \A f \in FundRuns : KnowsOutput(f)' /\ Keeps(f)
             /\ \A f \in FundRuns : fcopy'[f] \in Records
  <2>1. F!TypeOK'
    BY <1>1, <1>3, SameDeals DEF fundVars, RecordInv, F!TypeOK
  <2>2. \A f \in FundRuns : KnowsOutput(f)' /\ Keeps(f)
    BY <1>3 DEF fundVars, RecordInv, KnowsOutput, Keeps
  <2> QED BY <1>3, <2>1, <2>2 DEF fundVars, Records
<1>4. ASSUME UNCHANGED claimVars, kit' \in Deals \cup {Torn}
      PROVE  /\ EndTypeOK'
             /\ \A r \in ClaimRuns : KnowsDeal(r)'
             /\ \A r \in ClaimRuns : ccopy'[r] \in Records
  <2>1. EndTypeOK'
    BY <1>4 DEF claimVars, RecordInv, EndTypeOK
  <2>2. \A r \in ClaimRuns : KnowsDeal(r)'
    BY <1>4 DEF claimVars, RecordInv, KnowsDeal, C!HasSpent
  <2> QED BY <1>4, <2>1, <2>2 DEF claimVars, Records
<1> QED BY <1>1, <1>2, <1>3, <1>4

\* A record is backed after a step if it was there before, if it names no
\* output, if it went on from one there was or if a run has just recorded it.
LEMMA NewRecordsBacked ==
    ASSUME RecordInv, \A f \in FundRuns : Keeps(f),
           NEW d, d # Torn,
           \/ d \in Records \/ Fresh(d) \/ Onward(d)
           \/ \E f \in FundRuns : Recorded(f) /\ d = fcopy'[f]
    PROVE  Backed(d)'
<1>1. CASE d \in Records
  BY <1>1, BackedStays DEF RecordInv
<1>2. CASE Fresh(d)
  BY <1>2 DEF Fresh, Backed
<1>3. CASE Onward(d)
  <2>1. PICK e \in Records \ {Torn} : /\ d.fund = e.fund /\ d.buyer = e.buyer
                                      /\ d.amount = e.amount
    BY <1>3 DEF Onward
  <2>2. Backed(e)'
    BY BackedStays DEF RecordInv
  <2> QED BY <1>3, <2>1, <2>2 DEF Onward, Backed, BackedBy
<1>4. CASE \E f \in FundRuns : Recorded(f) /\ d = fcopy'[f]
  BY <1>4, RecordedIsBacked
<1> QED BY <1>1, <1>2, <1>3, <1>4

\* A step of any command leaves every record backed, the new ones included.
LEMMA NextInv == RecordInv /\ [Next]_vars => RecordInv'
<1> SUFFICES ASSUME RecordInv, [Next]_vars PROVE RecordInv'
  OBVIOUS
<1> DEFINE New(d) == \/ d \in Records \cup {Torn} \/ Fresh(d) \/ Onward(d)
                     \/ \E f \in FundRuns : Recorded(f) /\ d = fcopy'[f]
<1>1. ASSUME \A f \in FundRuns : Keeps(f),
             New(file'), New(kit'),
             \A r \in JoinRuns : New(jcopy'[r]),
             \A f \in FundRuns : New(fcopy'[f]),
             \A r \in ClaimRuns : New(ccopy'[r])
      PROVE  \A d \in Records' \ {Torn} : Backed(d)'
  <2> SUFFICES ASSUME NEW d \in Records' \ {Torn} PROVE Backed(d)'
    OBVIOUS
  <2>1. New(d)
    BY <1>1 DEF Records
  <2> QED BY <1>1, <2>1, NewRecordsBacked
<1>2. kit \in Records /\ kit \in Deals \cup {Torn}
  BY DEF RecordInv, EndTypeOK, Records
<1>3. CASE UNCHANGED vars
  <2>1. file' \in Records /\ kit' \in Records
    BY <1>3 DEF vars, Records
  <2>2. UNCHANGED joinVars /\ UNCHANGED fundVars /\ UNCHANGED claimVars /\ kit' = kit
    BY <1>3 DEF vars
  <2> QED BY <1>1, <1>2, <2>1, <2>2, OthersKeep DEF RecordInv
<1>4. CASE JoinStep
  <2>1. J!Next /\ kit' = kit /\ UNCHANGED fundVars /\ UNCHANGED claimVars
    BY <1>4 DEF JoinStep
  <2> QED BY <1>1, <1>2, <2>1, JoinKeeps, OthersKeep DEF RecordInv
<1>5. CASE FundStep
  <2>1. F!Next /\ UNCHANGED joinVars /\ UNCHANGED claimVars
        /\ (kit' = kit \/ \E f \in FundRuns : kit' = fcopy[f])
    BY <1>5 DEF FundStep
  <2>2. kit' \in Records /\ kit' \in Deals \cup {Torn}
    BY <1>2, <2>1, SameDeals DEF RecordInv, F!TypeOK, Records
  <2> QED BY <1>1, <2>1, <2>2, FundKeeps, OthersKeep DEF RecordInv
<1>6. CASE EndStep
  <2>1. C!Next /\ UNCHANGED joinVars /\ UNCHANGED fundVars
    BY <1>6 DEF EndStep
  <2> QED BY <1>1, <2>1, EndKeeps, OthersKeep DEF RecordInv
<1> QED BY <1>3, <1>4, <1>5, <1>6 DEF Next

\* What the commands know at each call holds in every reachable state.
THEOREM Invariant == Spec => []RecordInv
BY InitInv, NextInv, PTL DEF Spec

\* Whichever joins and funds overlap and overwrite each other's files, a deal
\* record that names an escrow output has the keys and the amount that the
\* output was made with, and the swap that made it went through.
THEOREM OutpointsKeepTheirBuyers == Spec => []OutpointIsBuyers
<1>1. RecordInv => OutpointIsBuyers
  BY DEF RecordInv, OutpointIsBuyers, Funded, Backed, BackedBy
<1> QED BY <1>1, Invariant, PTL

\* Whatever commands race for the outputs of a deal, the service pays a party
\* only for an output that a buyer has paid for.
THEOREM PayoutsAreBacked == Spec => []PayoutIsBacked
<1>1. RecordInv => PayoutIsBacked
  BY DEF RecordInv, PayoutIsBacked, KnowsDeal, C!HasSpent, Records, Backed, BackedBy
<1> QED BY <1>1, Invariant, PTL
=============================================================================
