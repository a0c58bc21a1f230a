---------------------------- MODULE EscrowSystem ----------------------------
(***************************************************************************)
(* The life of a deal: any number of runs of every command of cmd/escrow,  *)
(* in any order and at the same time, on one deal file.  The components    *)
(* are JoinDeal, FundSwap and ClaimPayout, each with the program counters  *)
(* and the memories of its own runs.  They share                           *)
(*                                                                         *)
(*   - the deal file, which every command loads and saves as a whole;      *)
(*   - the escrow outputs: the one that a run of fund creates bears the    *)
(*     run's name, and is what the commands that end a deal spend;         *)
(*   - the recovery kit, printed by fund and recoverykit.                  *)
(*                                                                         *)
(* The components' own modules assume what another leaves behind (a deal   *)
(* that was joined, an output that exists).  Here they produce it.         *)
(***************************************************************************)
EXTENDS Deal

CONSTANTS
    JoinRuns,    \* runs of create and join; the joins are the buyers
    Creator,     \* the run of create
    FundRuns,    \* runs of fund, and the escrow outputs they create
    ClaimRuns,   \* runs of ship, release, refund, dispute and recover
    Faulty,      \* the runs whose calls may fail and that may crash
    Informed,    \* the runs that pass the value of the escrow output
    Torn         \* contents of a file that does not parse as a deal

ASSUME EscrowSystemAssumption ==
    /\ Creator \in JoinRuns
    /\ JoinRuns \ {Creator} \subseteq Buyers
    /\ JoinRuns \cup FundRuns \cup ClaimRuns \subseteq Txs
    /\ FundRuns \cap ClaimRuns = {}
    /\ Informed \subseteq ClaimRuns
    /\ Torn \notin Deals

VARIABLES
    file, kit,
    jpc, jcopy, token,
    fpc, fcopy, htlc, invoice, shown, paid,
    cpc, ccopy, kind, spent, mature, payout

joinVars  == <<jpc, jcopy, token>>
fundVars  == <<fpc, fcopy, htlc, invoice, shown, paid>>
claimVars == <<cpc, ccopy, kind, spent, mature, payout>>
vars      == <<file, kit, joinVars, fundVars, claimVars>>

J == INSTANCE JoinDeal
       WITH Runs <- JoinRuns, Faulty <- Faulty \cap JoinRuns,
            pc <- jpc, copy <- jcopy

F == INSTANCE FundSwap
       WITH Runs <- FundRuns, Faulty <- Faulty \cap FundRuns,
            pc <- fpc, copy <- fcopy

C == INSTANCE ClaimPayout
       WITH Runs <- ClaimRuns, Faulty <- Faulty \cap ClaimRuns,
            Outputs <- FundRuns, pc <- cpc, copy <- ccopy

\* No command has been run.  (A data directory in which create was not run
\* is one whose file a join has found torn.)
Init ==
    /\ J!Init /\ jpc[Creator] = "idle"
    /\ fpc = [r \in FundRuns |-> "idle"]
    /\ fcopy = [r \in FundRuns |-> Torn]
    /\ htlc = [r \in FundRuns |-> "none"]
    /\ invoice = [r \in FundRuns |-> "none"]
    /\ shown = {}
    /\ paid = {}
    /\ cpc = [r \in ClaimRuns |-> "idle"]
    /\ ccopy = [r \in ClaimRuns |-> Torn]
    /\ kit = Torn
    /\ kind = [r \in ClaimRuns |-> "none"]
    /\ spent = [o \in FundRuns |-> NoTx]
    /\ mature = {}
    /\ payout = [r \in ClaimRuns |-> "none"]
-----------------------------------------------------------------------------
\* The kit that join prints names no output yet (see ExportKit).
JoinStep == J!Next /\ UNCHANGED <<kit, fundVars, claimVars>>

\* A run of fund that comes to its end prints a kit, which its reader keeps
\* in the place of an earlier one or does not.
FundStep ==
    /\ F!Next
    /\ kit' \in {kit} \cup {fcopy[r] : r \in {f \in FundRuns :
                                 fpc[f] = "write" /\ fpc'[f] = "done"}}
    /\ UNCHANGED <<joinVars, claimVars>>

\* Only an output that is on the chain has confirmations.
EndStep ==
    /\ C!Next
    /\ \A o \in mature' \ mature : htlc[o] = "claimed"
    /\ UNCHANGED <<joinVars, fundVars>>

Next == JoinStep \/ FundStep \/ EndStep

Spec == Init /\ [][Next]_vars
-----------------------------------------------------------------------------
\* Every deal record there is: in the file, in a kit, in the memory of a run.
Records == {file, kit} \cup {jcopy[r] : r \in JoinRuns}
             \cup {fcopy[r] : r \in FundRuns} \cup {ccopy[r] : r \in ClaimRuns}

Funded == {d \in Records \ {Torn} : d.fund # NoTx}

\* Whichever joins and funds overlap and overwrite each other's files: a deal
\* record that names an escrow output has the keys, the secret and the amount
\* that the output was made with, and the swap that made it went through.
OutpointIsBuyers ==
    \A d \in Funded : /\ d.fund \in FundRuns
                      /\ htlc[d.fund] = "claimed"
                      /\ invoice[d.fund] = "SETTLED"
                      /\ fcopy[d.fund].buyer = d.buyer
                      /\ fcopy[d.fund].amount = d.amount

\* The service pays a party only for an output whose buyer has paid it.
PayoutIsBacked ==
    \A r \in ClaimRuns :
        payout[r] # "none" => \E o \in FundRuns : /\ spent[o] = r
                                                  /\ invoice[o] = "SETTLED"

\* What each component guarantees by itself, any deal file given, it keeps to
\* when the others save the same file.
ComponentsHold == J!TypeOK /\ F!IndInv /\ C!IndInv

\* All commands together keep the promise of the whole service.
Promise == INSTANCE EscrowService
             WITH Outputs <- FundRuns,
                  payment <- F!Payment, escrowed <- F!Escrowed,
                  holder <- C!Holder, due <- C!Due, payout <- C!Payment

ImplementsEscrowService == Promise!Spec
-----------------------------------------------------------------------------
(***************************************************************************)
(* The inductive invariant behind OutpointIsBuyers and PayoutIsBacked:     *)
(* what a run that has come to a call knows of its deal and of its output, *)
(* and that every record is backed by the run of fund that it names.  The  *)
(* runs' copies take part because any of them may be saved at any later    *)
(* time.                                                                   *)
(***************************************************************************)
KnowsNoOutput(r) ==
    jpc[r] \in {"save", "write"} => jcopy[r] # Torn /\ jcopy[r].fund = NoTx

KnowsOutput(f) ==
    /\ fpc[f] \in F!Live => fcopy[f] # Torn
    /\ fpc[f] \in {"idle", "lock", "confirm", "invoice"} => invoice[f] = "none"
    /\ fpc[f] \in {"idle", "lock"} => htlc[f] = "none"
    /\ fpc[f] \in {"settle", "record"} => htlc[f] = "claimed"
    /\ fpc[f] = "record" => invoice[f] = "SETTLED"

KnowsDeal(r) ==
    /\ cpc[r] \notin {"idle"} \cup C!Final => ccopy[r] # Torn
    /\ cpc[r] \in {"idle", "lookup", "claim"} => payout[r] = "none"
    /\ cpc[r] \in {"lookup", "claim"} => kind[r] \in C!Closing \cup C!Recovery
    /\ cpc[r] \in {"pay", "await"} => kind[r] \in C!Closing /\ C!HasSpent(r)
    /\ payout[r] # "none" => C!HasSpent(r)

BackedBy(d, f) ==
    /\ f \in FundRuns
    /\ htlc[f] = "claimed" /\ invoice[f] = "SETTLED"
    /\ fpc[f] # "idle" /\ fcopy[f] # Torn
    /\ fcopy[f].buyer = d.buyer /\ fcopy[f].amount = d.amount

Backed(d) ==
    /\ d.state \in {"CREATED", "JOINED"} <=> d.fund = NoTx
    /\ d.fund # NoTx => BackedBy(d, d.fund)

\* C!TypeOK without what follows from Backed: that a deal names an output.
EndTypeOK ==
    /\ cpc \in [ClaimRuns -> C!PCs]
    /\ ccopy \in [ClaimRuns -> Deals \cup {Torn}]
    /\ kit \in Deals \cup {Torn}
    /\ kind \in [ClaimRuns -> C!Kinds \cup {"none"}]
    /\ spent \in [FundRuns -> ClaimRuns \cup {NoTx}]
    /\ payout \in [ClaimRuns -> C!Payouts]

RecordInv ==
    /\ J!TypeOK /\ F!TypeOK /\ EndTypeOK
    /\ \A r \in JoinRuns : KnowsNoOutput(r)
    /\ \A f \in FundRuns : KnowsOutput(f)
    /\ \A r \in ClaimRuns : KnowsDeal(r)
    /\ \A d \in Records \ {Torn} : Backed(d)
=============================================================================
