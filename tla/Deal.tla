-------------------------------- MODULE Deal --------------------------------
(***************************************************************************)
(* The deal record of pkg/escrow/deal.go and the seven transitions of its  *)
(* state machine, as operators: CanX is the guard of method X, X itself    *)
(* its assignments.  A command always tests CanX(d) first, because the     *)
(* method returns an error and changes nothing otherwise.                  *)
(*                                                                         *)
(* The record keeps the fields on which the commands branch.  Everything   *)
(* that Join and SetEscrowAddress store together (the buyer's public and   *)
(* private key, the secret, its hash and the address computed from them)   *)
(* is the one field `buyer`, which names the join that generated them.     *)
(* Times, title, identifiers and the seller's and oracle's public keys     *)
(* never change after the deal is created and are left out.                *)
(***************************************************************************)
EXTENDS Naturals

CONSTANTS
    Buyers,   \* the buyers' `escrow join` runs: each draws a key and a secret
    Txs,      \* identifiers of the transactions a deal can name
    Amounts,  \* deal amounts, in satoshis
    NoBuyer,  \* empty BuyerPubKey, SecretHash, EscrowAddress, ...
    NoTx      \* empty FundTxID or ClaimTxID

ASSUME DealAssumption ==
    /\ Amounts \subseteq Nat
    /\ NoBuyer \notin Buyers
    /\ NoTx \notin Txs

DealStates == {"CREATED", "JOINED", "FUNDED", "SHIPPED",
               "RELEASED", "REFUNDED", "DISPUTED"}

Deals == [state  : DealStates,
          amount : Amounts,
          seller : BOOLEAN,              \* SellerPrivKey is in the file
          buyer  : Buyers \cup {NoBuyer},
          fund   : Txs \cup {NoTx},      \* FundTxID and FundVout
          claim  : Txs \cup {NoTx}]      \* ClaimTxID

NewDeal(a) == [state |-> "CREATED", amount |-> a, seller |-> TRUE,
               buyer |-> NoBuyer, fund |-> NoTx, claim |-> NoTx]

\* Mutant of CanJoin: a deal can be joined in any state.
CanJoinAlways(d) == d.state \in DealStates

\* Join and SetEscrowAddress: the join command always runs both.
CanJoin(d) == d.state = "CREATED"
Join(d, b) == [d EXCEPT !.buyer = b, !.state = "JOINED"]

\* Mutant of Fund: the state is not set.
FundUnmarked(d, tx) == [d EXCEPT !.fund = tx]

CanFund(d)  == d.state = "JOINED"
Fund(d, tx) == [d EXCEPT !.fund = tx, !.state = "FUNDED"]

CanShip(d) == d.state = "FUNDED"
Ship(d)    == [d EXCEPT !.state = "SHIPPED"]

\* Release, Refund and Dispute share their guard and differ in the state.
CanClose(d)         == d.state \in {"FUNDED", "SHIPPED"}
Release(d, tx)      == [d EXCEPT !.claim = tx, !.state = "RELEASED"]
Refund(d, tx)       == [d EXCEPT !.claim = tx, !.state = "REFUNDED"]
Dispute(d, tx)      == [d EXCEPT !.claim = tx, !.state = "DISPUTED"]

HasAddress(d) == d.buyer # NoBuyer
-----------------------------------------------------------------------------
(***************************************************************************)
(* Amounts on the chain.  The HTLC is spent with a fee, so an escrow       *)
(* output holds less than the deal's amount, and spending the escrow       *)
(* output costs the same fee again.                                        *)
(***************************************************************************)
HTLCEstimatedFee == 500
dustLimit        == 546

\* SpendHTLC (and ClaimEscrow) refuse an output of dustLimit or less.
AboveDust(a) == a > HTLCEstimatedFee + dustLimit

EscrowValue(a) == a - HTLCEstimatedFee
=============================================================================
