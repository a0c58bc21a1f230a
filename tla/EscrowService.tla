--------------------------- MODULE EscrowService ---------------------------
(***************************************************************************)
(* What PROTOCOL.md promises from the buyer's payment to the end of a      *)
(* deal: the atomic swap puts an escrow output in place of a payment, the  *)
(* output leaves the escrow once, and that only after its payment has been *)
(* taken.  So the service pays nobody with money that nobody paid it, and  *)
(* an output of a swap that failed halfway stays where it is.              *)
(***************************************************************************)
CONSTANT Outputs     \* the escrow outputs, one for each swap

VARIABLES
    payment,         \* the buyer's payment for each output
    escrowed,        \* the outputs that exist
    holder,          \* who controls the money of each output
    due,             \* whom the service has claimed it for
    payout           \* the service's payment to that party

Swap == INSTANCE AtomicSwap WITH Swaps <- Outputs
End  == INSTANCE EscrowOutcome WITH payment <- payout

vars == <<payment, escrowed, holder, due, payout>>

Init == Swap!Init /\ End!Init

\* The money of an output that was not paid for stays in escrow.
OnlyPaidForMoves ==
    \A o \in Outputs : holder'[o] # holder[o] => payment[o] = "taken"

Next == \/ Swap!Next /\ UNCHANGED <<holder, due, payout>>
        \/ End!Next /\ OnlyPaidForMoves /\ UNCHANGED <<payment, escrowed>>

Spec == Init /\ [][Next]_vars
=============================================================================
