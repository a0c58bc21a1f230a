--------------------------- MODULE MCClaimPayout ---------------------------
(* Two runs of the commands that end a deal. *)
EXTENDS ClaimPayout, TLC

CONSTANTS r1, r2, buyer, fundTx

MCRuns    == {r1, r2}
MCOutputs == {fundTx}
MCTxs     == MCRuns \cup MCOutputs
MCBuyers  == {buyer}

\* An escrow output whose spend would be dust, and the least that is not.
MCAmounts == {1546, 1547}
=============================================================================
