----------------------------- MODULE MCFundSwap -----------------------------
(* Two or three runs of `escrow fund` on one deal. *)
EXTENDS FundSwap, TLC

CONSTANTS r1, r2, r3, buyer

MCRuns   == {r1, r2, r3}
MCPair   == {r1, r2}
MCBuyers == {buyer}

\* One amount of each kind: refused by Fund, refused by the wallet, locked but
\* dust when claimed, and the least amount that can be claimed.
MCAmounts == {0, 545, 1046, 1047}
=============================================================================
