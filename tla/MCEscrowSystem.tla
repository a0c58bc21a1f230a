--------------------------- MODULE MCEscrowSystem ---------------------------
(* One create, two joins, two funds and two of the commands that end a deal. *)
EXTENDS EscrowSystem, TLC

CONSTANTS create, j1, j2, f1, f2, c1, c2

MCJoinRuns  == {create, j1, j2}
MCFundRuns  == {f1, f2}
MCClaimRuns == {c1, c2}
MCOneClaim  == {c1}
MCTxs       == MCJoinRuns \cup MCFundRuns \cup MCClaimRuns
MCBuyers    == {j1, j2}
MCAmounts   == {1547}

\* The joins differ in nothing but their names, nor do the funds.
MCSymmetry == Permutations(MCBuyers) \cup Permutations(MCFundRuns)
=============================================================================
