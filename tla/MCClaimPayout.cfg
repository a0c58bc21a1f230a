CONSTANTS
    r1 = r1
    r2 = r2
    buyer = buyer
    fundTx = fundTx
    NoBuyer = NoBuyer
    NoTx = NoTx
    Torn = Torn
    Runs <- MCRuns
    Txs <- MCTxs
    Buyers <- MCBuyers
    Amounts <- MCAmounts
    Outputs <- MCOutputs
    Faulty = {r1}
    Informed = {r1, r2}
SPECIFICATION FairSpec
INVARIANTS
    IndInv
    PayoutOnlyByClaimer
    ClosedTellsTruth
PROPERTIES
    ImplementsEscrowOutcome
    ClaimTerminates
    PaidIsClosed
CHECK_DEADLOCK FALSE
