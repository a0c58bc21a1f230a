CONSTANTS
    r1 = r1
    r2 = r2
    r3 = r3
    buyer = buyer
    NoBuyer = NoBuyer
    NoTx = NoTx
    Torn = Torn
    Runs <- MCRuns
    Txs <- MCRuns
    Buyers <- MCBuyers
    Amounts <- MCAmounts
    Faulty = {r1, r2}
SPECIFICATION FairSpec
INVARIANTS
    IndInv
    SettledOnlyIfEscrowed
    EscrowOnlyAfterHeld
    FundedNamesSettledSwap
    DustDealIsFree
PROPERTIES
    FundedIsKept
    ImplementsAtomicSwap
    FundTerminates
    SettledIsFunded
CHECK_DEADLOCK FALSE
