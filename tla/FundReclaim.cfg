CONSTANTS
    r1 = r1
    r2 = r2
    r3 = r3
    buyer = buyer
    NoBuyer = NoBuyer
    NoTx = NoTx
    Torn = Torn
    Runs <- MCPair
    Txs <- MCPair
    Buyers <- MCBuyers
    Amounts <- MCAmounts
    Faulty = {r1, r2}
SPECIFICATION FairSpec
PROPERTY
    LockedIsReclaimed
CHECK_DEADLOCK FALSE
