CONSTANTS
    r1 = r1
    r2 = r2
    buyer = buyer
    fundTx = fundTx
    NoBuyer = NoBuyer
    NoTx = NoTx
    Torn = Torn
    Runs <- MCRuns
    Txs <- MCTxs
    Buyers <- MCBuyers
    Amounts <- MCAmounts
    Outputs <- MCOutputs
    Faulty = {}
    Informed = {}
SPECIFICATION Spec
PROPERTY
    RecoveryWorks
CHECK_DEADLOCK FALSE
