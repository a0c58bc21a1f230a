CONSTANTS
    create = create
    j1 = j1
    j2 = j2
    f1 = f1
    f2 = f2
    c1 = c1
    c2 = c2
    NoBuyer = NoBuyer
    NoTx = NoTx
    Torn = Torn
    JoinRuns <- MCJoinRuns
    Creator = create
    FundRuns <- MCFundRuns
    ClaimRuns <- MCOneClaim
    Txs <- MCTxs
    Buyers <- MCBuyers
    Amounts <- MCAmounts
    Faulty <- MCBuyers
    Informed <- MCOneClaim
SYMMETRY MCSymmetry
SPECIFICATION Spec
INVARIANTS
    OutpointIsBuyers
    PayoutIsBacked
    ComponentsHold
    RecordInv
PROPERTY
    ImplementsEscrowService
CHECK_DEADLOCK FALSE
