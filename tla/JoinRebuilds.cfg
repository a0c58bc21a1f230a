CONSTANTS
    Runs = {create, j1, j2}
    Creator = create
    Faulty = {}
    Txs = {create, j1, j2}
    Buyers = {j1, j2}
    Amounts = {1547}
    NoBuyer = NoBuyer
    NoTx = NoTx
    Torn = Torn
SPECIFICATION Spec
INVARIANT
    SellerKeyKept
CHECK_DEADLOCK FALSE
