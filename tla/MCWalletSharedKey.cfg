CONSTANTS
    c1 = c1
    c2 = c2
    c3 = c3
    Account = {0, 1, 2}
    Exempt = {0}
    Asset = {1}
    Half = 4
    Call = {c1, c2, c3}
    Key = {"", "k1", "k2"}
    User = {1, 2}
    External = 0
    BTC = 1
    Deposits <- SharedKey
    None = None
    Request <- DepositRequests
    PoolSize = 2
SPECIFICATION SpecBoth
SYMMETRY Symmetry
INVARIANT ConfirmedDepositIsPosted
