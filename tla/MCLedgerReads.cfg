CONSTANTS
    c1 = c1
    c2 = c2
    c3 = c3
    Account = {0, 1}
    Exempt = {0}
    Asset = {1}
    Half = 8
    Call = {c1, c2, c3}
    Key = {"k1", "k2", "k3"}
    Request <- Deposits
    PoolSize = 3
    None = None
    Listed <- AccountOne
    PageSizes <- Sizes
    DefaultPageSize = 1
    MaxPageSize = 2
SPECIFICATION SpecReads
SYMMETRY Symmetry
INVARIANTS
    PagesSkipNothing
    TransactionsReadWhole
