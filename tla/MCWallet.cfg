CONSTANTS
    c1 = c1
    c2 = c2
    c3 = c3
    Account = {0, 1, 2}
    Exempt = {0}
    Asset = {1}
    Half = 8
    Call = {c1, c2, c3}
    Key = {"", "k1", "k2", "k3"}
    User = {1, 2}
    External = 0
    BTC = 1
    Deposits <- OneKeyEach
    None = None
SPECIFICATION FairSpec
INVARIANTS
    TypeOK
    EachDepositCreditedOnce
    OnlyLinkedUsersAreCredited
PROPERTY EveryDepositAnswered
