CONSTANTS
    c1 = c1
    c2 = c2
    c3 = c3
    Account = {0, 1}
    Exempt = {0}
    Asset = {1}
    Half = 3
    Call = {c1, c2, c3}
    Key = {"k1", "k2"}
    Request <- Opposite
    PoolSize = 2
    None = None
SPECIFICATION FairCounted
INVARIANTS
    CountersMatchAnswers
    OkIsPostedOrReplayed
    PostedIsCommitted
    InternalIsDatabaseError
PROPERTY EveryCallAnswered
