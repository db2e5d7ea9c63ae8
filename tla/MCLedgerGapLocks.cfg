CONSTANTS
    c1 = c1
    c2 = c2
    c3 = c3
    Account = {0, 1, 2}
    Exempt = {0}
    Asset = {1}
    Half = 4
    Call = {c1, c2, c3}
    Key = {"", "k1", "k2", "k3"}
    Request <- Crossing
    PoolSize = 3
    None = None
SPECIFICATION Spec
SYMMETRY Symmetry
INVARIANT NoDeadlock
