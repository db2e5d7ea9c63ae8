CONSTANTS
    c1 = c1
    c2 = c2
    c3 = c3
    Call = {c1, c2, c3}
    Key = {"", "k1", "k2"}
    Email = {"a", "b", "no at"}
    ValidEmail = {"a", "b"}
    Request <- Retries
    PoolSize = 3
    None = None
SPECIFICATION Spec
INVARIANT EmailTakenByAnother
