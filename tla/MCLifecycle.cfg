CONSTANTS
    r1 = r1
    r2 = r2
    r3 = r3
    Rpc = {r1, r2, r3}
    Process = {"ledger", "account", "wallet"}
    PoolSize = 2
SPECIFICATION Spec
INVARIANTS
    TypeOK
    HandlersKeepConnections
    ProbeSeesShutdown
PROPERTIES
    OutageIsPublished
    RecoveryIsPublished
    ShutdownCompletes
    EveryRpcEnds
