SPECIFICATION Spec
CONSTANTS
    Ids = {"p", "q"}
    CallTriggers = {"f", "g", "0x00000000"}
    StorageTriggers = {"s", "t"}
    Selectors = {"p1", "p2", "q1", "q2"}
    Recorder <- MCRecorder
    None = None
    Addresses = {"x", "y", "sender", "new", "assertion", "caller"}
    Slots = {"s", "t"}
    Hashes = {"hp", "hq", "h0"}
    Values <- MCValues
    Zero = 0
    NoCode = "h0"
    DefaultSelector = "0x00000000"
    AssertionContract = "assertion"
    Caller = "caller"
    Txs <- MCTxs
    Blocks = {1}
    PendingMods <- MCPendingMods
    InnerDb <- MCInnerDb
    Codes = {"p", "q"}
    Deployed <- MCDeployed
    MaxBalance = 9
    MaxTxs = 3
    MaxWrites = 2
CHECK_DEADLOCK FALSE
INVARIANTS
    TypeOK
    ForkFollowsExternal
    StateChangesSpanForks
    OwnDeployment
    BlockChangesAddUp
    BalanceChangesTrigger
PROPERTIES
    ImplementsValidatedBlock
