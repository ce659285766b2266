SPECIFICATION Spec
CONSTANTS
    Blocks <- ShortBlocks
    Genesis = "a0"
    Parent <- MCParent
    Number <- MCNumber
    Touches <- MCTouches
    Adopters = {"x", "y"}
    AwaitTag = "Finalized"
    MaxBlocksPerCall = 2
    StreamCap = 2
    ReorgWhen = "any"
    CrashAnywhere = TRUE
    MaxFailures = 2
    None = None
INVARIANTS
    TypeOK
    AppliedInOrder
    OrderInv
