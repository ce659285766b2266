SPECIFICATION Spec
CONSTANTS
    Blocks <- LongBlocks
    Genesis = "a0"
    Parent <- MCParent
    Number <- MCNumber
    Touches <- MCTouches
    Adopters = {"x", "y"}
    AwaitTag = "Finalized"
    MaxBlocksPerCall = 2
    StreamCap = 2
    ReorgWhen = "idle"
    CrashAnywhere = FALSE
    MaxFailures = 0
    None = None
INVARIANTS
    FindsCommonAncestor
