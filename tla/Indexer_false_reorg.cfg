SPECIFICATION Spec
CONSTANTS
    Blocks <- ShortBlocks
    Genesis = "a0"
    Parent <- MCParent
    Number <- MCNumber
    Touches <- MCTouches
    Adopters = {"x", "y"}
    AwaitTag = "Finalized"
    MaxBlocksPerCall = 2
    StreamCap = 2
    ReorgWhen = "idle"
    CrashAnywhere = FALSE
    MaxFailures = 1
    None = None
INVARIANTS
    NoFalseReorg
