SPECIFICATION Spec
CONSTANTS
    Blocks <- LongBlocks
    Genesis = "a0"
    Parent <- MCParent
    Number <- MCNumber
    Touches <- MCTouches
    Adopters = {"x", "y"}
    AwaitTag = "Safe"
    MaxBlocksPerCall = 2
    StreamCap = 2
    ReorgWhen = "idle"
    CrashAnywhere = FALSE
    MaxFailures = 2
    None = None
INVARIANTS
    NoEventLost
