SPECIFICATION FairSpec
CONSTANTS
    Blocks <- LineBlocks
    Genesis = "a0"
    Parent <- MCParent
    Number <- MCNumber
    Touches <- MCTouches
    Adopters = {"x", "y"}
    AwaitTag = "Finalized"
    MaxBlocksPerCall = 2
    StreamCap = 2
    ReorgWhen = "never"
    CrashAnywhere = TRUE
    MaxFailures = 1
    None = None
PROPERTIES
    AnnouncedIsIndexed
    FinalizedIsApplied
