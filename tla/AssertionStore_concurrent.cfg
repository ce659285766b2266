SPECIFICATION FairSpec
CONSTANTS
    Ids = {"p", "q"}
    CallTriggers = {"call"}
    StorageTriggers = {"slot"}
    Selectors = {"f", "g"}
    Recorder <- MCRecorder
    None = None
    Adopters = {"x", "y"}
    Writers = {w1, w2}
    Batches <- MCBatches
    States <- MCStates
    MaxCalls = 3
    MaxInserts = 1
    MaxFaults = 1
    MaxBlock = 3
CHECK_DEADLOCK FALSE
INVARIANTS
    TypeOK
    OneStatePerAssertion
    ReadsFollowHistory
PROPERTIES
    ImplementsAtomicStore
    ApplyReturns
