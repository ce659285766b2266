SPECIFICATION FairSpec
CONSTANTS
    CallTriggers = {"f"}
    StorageTriggers = {"s"}
    Selectors = {"p", "q"}
    Slots = {"s"}
    Values = {0, 1}
    Zero = 0
    Deployments <- MCDeployments
    DEPLOYMENT_GAS_LIMIT = 5
    IntrinsicGas = 1
    MaxCalls = 2
    None = None
CHECK_DEADLOCK FALSE
INVARIANTS
    TypeOK
    ExtractedAsDeployed
    RegisteredIsMatched
PROPERTIES
    ExtractionEnds
