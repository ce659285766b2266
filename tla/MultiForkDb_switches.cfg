SPECIFICATION Spec
CONSTANTS
    Locations = {"assertion", "adopter"}
    Persistent = {"assertion"}
    Values = {0, 1}
    PreTxDb <- MCPreTxDb
    PostTxDb <- MCPostTxDb
    Deployed <- MCDeployed
    MaxCalls = 3
    MaxSteps = 6
    None = None
INVARIANTS
    TypeOK
    CheckpointsCovered
    ForksAreIsolated
    ReadsAsExpected
