SPECIFICATION Spec
CONSTANTS
    Threads = {"db", "active"}
    ActiveOverlays = {"active"}
    Addresses = {"a"}
    Slots = {"s"}
    Hashes = {"h"}
    Numbers = {7}
    Values = {0, 1, 2, 3}
    Zero = 0
    Databases = {"old", "new"}
    Answer <- MCAnswer
    ChangeSets <- MCChangeSets
    MaxCapacity = 2
    MaxCommits = 2
    None = None
INVARIANTS
    TypeOK
    CommittedIsVisible
    NoFillUnderWay
PROPERTIES
    FillsAreInvisible
