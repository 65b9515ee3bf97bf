CONSTANTS
    d1 = d1
    d2 = d2
    Dir = {d1, d2}
    rootDir = d1
    includeDir = d2
    Unloadable = {2}
    Invalid = {1}
    Including = {1}
    MaxEdits <- Edits
    NoDirs = NoDirs
    NotRead = NotRead
SPECIFICATION FairSpec
INVARIANTS
    QuietMeansCurrent
    LastSnapshotArrives
PROPERTIES
    NoReloadAfterTeardown
    EditsAreLoaded
    DeathIsReported
    RequiredOrStopped
CHECK_DEADLOCK FALSE
