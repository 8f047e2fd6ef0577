SPECIFICATION Spec
CONSTANTS
    Proc = {p, q}
    Resumer = resumer
    Nobody = nobody
    Sizes = {0, 1, 3}
    MaxFaults = 1
INVARIANTS
    TypeOK
    ReportedIsOnDisk
    DoneIsReceived
    StoredOnceUnlessAgain
    ChargedIsStored
PROPERTIES
    KeepsPromise
CHECK_DEADLOCK FALSE
