SPECIFICATION Spec
CONSTANTS
    Hash = {a}
    Proc = {p, q}
    NoHash = nohash
    Ceiling = 0
    Lot = 1
    MaxFaults = 1
SYMMETRY Symmetry
INVARIANTS
    TypeOK
    KeptHasACopy
    KeptIsReadable
PROPERTY
    IsAStore
CHECK_DEADLOCK FALSE
