SPECIFICATION Spec
CONSTANTS
    a = a
    b = b
    Hash = {a}
    Content <- OneChunk
    Name = {n1}
    CopyName = copy
    NoVersion = none
    Req = {r1, r2, r3}
    MaxFiles = 2
    MaxFaults = 0
SYMMETRY Symmetry
INVARIANT NothingSilentlyOverwritten
CHECK_DEADLOCK FALSE
