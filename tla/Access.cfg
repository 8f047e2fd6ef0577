SPECIFICATION Spec
CONSTANTS
    Token = {1, 2, 3}
    Admins = {1}
    Owner = 2
    Name = {m, n}
    Level = {"read", "write"}
    NGroups = 2
    NPerms = 3
    NTags = 2
    NLabels = 2
    NFavorites = 2
    NComments = 2
    Proc = {p, q}
    MaxOps = 2
    MaxFaults = 1
CONSTRAINT Focus
SYMMETRY Symmetry
INVARIANTS
    TypeOK
    DeadGroupGrantsNothingUnlessAdded
    RevokedIsEnded
    CheckHoldsUnlessMoved
    LabelsAreListedUnlessRaced
CHECK_DEADLOCK FALSE
