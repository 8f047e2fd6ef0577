SPECIFICATION Spec
CONSTANTS
    documents = documents
    music = music
    f = f
    x = x
    y = y
    Folder = {documents, music}
    Leaf = {f, x, y}
    Entry <- Tree
    Transfer = {d, e}
    Pieces = 2
    Absent = absent
    Torn = torn
    MaxDocs = 2
    MaxFaults = 1
SYMMETRY Symmetry
INVARIANTS
    NothingIsLostUnlessExcused
    UndoableUnlessForgotten
CHECK_DEADLOCK FALSE
