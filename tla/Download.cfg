SPECIFICATION DownloadSpec
CONSTANTS
    Hash = {g, k}
    MaxChunks = 3
    MaxLen = 2
    MaxExtra = 1
SYMMETRY Symmetry
INVARIANTS
    SentIsAsked
