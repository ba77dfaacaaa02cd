SPECIFICATION Spec
CONSTANTS
    Procs = {p1, p2, p3}
    MaxTokens = 3
    MaxKills = 1
SYMMETRY ProcSymmetry
INVARIANTS TypeOK CacheIsWhole
PROPERTY CacheIsKept
