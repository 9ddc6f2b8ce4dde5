SPECIFICATION Spec

CONSTANTS
    Pages = {p1}
    Keys = {k1, k2}
    PaddedKeys = {k1}
    Loaded = {{}, {k1, k2}}
    Texts = {v1, v2}
    Empty = Empty
    MaxRequests = 3
    MaxReloads = 1
    Listed = 3
    MaxPresses = 2
    MaxClicks = 3

SYMMETRY Symmetry

INVARIANTS
    ConsoleInv
    
    UniqueUnlessRaced
    RerunEach

\* The user may do nothing more.
CHECK_DEADLOCK FALSE
