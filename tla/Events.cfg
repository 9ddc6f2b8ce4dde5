SPECIFICATION Spec

CONSTANTS
    Elements = 3
    MaxBound = 2
    MaxEvents = 2
    MaxOff = 1
    MaxThrows = 1

INVARIANTS
    EventsInv
    
    NotAfterOff
    HeardInOrder

\* The page may have nothing left to do.
CHECK_DEADLOCK FALSE
