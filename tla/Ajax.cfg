SPECIFICATION Spec

CONSTANTS
    Null = Null
    Requests = {r1, r2}
    MaxAborts = 2
    MaxThrows = 1

INVARIANTS
    
    
    ActiveCounts

PROPERTIES
    SentCompletes

\* The application may have nothing left to do.
CHECK_DEADLOCK FALSE
