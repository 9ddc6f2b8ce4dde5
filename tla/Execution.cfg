SPECIFICATION Spec

CONSTANTS
    MaxRetryTime = 5
    MaxSends = 2
    MaxFaults = 2

INVARIANTS
    
    
    LastPostDecides
    SleepBounded

\* The process may be over.
CHECK_DEADLOCK FALSE
