SPECIFICATION EffectsSpec

CONSTANTS
    MaxSlides = 4
    MaxStops = 2
    MaxPromises = 2
    MaxThrows = 1

INVARIANTS
    
    
    ResolvedWhenOver

PROPERTIES
    AllEnd

\* The page may have nothing left to do.
CHECK_DEADLOCK FALSE
