SPECIFICATION AdminSpec

CONSTANTS
    t1 = t1
    Null = Null
    Services = {s1}
    RunSlots = {r1, r2}
    Tenants = {t1}
    Apis = {}
    Admins = {a1, a2}
    MaxCalls = 3
    MaxPOIDNumber = 1
    MaxLifetime = 2
    CronSpan = 1
    MaxEntries = 2
    MaxTime = 4
    MaxFaults = 1
    Backlog <- CronOnly

SYMMETRY Symmetry

INVARIANTS
    AdminInv
    
    

PROPERTIES
    GoneStaysGone

\* The clock is bounded and the system may have nothing left to do.
CHECK_DEADLOCK FALSE
