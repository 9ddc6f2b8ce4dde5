SPECIFICATION Spec

CONSTANTS
    t1 = t1
    Null = Null
    Services = {s1, s2}
    RunSlots = {r1, r2}
    Tenants = {t1}
    Apis = {a1}
    MaxPOIDNumber = 2
    MaxLifetime = 1
    CronSpan = 1
    MaxEntries = 2
    MaxTime = 3
    MaxFaults = 1
    Backlog <- OneRequest

SYMMETRY Symmetry

INVARIANTS
    TypeOK
    AtMostOneExecution
    NoLostRequest


    

\* The clock is bounded and the system may have nothing left to do.
CHECK_DEADLOCK FALSE
