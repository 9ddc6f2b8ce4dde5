SPECIFICATION LazySpec

CONSTANTS
    t1 = t1
    Null = Null
    Services = {s1}
    RunSlots = {r1, r2}
    Tenants = {t1}
    Apis = {}
    MaxPOIDNumber = 1
    MaxLifetime = 1
    CronSpan = 1
    MaxEntries = 2
    MaxTime = 9
    MaxFaults = 1
    Backlog <- TwoInOne

INVARIANTS
    OneStartedPerQueue
    QueueExclusive

PROPERTIES
    EntryRetired
    

\* The clock is bounded and the system may have nothing left to do.
CHECK_DEADLOCK FALSE
