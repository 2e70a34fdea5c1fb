CONSTANTS
    Tasks = {t1, t2, t3}
    Cancellable = {t1, t2, t3}
    Mortal = {t1, t2, t3}
    NoTask = NoTask
    MaxNotify = 2
    Peers = {t1, t2, t3, t4}
    Victims = {t1, t2, t3, t4}
    Permits = 2
    Budgets = {0, 1, 2, 3}
    Budget = 2
    BarrierParties = 3
    BarrierControl = 2
    RWReaders = {t1, t2}
    RWWriters = {t3, t4}
    RWDepth = 2
    RWCount = 4
    TrackedJobs = {t1, t2, t3}
    HastyJobs = {t1, t2, t3}
    JobWaiters = {t1, t2}
SPECIFICATION SSpec
INVARIANTS
    SyncTypesOK
    MutualExclusion NoLostOwnership 
    RoundsComplete GrantsSound
    WaitCoversJobs Agreement
PROPERTIES
    NoBarging WaitReturnsLocked PermitsConserved
CHECK_DEADLOCK FALSE
