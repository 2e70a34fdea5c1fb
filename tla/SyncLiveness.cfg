CONSTANTS
    Tasks = {t1, t2, t3}
    Cancellable = {}
    Mortal = {}
    NoTask = NoTask
    MaxNotify = 2
    Peers = {t1, t2, t3, t4}
    Victims = {}
    Permits = 2
    Budgets = {0, 1, 2, 3}
    Budget = 2
    BarrierParties = 2
    BarrierControl = 0
    RWReaders = {t1, t2}
    RWWriters = {t3, t4}
    RWDepth = 2
    RWCount = 4
    TrackedJobs = {t1, t2}
    HastyJobs = {t2}
    JobWaiters = {t1, t2}
SPECIFICATION SFairSpec
PROPERTIES
    QueuedServed EveryoneReturns
CHECK_DEADLOCK FALSE
