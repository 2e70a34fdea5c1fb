CONSTANTS
    w1 = w1  w2 = w2  p1 = p1  b1 = b1  g1 = g1  g2 = g2
    NoWorker = NoWorker
    Workers <- TwoWorkers
    Jobs <- AllJobs
    Pin <- ToFirst
    LocalCapacity = 1
    BatchMax = 2
    Stubborn <- Blocker
    Coroutines <- None
    Modes <- AllModes
    Scenes <- EveryScene
    Cast <- SceneJobs
    Calls <- SceneCalls
SPECIFICATION MSpec
INVARIANTS PoolSound OutcomesHonest PinnedWakeKept CloseResolves
CHECK_DEADLOCK FALSE
