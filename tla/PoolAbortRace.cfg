CONSTANTS
    w1 = w1  w2 = w2  p1 = p1  b1 = b1  g1 = g1  g2 = g2
    NoWorker = NoWorker
    Workers <- TwoWorkers
    Jobs <- AllJobs
    Pin <- ToFirst
    LocalCapacity = 1
    BatchMax = 2
    Stubborn <- Blocker
    Coroutines <- None
    Modes <- AllModes
    Scenes <- MainScene
    Cast <- SceneJobs
    Calls <- AbortOnly
SPECIFICATION MSpec
INVARIANTS ShutdownResolvesAll
CHECK_DEADLOCK FALSE
