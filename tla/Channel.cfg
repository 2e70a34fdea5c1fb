CONSTANTS
    s1 = s1  s2 = s2  s3 = s3  r1 = r1  r2 = r2
    c1 = c1  c2 = c2  w1 = w1  w2 = w2  i1 = i1  i2 = i2
    NoItem = NoItem  NoChan = NoChan
    Maxsize = 1
    CalmMaxsize = 2
    Senders <- ThreeSenders
    Receivers <- TwoReceivers
    Cancellable <- All
    Scenes <- EveryScene
    SelChans <- ChansEach  SelTasks <- TasksEach  SelItems <- BothItems
    SelMaxsize <- MaxsizeEach  SelRounds <- RoundsEach  SelRivals <- RivalsEach
    SelCancellable <- CancellableEach
SPECIFICATION MFairSpec
INVARIANTS ChannelSound ItemsKept SelectSound SharedWakeKept
PROPERTIES CalmImplementsFifo CloseReleasesReceivers LoneSelectReturns
CHECK_DEADLOCK FALSE
