CONSTANTS
    s1 = s1  s2 = s2  s3 = s3  r1 = r1  r2 = r2
    c1 = c1  c2 = c2  w1 = w1  w2 = w2  i1 = i1  i2 = i2
    NoItem = NoItem  NoChan = NoChan
    Maxsize = 0
    CalmMaxsize = 0
    Senders <- TwoSenders
    Receivers <- TwoReceivers
    Cancellable <- All
    Scenes <- OneChannel
    SelChans <- ChansEach  SelTasks <- TasksEach  SelItems <- BothItems
    SelMaxsize <- MaxsizeEach  SelRounds <- RoundsEach  SelRivals <- RivalsEach
    SelCancellable <- CancellableEach
SPECIFICATION MSpec
INVARIANTS CancelKeepsItem
CHECK_DEADLOCK FALSE
