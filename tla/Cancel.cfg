CONSTANTS
    a = a  b = b  d = d  t1 = t1  t2 = t2  NoContext = NoContext
    Setup <- Setups
    GroupChildren <- ChildrenOf
    GroupEntries <- EntriesOf
    GroupExternal <- CancelledFromOutside
    Contexts <- Chain
    Parent <- ChainParent
    Threads <- Two
    Jobs <- Two
SPECIFICATION MSpec
INVARIANTS
    ScopesSound CancellationKept ChildrenFinished FailuresSurface CascadeComplete
CHECK_DEADLOCK FALSE
