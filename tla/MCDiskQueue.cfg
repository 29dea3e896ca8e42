SPECIFICATION LiveSpec
CONSTANTS
    a = a
    b = b
    c = c
    Nil = Nil
    Garbage = Garbage
    Msg = {a, b, c}
    Size <- MCSize
    MaxBytesPerFile = 2
    SyncEvery = 2
    BufSize = 3
    MaxFile = 7
    Environments <- FailingOrCrashing
    MaxCrashes = 2
INVARIANTS
    InOrder
    NothingOwed
    DepthExact
    NoStrayFiles
PROPERTIES
    OwedDelivered
\* An idle queue waits, and the bounds on messages and files end a run.
CHECK_DEADLOCK FALSE
