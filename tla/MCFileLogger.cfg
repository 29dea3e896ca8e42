SPECIFICATION FairSpec
CONSTANTS
    Msg = {m1, m2}
    Configs <- Mixed
    MaxInFlight = 2
    MaxDate = 1
    MaxRev = 6
    MaxEach = 1
    MaxEvents = 2
INVARIANTS
    TypeOK
    OwnLine
PROPERTIES
    ImplementsRelay
    OutputFinal
    AllFinished
\* A process without a logger waits for signals for ever.
CHECK_DEADLOCK FALSE
