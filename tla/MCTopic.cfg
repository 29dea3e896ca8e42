SPECIFICATION FairSpec
CONSTANTS
    m0 = m0
    m1 = m1
    m2 = m2
    c1 = c1
    c2 = c2
    Nil = Nil
    Msg = {m0, m1, m2}
    Deferred = {m0}
    Call <- Calls
    MaxPublished = 2
    Chan = {c1, c2}
    MemQueueSize = 1
    Ephemerals = {FALSE, TRUE}
    Fails = TRUE
    ExitKinds = {"close", "delete"}
    MaxCalls = 4
    MaxOpens = 1
INVARIANTS
    PumpUpToDate
    FanOutComplete
    SameDelay
    CloseKeeps
    CountsQueued
PROPERTIES
    QueuedMoves
\* Publishers may stop, and a topic may hang in exit().
CHECK_DEADLOCK FALSE
