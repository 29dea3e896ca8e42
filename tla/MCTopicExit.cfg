SPECIFICATION FairSpec
CONSTANTS
    m0 = m0
    m1 = m1
    m2 = m2
    c1 = c1
    c2 = c2
    Nil = Nil
    Msg = {m0, m1, m2}
    Deferred = {m0}
    Call <- Calls
    MaxPublished = 2
    Chan = {c1}
    MemQueueSize = 1
    Ephemerals = {FALSE}
    Fails = FALSE
    ExitKinds = {"delete"}
    MaxCalls = 3
    MaxOpens = 0
PROPERTIES
    ExitReturns
CHECK_DEADLOCK FALSE
