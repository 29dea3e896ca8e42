SPECIFICATION LiveSpec
CONSTANTS
    m1 = m1
    m2 = m2
    c1 = c1
    c2 = c2
    Nil = Nil
    Msg = {m1, m2}
    Client = {c1}
    Copies = 1
    MemQueueSize = 1
    MaxRdy = 2
    MaxAttempts = 2
    MaxTouches = 0
    MaxEmpties = 0
    MayFail = FALSE
    MaySample = FALSE
    ExitKinds = {}
PROPERTIES
    InFlightEnds
    DeferredEnds
\* All clients may leave, and then nothing is left to do.
CHECK_DEADLOCK FALSE
