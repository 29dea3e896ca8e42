SPECIFICATION Spec
CONSTANTS
    m1 = m1
    m2 = m2
    c1 = c1
    c2 = c2
    Nil = Nil
    Msg = {m1, m2}
    Client = {c1, c2}
    Copies = 1
    MemQueueSize = 2
    MaxRdy = 1
    MaxAttempts = 3
    MaxTouches = 1
    MaxEmpties = 0
    MayFail = FALSE
    MaySample = FALSE
    ExitKinds = {}
SYMMETRY Symmetry
CONSTRAINT SmallWorkload
INVARIANTS
    CountExact
    RdyBound
    RemovesOwnEntry
    TimeoutArmed
PROPERTIES
    EndedStays
\* All clients may leave, and then nothing is left to do.
CHECK_DEADLOCK FALSE
