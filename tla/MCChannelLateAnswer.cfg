SPECIFICATION Spec
CONSTANTS
    m1 = m1
    m2 = m2
    c1 = c1
    c2 = c2
    Nil = Nil
    Msg = {m1, m2}
    Client = {c1}
    Copies = 2
    MemQueueSize = 1
    MaxRdy = 1
    MaxAttempts = 2
    MaxTouches = 0
    MaxEmpties = 0
    MayFail = FALSE
    MaySample = FALSE
    ExitKinds = {}
SYMMETRY Symmetry
INVARIANTS
    RemovesOwnEntry
\* All clients may leave, and then nothing is left to do.
CHECK_DEADLOCK FALSE
