SPECIFICATION Spec
CONSTANTS
    m1 = m1
    m2 = m2
    c1 = c1
    c2 = c2
    Nil = Nil
    Msg = {m1, m2}
    Client = {c1}
    Copies = 2
    MemQueueSize = 1
    MaxRdy = 1
    MaxAttempts = 2
    MaxTouches = 0
    MaxEmpties = 1
    MayFail = TRUE
    MaySample = TRUE
    ExitKinds = {"close", "delete"}
SYMMETRY Symmetry
CONSTRAINT SmallAdmin
INVARIANTS
    TypeOK
    OnePlace
    ClosePersists
\* All clients may leave, and then nothing is left to do.
CHECK_DEADLOCK FALSE
