SPECIFICATION FairSpec
CONSTANTS
    t1 = t1
    c1 = c1
    r1 = r1
    r2 = r2
    Self = Self
    Nil = Nil
    Name = {t1}
    Chan = {c1}
    Ephemerals <- Either
    LookupChans = {c1}
    Req = {r1, r2}
    MaxTopics = 2
    MaxReqs = 3
    MaxFails = 1
    MaxRestarts = 1
INVARIANTS
    PauseSurvives
    NoOrphan
    MetaSettled
PROPERTIES
    CreatedSettles
\* The process may end for good.
CHECK_DEADLOCK FALSE
