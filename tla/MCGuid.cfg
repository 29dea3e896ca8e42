SPECIFICATION Spec
CONSTANTS
    f1 = f1
    f2 = f2
    Factory <- MCFactory
    NodeID <- MCNodeID
    NodeSize = 2
    SeqSize = 4
    Time <- MCTime
    Twepoch = 1
INVARIANTS
    TypeOK
    StrictlyIncreasing
    NoCollision
