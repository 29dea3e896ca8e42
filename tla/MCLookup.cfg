SPECIFICATION FairSpec
CONSTANTS
    a = a
    c1 = c1
    T = T
    Node = {a}
    Chan = {c1}
    Ephemeral = {T}
    Http = {"create", "createChannel", "delete", "deleteChannel", "tombstone"}
    MaxMade = 2
    MaxEvents = 4
    MaxBreaks = 1
    MaxConns = 2
INVARIANTS
    NoGhosts
    ChannelHasTopic
PROPERTIES
    Converges
CHECK_DEADLOCK FALSE
