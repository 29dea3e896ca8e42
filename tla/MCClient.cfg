SPECIFICATION FairSpec
CONSTANTS
    Identify <- Identifies
    Policies <- PublicOrGuarded
    MaxRdyCount = 1
    BufferSize = 1
    MaxMsgs = 2
    MaxIdentify = 1
    MaxPokes = 1
INVARIANTS
    Awake
    SettingsAgree
PROPERTIES
    PolicyFirst
    Flushed
\* A connection that is closed stays closed.
CHECK_DEADLOCK FALSE
