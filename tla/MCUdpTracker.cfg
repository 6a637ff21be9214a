SPECIFICATION FairSpec
CONSTANTS
    Tasks = {t1, t2}
    Trackers = {k1, k2}
    Ports = {p1, p2}
    Responses <- MCResponses
    MaxPeers = 2
    Ids <- MCIds
    ConnectLens = {15, 16}
    ErrorLens = {16, 24}
    MaxDup = 1
INVARIANTS
    TypeOK
    IdIsMine
    NoFalseAlarm
PROPERTY
    ImplementsAnnounce
CHECK_DEADLOCK FALSE
