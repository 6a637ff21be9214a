SPECIFICATION FairSpec
CONSTANTS
    Urls <- MCUrls
    UdpUrls = {"udp1"}
    HttpUrls = {"http2"}
    BadBodies <- MCBadBodies
    Word = 8000
    Tiers <- MCTiers
    Answers <- MCAnswers
    Capacity = 2
    MaxTasks = 4
INVARIANTS
    TypeOK
    ContactedOnce
    AllPeersGathered
    ShortestInterval
    SavedOnSuccess
PROPERTIES
    TasksAnnounce
    CommandEnds
CHECK_DEADLOCK FALSE
