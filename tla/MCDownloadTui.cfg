SPECIFICATION Spec
CONSTANTS
    Urls <- MCUrls
    UdpUrls = {"udp1"}
    HttpUrls = {"http2"}
    BadBodies <- MCBadBodies
    Word = 8000
    Tiers <- MCTiers
    Answers <- MCAnswers
    Capacity = 2
    MaxTasks = 4
INVARIANT TuiCleanedUp
CHECK_DEADLOCK FALSE
