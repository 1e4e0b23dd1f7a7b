CONSTANTS
    p1 = p1
    p2 = p2
    s1 = s1
    s2 = s2
    Peers <- MCPeer
    NoPeer = NoPeer
    Sessions <- MCSessions
    NoSession = NoSession
    ControlSessions <- MCControlSessions
    ControlLossTimeout = 1
    InvalidCmdThreshold = 2
    InvalidCmdTimeWindow = 0
SPECIFICATION FairSpec
PROPERTIES
    SilenceStops
    RevocationTakesHold
CHECK_DEADLOCK FALSE
