CONSTANTS
    p1 = p1
    p2 = p2
    s1 = s1
    s2 = s2
    Peers <- MCPeer
    NoPeer = NoPeer
    Sessions <- MCSession
    NoSession = NoSession
    ControlSessions <- MCControlSessions
    ControlLossTimeout = 0
    InvalidCmdThreshold = 2
    InvalidCmdTimeWindow = 0
SPECIFICATION Spec
PROPERTIES
    RevokedRobotStaysStopped
CHECK_DEADLOCK FALSE
