CONSTANTS
    p1 = p1
    p2 = p2
    s1 = s1
    s2 = s2
    Peers <- MCPeers
    NoPeer = NoPeer
    Sessions <- MCSession
    NoSession = NoSession
    ControlSessions <- MCControlSessions
    ControlLossTimeout = 0
    InvalidCmdThreshold = 1
    InvalidCmdTimeWindow = 0
SPECIFICATION Spec
INVARIANTS
    TypeOK
    NoOrphanSession
    SuspendedMotionResumes
PROPERTIES
    EndIsFinal
    EndedStopIsPermanent
CHECK_DEADLOCK FALSE
SYMMETRY MCSymmetry
