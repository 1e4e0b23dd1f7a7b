CONSTANTS
    ControlLossTimeout = 2
    InvalidCmdThreshold = 3
    InvalidCmdTimeWindow = 3
SPECIFICATION Spec
INVARIANTS
    TypeOK
    StopInv
    EmergencyLatch
    BurstBound
PROPERTIES
    InvalidStopJustified
    ImplementsSafeStop
