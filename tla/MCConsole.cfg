CONSTANTS
    WebSockets = {c1, c2}
    NoSocket = NoSocket
    MaxAttempts = 2
    Timers = {t1, t2}
    NoTimer = NoTimer
    MaxClock = 6
    Dates = {0, 1, 4, 5}
    NoDate = NoDate
    ExpiryWarning = 2
    Keys = {"KeyW", "KeyS", "ArrowUp", "KeyA"}
    Buttons = {b1, b2}
    NoBatch = NoBatch
    MaxMove = 2
    MaxSequence = 4
    MaxArrivals = 6
    BufferSize = 4
    maxSamples = 3
SPECIFICATION Spec
INVARIANTS
    TypeOK
    OneLiveSocket
    ShownTimesAreFresh
    KeysMatch
    BatchKnowsButtons
    LossIsCounted
    EachTimestampOnce
PROPERTIES
    DisabledSettles
    LostLinkIsGivenUp
CHECK_DEADLOCK FALSE
