CONSTANTS
    Tokens = {t1, t2, t3}
    MaxSize = 1
SPECIFICATION Spec
INVARIANTS
    TypeOK
    ValidIffInForce
    QuietStoreIsComplete
PROPERTIES
    EvictsOldest
    CapacityKept
