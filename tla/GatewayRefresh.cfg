CONSTANTS
    s1 = s1
    s2 = s2
    o1 = o1
    Sessions <- MCSessions
    NoSession = NoSession
    Operators <- MCOperators
    NoOperator = NoOperator
    owner <- MCOwner
    Tokens = {t1, t2}
    Requests = {r1, r2}
    Sockets = {w1}
    JoinChecksRegistry = FALSE
SPECIFICATION Spec
INVARIANTS
    RevokedSessionHasNoToken
CHECK_DEADLOCK FALSE
