CONSTANTS
    s1 = s1
    s2 = s2
    o1 = o1
    Sessions <- MCSessions
    NoSession = NoSession
    Operators <- MCOperators
    NoOperator = NoOperator
    owner <- MCOwner
    Tokens = {t1, t2, t3}
    Requests = {r1, r2}
    Sockets = {w1, w2}
    JoinChecksRegistry = FALSE
SPECIFICATION Spec
INVARIANTS
    TypeOK
    OneCredential
    RoomsMatchPeers
PROPERTIES
    EndIsFinal
    CredentialPassesOn
CHECK_DEADLOCK FALSE
SYMMETRY MCSymmetry
