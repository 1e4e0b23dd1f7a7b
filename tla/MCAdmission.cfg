CONSTANTS
    Undefined = Undefined
    NoRule = NoRule
    NoPolicy = NoPolicy
    Malformed = Malformed
    PolicyIds <- MCPolicyIds
    RuleLists <- MCRuleLists
    DefaultRules <- MCDefaultRules
    maxPolicies = 2
    MaxVersions = 2
    Applications = {a1}
    Vcs <- MCVcs
    Resources = {"robot1", "robot2"}
    Scopes <- MCScopes
    Dids <- MCDids
    Issuers <- MCIssuers
    Jwts <- MCJwts
    maxSize = 2
    lifetime = 2
    MaxNow = 3
    clockSkew = 1
    Jtis = {t1, t2}
    ttl = 4
    warningThreshold = 2
    checkInterval = 2
    cleanupInterval = 3
    LastInstant = 9
SPECIFICATION Spec
INVARIANTS
    TypeOK
    HistoryComplete
    GrantIsAccountable
    CacheConsistent
    VerdictIsRight
    WarnedBeforeExpiry
CHECK_DEADLOCK FALSE
