SPECIFICATION Spec
CONSTANTS
    Settings <- MCSettings
    MaasReplies <- MCReplies
    Pods = {1, 2}
    Attempts = {a1, a2}
    MaxFailures = 2
    MaxRotations = 1
    MaxAttempts = 2
    MaxMistakes = 1
    MaxAsks = 1
INVARIANTS
    TypeOK
    OneDatabasePerUse
    OperatorOwnsDatabases
    ConnectionIsForKey
    TlsHonoured
    NoSilentFallback
    KafkaPasswordOfUser
    OldSecretKeptUntilAnswer
    SuccessGrants
    DoneMeansReady
PROPERTIES
    PodsConnect
    CreateDbEnds
CHECK_DEADLOCK FALSE
