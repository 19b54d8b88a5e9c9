SPECIFICATION LimitsSpec
CONSTANTS
    IPs = {a}
    Requests = {r1, r2}
    MaxKeys = 1
    Configs <- MCConfigs
    DefaultPenalty <- MCDefaultPenalty
    Horizon = 1
    Keys = {k1, k2, k3}
    Watched = {k1}
    MaxPerShard = 2
    Settings <- MCSettings
    One = 2
    BucketTTL = 1
    BucketHorizon = 2
    MaxSpent = 5
    Admins = {a1}
    Profiles = {1, 2}
    Clients = {c1}
    Flows = {f1, f2}
    TTLBlock = 2
    TTLChallenge = 1
    HistoryTTL = 2
    QueueSize = 1
    MaxEdits = 2
    MaxFaults = 1
INVARIANTS
    WindowNeverExceeded
    RateNeverExceeded
    LimiterInUseRuns
    TrustIsRationed
PROPERTIES
    VerdictFades
    AccessIsEnforced
    PenaltyIsServed
    StoredConfigIsApplied
