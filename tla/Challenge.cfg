CONSTANTS
    Ids = {i1, i2}
    Verifiers = {v1, v2}
    IPs <- MCIPs
    Visitors <- MCVisitors
    Agents <- MCAgents
    MaxSize = 1
    MaxRetries = 2
    TTL = 0
    SolveMax = 2
    SolveWindow = 0
    Durations = {0, 1}
    Skew = 0
    Movements <- MCMovements
    Behaviours <- MCBehaviours
SPECIFICATION Spec
INVARIANTS
    ExhaustedIsClosed
    RedeemedIsClosed
    SolvesNearlyLimited
    CookiesAreRationed
    AcceptedAsSigned
PROPERTY ExpiredIsReclaimed
