CONSTANTS
    Configs <- MCConfigs
    RepScores <- MCRepScores
    BotScores <- MCBotScores
    WafScores <- MCWafScores
    ProtoScores <- MCProtoScores
    TrustReductions <- MCTrustReductions
    LimitActions <- MCLimitActions
    SkipSets <- MCSkipSets
SPECIFICATION GatewaySpec
INVARIANT BuiltReopens
