SPECIFICATION FairSpec
CONSTANTS
    Requests = {1, 2}
    Endpoints <- MCEndpoints
    Sessions = {"s"}
    NoSession = "none"
    Pins <- NoPins
    Kind <- MCKind
    Order <- MCOrder
    Pos <- MCPos
    Enabled <- MCEnabled
    OptOut <- MCOptOut
    RulesOf <- MCRulesOf
    Reported <- MCReported
    Mode = "auto"
    Idle = "plans"
    Peak = TRUE
    Streams = {1}
    Cooldown = 1
    AuthCooldown = 2
    ServerCooldown = 1
    QuotaRest = 1
    SkipAfter = 0
    SkipSecs = 2
    RateRetries = 1
    RateDelay = 1
    Budget = 2
    AffinityTtl = 1
    RetryOnModelError = TRUE
    Statuses = {"rate", "model"}
    MaxClock = 1
PROPERTY EveryRequestEnds
CHECK_DEADLOCK FALSE
