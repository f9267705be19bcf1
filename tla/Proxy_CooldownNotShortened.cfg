SPECIFICATION Spec
CONSTANTS
    Requests = {1, 2}
    Endpoints <- MCEndpoints
    Sessions = {}
    NoSession = "none"
    Pins <- NoPins
    Kind <- MCKind
    Order <- MCOrder
    Pos <- MCPos
    Enabled <- MCEnabled
    OptOut <- MCOptOut
    RulesOf <- MCRulesOf
    Reported <- MCReported
    Mode = "auto"
    Idle = "plans"
    Peak = TRUE
    Streams = {1}
    Cooldown = 1
    AuthCooldown = 3
    ServerCooldown = 1
    QuotaRest = 2
    SkipAfter = 2
    SkipSecs = 2
    RateRetries = 1
    RateDelay = 0
    Budget = 2
    AffinityTtl = 1
    RetryOnModelError = TRUE
    Statuses = {"auth", "transport"}
    MaxClock = 2
PROPERTY CooldownNotShortened
CHECK_DEADLOCK FALSE
