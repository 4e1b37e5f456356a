SPECIFICATION ApiSpec
CONSTANTS
    Tickets = {t1, t2}
    Clients = {c1}
    Reviewers = {}
    Repliers = {}
    RuleTables <- MCOneTable
    SeedRules <- MCRefundsToBilling
    Threshold = 1
    HttpFailures = {"timeout"}
    Poisoned = {}
    MaxGlitches = 0
    MaxRestarts = 0
    MaxStamp = 1
    Intents <- MCIntents
    Priorities <- MCPriorities
    Sentiments <- MCSentiments
    Queues <- MCQueues
    DefaultQueue = general
    Wildcard = Wildcard
    None = None
    refund = refund
    bug = bug
    p1 = p1
    calm = calm
    billing = billing
    general = general
INVARIANTS
    OutageNeverBlocksIngestion
