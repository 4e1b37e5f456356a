SPECIFICATION FairSpec
CONSTANTS
    Tickets = {t1, t2}
    Reviewers = {}
    Repliers = {}
    RuleTables <- MCOneTable
    SeedRules <- MCRefundsToBilling
    Threshold = 2
    HttpFailures = {"timeout"}
    Poisoned = {t1}
    MaxGlitches = 0
    MaxRestarts = 0
    MaxStamp = 2
    Intents <- MCIntents
    Priorities <- MCPriorities
    Sentiments <- MCSentiments
    Queues <- MCQueues
    DefaultQueue = general
    Wildcard = Wildcard
    None = None
    refund = refund
    bug = bug
    p1 = p1
    calm = calm
    billing = billing
    general = general
PROPERTIES
    EveryTicketIsDecided
