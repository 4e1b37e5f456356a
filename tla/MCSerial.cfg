SPECIFICATION Spec
CONSTANTS
    Tickets = {t1}
    Reviewers = {r1}
    Repliers = {q1}
    RuleTables <- MCTwoTables
    SeedRules <- MCRefundsToBilling
    Threshold = 2
    HttpFailures = {"timeout", "api_error"}
    Poisoned = {}
    MaxGlitches = 1
    MaxRestarts = 1
    MaxStamp = 1
    Intents <- MCIntents
    Priorities <- MCPriorities
    Sentiments <- MCSentiments
    Queues <- MCQueues
    DefaultQueue = general
    Wildcard = Wildcard
    None = None
    refund = refund
    bug = bug
    p1 = p1
    calm = calm
    billing = billing
    general = general
INVARIANTS
    VerdictExplainsStatus
    ReadsAreCurrent
PROPERTIES
    ResolvedDraftIsFrozen
    KeepsPromise
