SPECIFICATION Spec
CONSTANTS
    Tickets = {t1}
    Reviewers = {r1, r2}
    Repliers = {q1, q2}
    RuleTables <- MCTwoTables
    SeedRules <- MCRefundsToBilling
    Threshold = 2
    HttpFailures = {"timeout"}
    Poisoned = {}
    MaxGlitches = 1
    MaxRestarts = 1
    MaxStamp = 1
    Intents <- MCIntents
    Priorities <- MCPriorities
    Sentiments <- MCSentiments
    Queues <- MCQueues
    DefaultQueue = general
    Wildcard = Wildcard
    None = None
    refund = refund
    bug = bug
    p1 = p1
    calm = calm
    billing = billing
    general = general
SYMMETRY MCInterchangeable
INVARIANTS
    WorkerOwnsItsTicket
    QueueFollowsLabel
    IndInv
PROPERTIES
    NeverGoesBack
    FirstCorrectionStays
