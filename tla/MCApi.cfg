SPECIFICATION ApiSpec
CONSTANTS
    Tickets = {t1}
    Clients = {c1, c2}
    Reviewers = {r1}
    Repliers = {}
    RuleTables <- MCOneTable
    SeedRules <- MCRefundsToBilling
    Threshold = 1
    HttpFailures = {"timeout"}
    Poisoned = {}
    MaxGlitches = 0
    MaxRestarts = 1
    MaxStamp = 1
    Intents <- MCIntents
    Priorities <- MCPriorities
    Sentiments <- MCSentiments
    Queues <- MCQueues
    DefaultQueue = general
    Wildcard = Wildcard
    None = None
    refund = refund
    bug = bug
    p1 = p1
    calm = calm
    billing = billing
    general = general
SYMMETRY MCInterchangeable
CONSTRAINT MCConstraint
INVARIANTS
    ServiceInv
    CreatedOnce
    ReplayFindsItsTicket
    DetailIsBacked
    ExportComplete
    StatsNeverBehind
    ListAgrees
PROPERTIES
    KeepsService
