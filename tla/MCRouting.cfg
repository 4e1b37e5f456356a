\* Two intents and priorities so that a rule can match on one and not the other.
SPECIFICATION Spec
CONSTANTS
    Intents = {refund, bug}
    Priorities = {p0, p2}
    Sentiments = {angry}
    Queues = {billing, general}
    DefaultQueue = general
    Wildcard = Wildcard
    None = None
    MaxRules = 2
    Writers = {w1, w2, w3}
    Payloads <- MCPayloads
    refund = refund
    bug = bug
    p0 = p0
    p2 = p2
    billing = billing
    general = general
SYMMETRY MCInterchangeable
INVARIANTS
    LoopFindsFirstMatch
    AppendedRuleTakesOnlyDefaulted
    DroppingAConditionOnlyWidens
    TableIsOnePayload
    PutInv
PROPERTIES
    ReplacesAtomically
