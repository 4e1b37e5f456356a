SPECIFICATION FairSpec
CONSTANTS
    Threshold = 2
    Cooldown = 2
    MaxNow = 5
    MaxRetries = 1
    MaxCalls = 4
INVARIANTS
    ClientInv
    NoTrafficWhileOpen
    TrippedByItsLog
    ProbeIsHonest
PROPERTIES
    ImplementsBreaker
    FailedTrialReopens
    EveryCallEnds
