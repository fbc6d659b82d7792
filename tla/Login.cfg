SPECIFICATION FairSpec
CONSTANTS
    Flows <- AllFlows
    MaxFailures = 3
    MaxAttempts = 3
    Expiry = 6
    MaxInterval = 3
INVARIANTS
    SpentCodeKept
    OutcomeTrue
    SelectionHolds
PROPERTIES
    SlowsDown
    LoginEnds
