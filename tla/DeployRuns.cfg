SPECIFICATION FairSpec
CONSTANTS
    f = f
    g = g
    d = d
    e = e
    w = w
    Function = {f, g}
    Durable = {d, e}
    Frontend = {w}
    MaxDeployments <- Often
    MaxResyncs = 1
    Plans <- SomePlans
INVARIANTS
    VerdictsHold
    NoNewerIgnored
    OwnDeploymentCounts
    SchedulersAccountedFor
PROPERTIES
    FollowsForward
    RunEnds
