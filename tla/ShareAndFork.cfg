CONSTANTS
    Owners = {o1}
    Visitors = {v1}
    ShareIds <- OneShare
    Link = 1
    Variables = {}
    Functions = {f}
    MaxVersion = 2
    MaxReleases = 2
    Commands <- SomeCommands
    Orders <- SomeOrders
SPECIFICATION FairSpec
INVARIANTS CopiesConfirmed NothingCreatedTrue CopyIsReported
PROPERTIES ForkedOnce ForkingEnds
