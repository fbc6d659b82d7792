CONSTANTS
    user = user
    job = job
    a = a
    b = b
    x = x
    y = y
    z = z
    None = None
    Before = Before
    File = {a, b}
    Corpus <- TwoCommits
    Process = {user, job}
    Ops <- BothOps
    MaxCalls <- BothCalls
    MaxCrashes = 1
SPECIFICATION FairSpec
INVARIANTS LiveCacheWhole ReuseTrue
PROPERTIES StoreHolds CallsEnd
