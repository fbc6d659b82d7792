CONSTANTS
    user = user
    job = job
    a = a
    b = b
    x = x
    y = y
    z = z
    None = None
    Before = Before
    File = {a, b}
    Corpus <- TheCorpus
    Process = {user, job}
    Ops <- SyncOps
    MaxCalls <- OneCall
    MaxCrashes = 0
SPECIFICATION Spec
INVARIANTS SameGeneration
