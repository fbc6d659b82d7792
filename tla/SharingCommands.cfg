CONSTANTS
    Owners = {o1, o2}
    other = o2
    ShareIds <- TwoShares
    Variables = {v}
    Functions = {f}
    MaxVersion = 3
    MaxReleases = 3
    Commands <- AllCommands
SPECIFICATION ScenarioSpec
INVARIANTS ReleasesConfirmed StaysOff ReshareAgreed
PROPERTIES SharingEnds
