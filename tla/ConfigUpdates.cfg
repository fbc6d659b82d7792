SPECIFICATION FairSpec
CONSTANTS
    Process = {p1, p2}
    None = None
    Damaged = Damaged
    Commands <- MixedCommands
    MaxBreaks = 1
INVARIANTS
    DamageNeedsBreak
PROPERTIES
    OneAtATime
    ProcessesEnd
