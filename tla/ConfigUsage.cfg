SPECIFICATION Spec
CONSTANTS
    Process = {p1, p2, p3, p4}
    None = None
    Damaged = Damaged
    Commands <- UsageCommands
    MaxBreaks = 0
CONSTRAINT OneScenario
INVARIANTS
    OptOutHonoured
    FirstUseOnce
SYMMETRY Symmetry
