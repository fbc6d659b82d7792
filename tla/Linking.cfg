CONSTANTS
    below = below
    q1 = q1
    q2 = q2
    q3 = q3
    Projects = {q1, q2, q3}
    Top = top
    Below <- OneBelow
    NameDir <- NamedBelow
    People = {p1, p2}
    Commands <- SomeCommands
    MaxRuns = 3
    MaxEvents = 1
SYMMETRY Either
SPECIFICATION ScenarioSpec
INVARIANTS OneProjectEach EnvFollowsLink
PROPERTIES RelinkedAsAsked
CHECK_DEADLOCK FALSE
