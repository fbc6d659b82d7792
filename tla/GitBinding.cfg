CONSTANTS
    r1 = r1
    r2 = r2
    a = a
    b = b
    c = c
    main = main
    dev = dev
    web = web
    Repos = {r1, r2}
    Names = {a, b, c}
    Installations = {1, 2}
    Branches = {main, dev}
    Roots <- RootDirectories
    Frontends = {web}
    MaxEvents = 1
    People = {p1, p2}
    Commands <- SomeCommands
SYMMETRY Either
SPECIFICATION ScenarioSpec
INVARIANTS SettingsAsChosen
PROPERTIES ReplacedAsAgreed ChoicesKept
CHECK_DEADLOCK FALSE
