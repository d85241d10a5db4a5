CONSTANTS
    Groups = {"g1", "g2"}
    MaxEdits = 1
    MaxSets = 2
    MaxLaunches = 3
    MaxFaults = 1
    MaxStops = 1
    MaxAsks = 2
    MaxRevs = 3
    MaxLoads = 2
    MaxStrays = 1
    Sides = {1, 2, 3}
    Drags = {d1, d2}
    Reopens = 1
    None = None
    Ids = {h, n}
    Heirs = {n}
    Trees = {t1, t2}
    Root = root
    Trunk = trunk
    Home = Home
    Calls = {c1, c2}
SPECIFICATION DesktopSpec
SYMMETRY Symmetry
INVARIANTS TypesOK HatchFree NothingAdrift PromisesMet KillsWereAsked
PROPERTIES ConversationKept SpawnIsTracked CommitsKept UserFilesKept
CHECK_DEADLOCK FALSE
