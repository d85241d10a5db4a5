CONSTANTS
    None = None
    Ids = {h, s}
    Shells = {s}
    Heirs = {}
    Calls = {c1}
    MaxStops = 0
    MaxAsks = 1
SPECIFICATION LiveSpec
PROPERTIES LiveSurfaces WaitsEnd
CHECK_DEADLOCK FALSE
