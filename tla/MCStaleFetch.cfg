CONSTANTS
    Paths = {p}
    None = None
    MaxEdits = 1
    MaxFaults = 0
SPECIFICATION PollSpec
PROPERTY PollCatches
CHECK_DEADLOCK FALSE
