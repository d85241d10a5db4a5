CONSTANTS
    Trees = {t1}
    Old = {t1}
    Root = root
    Trunk = trunk
    Refusable = {}
    Calls = {c1}
    None = None
    MaxCommits = 0
    MaxStash = 3
    MaxRebuild = 0
SPECIFICATION Spec
PROPERTIES OwnStashesOnly
CHECK_DEADLOCK FALSE
