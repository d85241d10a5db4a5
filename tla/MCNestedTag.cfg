SPECIFICATION Spec
CONSTANTS
    Names = {"app", "env", "noise"}
    Noise = {"noise"}
    MaxDepth = 2
INVARIANT TagsNameTheirFile
CHECK_DEADLOCK FALSE
