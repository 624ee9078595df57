SPECIFICATION HilSpec
CONSTANTS
    Boxes = {1}
    Watched = {1}
    Agents = {"a"}
    MaxChains = 2
    MaxTurns = 0
INVARIANT OkMeansContinued
CHECK_DEADLOCK FALSE
