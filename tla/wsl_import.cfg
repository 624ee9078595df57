SPECIFICATION BackendSpec
CONSTANTS
    Platform = "wsl2"
    Names = {"a", "b"}
    Callers = {1}
    Ops = {"create", "export", "import", "stop"}
    Mishaps = {"probe"}
    MaxOps = 4
    NoPid = NoPid
    StalePid = StalePid
PROPERTY OnlyDestroyTakes
CHECK_DEADLOCK FALSE
