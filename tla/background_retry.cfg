SPECIFICATION ScriptSpec
CONSTANTS
    Attempts = 2
    IdlePolls = 3
    HbPolls = 2
    Lines = 2
    MaxUnread = 3
    FaultSets = {{"exec"}}
INVARIANT ResultIsOwn
CHECK_DEADLOCK FALSE
