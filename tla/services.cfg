SPECIFICATION MCSpec
CONSTANTS
    Attempts = 2
    IdlePolls = 3
    HbPolls = 2
    Lines = 2
    MaxUnread = 3
    FaultSets = {{"cleanup", "vm_down"}, {"setup", "exec", "cleanup", "vm_down", "crash", "blank"}}
    agent = agent
    shell = shell
    gui = gui
    Handlers = {agent, shell, gui}
    Kinds = {"status", "file", "exec", "run", "hil", "complete"}
    None = None
    Boxes = {1}
    Watched = {1}
    Agents = {"a"}
    MaxChains = 2
    MaxTurns = 1
INVARIANTS
    ServerInv
    ApprovalUnreached
    BrowserAndScriptsHold
PROPERTIES
    FirstRunReturns
    RequestsAnswered
    MCLeftoversSurface
CHECK_DEADLOCK FALSE
