SPECIFICATION MCSpec
CONSTANTS
    g1 = g1
    g2 = g2
    g3 = g3
    v1 = v1
    v2 = v2
    Actors = {g1, g2, g3}
    Gui = {g1, g2, g3}
    Kinds = {"install", "register", "upgrade", "uninstall", "delete", "setproxy", "start", "stop", "export", "import"}
    Versions = {v1, v2}
    Proxies = {inherit}
    NoProxy = inherit
    Backend = "lima"
    Faults = {"step", "probe", "crash"}
    MaxRequests = 5
    NoVM = NoVM
    NoRec = NoRec
    NoClaw = NoClaw
    NoJob = NoJob
    Platform = "lima"
    Names = {"a", "b"}
    Callers = {1, 2}
    Ops = {"prereqs", "create", "export", "import", "destroy", "start", "stop", "rename"}
    Mishaps = {"step", "timeout", "probe", "crash", "reboot"}
    MaxOps = 4
    NoPid = NoPid
    StalePid = StalePid
    Claws = {"openclaw", "hermes"}
    Releases = {"3.22", "3.23"}
    Fallback = "3.23"
    Delays <- MCDelays
    Spells = {4, 25}
    MaxSpells = 2
    MaxFaults = 1
    MaxRuns = 2
    lamp = lamp
    badge = badge
    c1 = c1
    c2 = c2
    Ids = {lamp, badge}
    Urls = {lamp}
    Conns = {c1, c2}
    NoId = NoId
    All = All
    BUS_CAPACITY = 1
    TTL = 1
    MaxNotes = 2
INVARIANTS
    SandboxesHold
    SetupInv
    HwInv
PROPERTIES
    MCUpgradeOnlyStamps
    CommandsKeepTheirWord
    MCOnlyDestroyTakes
    MCIsOneMachine
    GateBlames
    TargetReached
SYMMETRY Sockets
CHECK_DEADLOCK FALSE
