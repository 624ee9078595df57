SPECIFICATION FilesSpec
CONSTANTS
    gui = gui
    cli = cli
    r1 = r1
    Procs = {gui, cli}
    Writers = {cli}
    Names = {a, b}
    Recs = {r1, r2}
    NoRec = NoRec
    Torn = Torn
    Absent = Absent
    h1 = h1
    h2 = h2
    h3 = h3
    Vms = {"v1", "v2"}
    Editors = {1, 2}
    Dialog = 1
    Hosts = {h1, h2, h3}
    NoHost = NoHost
    MaxTasks = 2
    Jobs = {1, 2}
    MaxRuns = 2
    MaxTurns = 2
INVARIANTS Inv PortsInv ProxyInv
PROPERTIES RegistryIsAtomic FileStaysWithTwo EditsKeepRules MCEnvCatchesUp
CHECK_DEADLOCK FALSE
