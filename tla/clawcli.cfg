SPECIFICATION MCSpec
CONSTANTS
    NodeBin = NodeBin
    NpmLib = NpmLib
    Include = Include
    V20 = V20
    V22 = V22
    GuiCli = GuiCli
    Terminal = Terminal
    Installers = {GuiCli}
    Kinds = {"install"}
    Versions = {V20, V22}
    Entries = {NodeBin, NpmLib, Include}
    Faults = {"fetch", "unpack", "remove", "moveOld", "crash"}
    NoDir = NoDir
    Absent = Absent
    Fetchers = {GuiCli, Terminal}
    Chunks = 2
    Pinned = TRUE
    CacheFaults = {"stream", "body", "short", "endless", "write", "crash", "prune"}
    MAX_ATTEMPTS = 2
    NoFile = NoFile
    Native = {"n1"}
    Boxed = {"b1"}
    Tasks = {1, 2}
    Gui = {1}
    Ports = {1}
    DEFAULT_PORT = 1
    Vers = {"v1", "v2"}
    MaxDaemons = 2
    MaxAsked = 3
    MaxExports = 2
    Machines = {"m1", "m2"}
    BundleFiles = {"f1", "f2"}
INVARIANTS
    InstallHolds
    NeverBroken
    DaemonsInv
    BundleInv
PROPERTIES
    KeepsAVersion
    CacheIsWholeAlone
    ReadyRunsInstalled
    FetchesAndCommandsEnd
    ExportIsTold
CHECK_DEADLOCK FALSE
