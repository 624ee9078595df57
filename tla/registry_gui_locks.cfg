SPECIFICATION LockedSpec
CONSTANTS
    gui = gui
    cli = cli
    r1 = r1
    Procs = {gui, cli}
    Writers = {gui, cli}
    Names = {a, b}
    Recs = {r1}
    NoRec = NoRec
    Torn = Torn
    Absent = Absent
PROPERTY RegistryIsAtomic
CHECK_DEADLOCK FALSE
