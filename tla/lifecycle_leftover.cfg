SPECIFICATION Spec
CONSTANTS
    Actors = {c1}
    Gui = {}
    Kinds = {"install", "uninstall"}
    Versions = {v1}
    Proxies = {inherit}
    NoProxy = inherit
    Backend = "lima"
    Faults = {"step"}
    MaxRequests = 3
    NoVM = NoVM
    NoRec = NoRec
    NoClaw = NoClaw
    NoJob = NoJob
PROPERTY CreateMeansProvisioned
CHECK_DEADLOCK FALSE
