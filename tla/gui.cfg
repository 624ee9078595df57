SPECIFICATION MCSpec
CONSTANTS
    n1 = n1
    n2 = n2
    none = none
    Calls = {1, 2}
    Jobs <- MCJobs
    Names = {n1, n2}
    NoName = none
    MaxEvents = 1
    MaxQuits = 1
    MaxAttempts = 2
    Instances = {1, 2}
    MaxOps = 2
    MaxReaders = 2
    MaxPolls = 1
    MaxAsks = 2
INVARIANT MCGuiInv
PROPERTY CliCallAnswers
PROPERTY WizardSettles
PROPERTY MCHealthCatchesUp
CHECK_DEADLOCK FALSE
