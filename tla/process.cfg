SPECIFICATION MCSpec
CONSTANTS
    cmd = cmd
    fetch = fetch
    update = update
    user = user
    quit = quit
    Waiters = {cmd, fetch, update}
    Cancellers = {user, quit}
    Runs = {cmd}
    Jobs <- MCJobs
    MaxLines = 1
    CAPACITY = 1
INVARIANTS NoLostCancel Inv 
PROPERTIES CancelReachesWaiters ExecAnswers
CHECK_DEADLOCK FALSE
