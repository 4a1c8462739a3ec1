\* Fair scheduling, one press of the recovery button.
CONSTANTS
    e1 = e1
    e2 = e2
    e3 = e3
    r1 = r1
    r2 = r2
    Worker = Worker
    Recover = Recover
    Clear = Clear
    Unload = Unload
    Events = {e1, e2}
    Android = {e1, e2}
    Recordings = {r1, r2}
    Tasks <- MCTasks
    EventTime <- TwoTimes
    Matches <- TwoMatches
    MaxAge = 0
    MaxAttempts = 2
    MaxProcessed = 3
    MaxPending = 2
    MaxCompleted = 2
    MaxTime = 1
    MaxRestarts = 0
    MaxPresses = 1
    MayUnload = FALSE
SPECIFICATION FairSpec
PROPERTY ManualHonoured
CHECK_DEADLOCK FALSE
