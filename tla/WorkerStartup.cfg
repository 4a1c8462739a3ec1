\* Notifications that arrive while the entry is set up.
CONSTANTS
    e1 = e1
    e2 = e2
    e3 = e3
    r1 = r1
    r2 = r2
    Worker = Worker
    Recover = Recover
    Clear = Clear
    Unload = Unload
    Events = {e1, e2}
    Android = {e1, e2}
    Recordings = {r1, r2}
    Tasks <- MCTasks
    EventTime <- SameTime
    Matches <- TwoMatches
    MaxAge = 0
    MaxAttempts = 2
    MaxProcessed = 3
    MaxPending = 2
    MaxCompleted = 2
    MaxTime = 0
    MaxRestarts = 0
    MaxPresses = 0
    MayUnload = FALSE
SPECIFICATION Spec
PROPERTY CreditPreserved
CHECK_DEADLOCK FALSE
