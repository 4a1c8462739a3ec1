\* Two presses of the buttons, in any order, while the worker runs.
CONSTANTS
    e1 = e1
    e2 = e2
    e3 = e3
    r1 = r1
    r2 = r2
    Worker = Worker
    Recover = Recover
    Clear = Clear
    Unload = Unload
    Events = {e1, e2}
    Android = {e1, e2}
    Recordings = {r1, r2}
    Tasks <- MCTasks
    EventTime <- TwoTimes
    Matches <- TwoMatches
    MaxAge = 0
    MaxAttempts = 2
    MaxProcessed = 3
    MaxPending = 2
    MaxCompleted = 2
    MaxTime = 1
    MaxRestarts = 0
    MaxPresses = 2
    MayUnload = FALSE
SPECIFICATION Spec
INVARIANT TypeOK
INVARIANT NoLostWakeup
INVARIANT StaleNeverWakes
PROPERTY CreditKept
CHECK_DEADLOCK FALSE
